--------------------------- MODULE Scanner_proofs ---------------------------
(***************************************************************************)
(* Proofs about Scanner, for texts of any length: braces are matched, the  *)
(* strings they interrupt resumed at the right one, and lines counted.     *)
(***************************************************************************)
EXTENDS Scanner, FiniteSetTheorems, SequenceTheorems, TLAPS

-----------------------------------------------------------------------------
(***************************************************************************)
(* Numbers, and functions defined by recursion.                            *)
(***************************************************************************)
\* Less than, as a relation.
LessThan == {pair \in Nat \X Nat : pair[1] < pair[2]}

\* A set of natural numbers that is not empty has a least element.
LEMMA LeastNumber ==
  ASSUME NEW S \in SUBSET Nat, S # {}
  PROVE  \E n \in S : \A m \in S : n <= m
<1>1. IsWellFoundedOn(LessThan, Nat)
  <2>1. OpToRel(<, Nat) = LessThan
    BY Zenon DEF OpToRel, LessThan
  <2> QED BY <2>1, NatLessThanWellFounded, Zenon
<1>2. PICK n \in S : \A m \in S : ~ (<<m, n>> \in LessThan)
  BY <1>1, WFMin, Zenon
<1>3. ASSUME NEW m \in S PROVE n <= m
  <2>1. ~ (<<m, n>> \in LessThan)
    BY <1>2
  <2>2. m \in Nat /\ n \in Nat
    OBVIOUS
  <2> QED BY <2>1, <2>2 DEF LessThan
<1> QED BY <1>3

\* A set that has 0, and the successor of all it has, has all the numbers.
LEMMA SetInduction ==
  ASSUME NEW S, 0 \in S, \A n \in Nat : n \in S => n + 1 \in S
  PROVE  Nat \subseteq S
<1> DEFINE T == Nat \ S
<1>1. SUFFICES ASSUME T # {} PROVE FALSE
  OBVIOUS
<1>2. PICK n \in T : \A m \in T : n <= m
  BY <1>1, LeastNumber
<1>3. n # 0 /\ n - 1 \in Nat /\ n - 1 \notin T
  BY <1>2
<1> QED BY <1>2, <1>3

IsLoop(f, D, stop, val, next) ==
  f = [p \in D |-> IF p \in stop THEN val[p] ELSE f[next[p]]]

\* A loop that goes from one member of D to the next defines a function, even
\* before it is known to end.
LEMMA LoopDefined ==
  ASSUME NEW D, NEW stop, NEW val, NEW next, \A p \in D : p \notin stop => next[p] \in D
  PROVE  \E f : IsLoop(f, D, stop, val, next)
<1> DEFINE Stays(C) == \A c \in C : c \notin stop => next[c] \in C
           Reached(p) == {q \in D : \A C \in SUBSET D : (p \in C /\ Stays(C)) => q \in C}
           Found(p) == {val[q] : q \in Reached(p) \cap stop}
           f == [p \in D |-> CHOOSE v : v \in Found(p)]
<1>1. ASSUME NEW p \in D, p \in stop PROVE Found(p) = {val[p]}
  <2>1. p \in Reached(p)
    OBVIOUS
  <2>2. {p} \in SUBSET D /\ Stays({p})
    BY <1>1
  <2>3. Reached(p) \subseteq {p}
    BY <2>2
  <2> HIDE DEF Reached
  <2>4. Reached(p) \cap stop = {p}
    BY <1>1, <2>1, <2>3
  <2> QED BY <2>4
<1>2. ASSUME NEW p \in D, p \notin stop PROVE Found(p) = Found(next[p])
  <2>1. next[p] \in D
    BY <1>2
  <2>2. ASSUME NEW q \in Reached(next[p]) PROVE q \in Reached(p)
    <3>1. ASSUME NEW C \in SUBSET D, p \in C, Stays(C) PROVE q \in C
      <4>1. next[p] \in C
        BY <1>2, <3>1
      <4> QED BY <3>1, <4>1
    <3> QED BY <3>1
  <2>3. ASSUME NEW q \in Reached(p), q # p PROVE q \in Reached(next[p])
    <3>1. ASSUME NEW C \in SUBSET D, next[p] \in C, Stays(C) PROVE q \in C
      <4>1. (C \union {p}) \in SUBSET D /\ p \in C \union {p}
        OBVIOUS
      <4>2. Stays(C \union {p})
        BY <3>1
      <4>3. q \in C \union {p}
        BY <4>1, <4>2
      <4> QED BY <2>3, <4>3
    <3> QED BY <3>1
  <2> HIDE DEF Reached
  <2>4. Reached(p) \cap stop = Reached(next[p]) \cap stop
    BY <1>2, <2>2, <2>3
  <2> QED BY <2>4
<1> HIDE DEF Found
<1>3. ASSUME NEW p \in D PROVE f[p] = IF p \in stop THEN val[p] ELSE f[next[p]]
  <2>1. CASE p \in stop
    <3>1. f[p] = CHOOSE v : v \in {val[p]}
      BY <1>1, <2>1
    <3> QED BY <2>1, <3>1
  <2>2. CASE p \notin stop
    <3>1. next[p] \in D /\ Found(p) = Found(next[p])
      BY <1>2, <2>2
    <3> QED BY <2>2, <3>1
  <2> QED BY <2>1, <2>2
<1>4. f = [p \in D |-> f[p]]
  OBVIOUS
<1> HIDE DEF f
<1>5. [p \in D |-> f[p]] = [p \in D |-> IF p \in stop THEN val[p] ELSE f[next[p]]]
  BY <1>3
<1> QED BY <1>4, <1>5 DEF IsLoop

\* A function that follows a step, from a start.
Follows(f, from, step, n) ==
  f[0] = from /\ \A k \in 1..n : f[k] = step[<<k, f[k - 1]>>]

LEMMA StepByStep ==
  ASSUME NEW D, NEW from \in D, NEW step \in [Nat \X D -> D], NEW n \in Nat
  PROVE  \E f \in [0..n -> D] : Follows(f, from, step, n)
<1> DEFINE Right(m, f) == f[0] = from /\ \A k \in 1..m : f[k] = step[<<k, f[k - 1]>>]
           S == {m \in Nat : \E f \in [0..m -> D] : Right(m, f)}
<1>1. 0 \in S
  <2>1. [k \in 0..0 |-> from] \in [0..0 -> D] /\ Right(0, [k \in 0..0 |-> from])
    OBVIOUS
  <2> QED BY <2>1
<1>2. ASSUME NEW m \in Nat, m \in S PROVE m + 1 \in S
  <2>1. PICK f \in [0..m -> D] : Right(m, f)
    BY <1>2
  <2> DEFINE next == step[<<m + 1, f[m]>>]
             g == [k \in 0..(m + 1) |-> IF k = m + 1 THEN next ELSE f[k]]
  <2>2. f[m] \in D /\ <<m + 1, f[m]>> \in Nat \X D
    OBVIOUS
  <2>3. next \in D
    BY <2>2
  <2>4. g \in [0..(m + 1) -> D]
    BY <2>3
  <2>5. \A k \in 0..m : g[k] = f[k]
    OBVIOUS
  <2>6. g[m + 1] = next
    OBVIOUS
  <2> HIDE DEF g
  <2>7. g[0] = from
    BY <2>1, <2>5
  <2>8. ASSUME NEW k \in 1..(m + 1) PROVE g[k] = step[<<k, g[k - 1]>>]
    <3>1. k - 1 \in 0..m /\ g[k - 1] = f[k - 1]
      BY <2>5
    <3>2. CASE k = m + 1
      <4>1. k - 1 = m
        BY <3>2
      <4> QED BY <2>6, <3>1, <3>2, <4>1
    <3>3. CASE k # m + 1
      BY <2>1, <2>5, <3>1, <3>3
    <3> QED BY <3>2, <3>3
  <2>9. Right(m + 1, g)
    BY <2>7, <2>8
  <2> QED BY <2>4, <2>9
<1>3. n \in S
  <2> HIDE DEF S
  <2> QED BY <1>1, <1>2, SetInduction
<1> QED BY <1>3 DEF Follows

-----------------------------------------------------------------------------
(***************************************************************************)
(* The characters of a text.                                               *)
(***************************************************************************)
\* Beyond the text there is nothing to peek at, and before its end something.
LEMMA Characters ==
  ASSUME IsText(source)
  PROVE  /\ Len(source) \in Nat /\ EndOfText \in Nat \ {0}
         /\ EndOfText = Len(source) + 1
         /\ \A p \in Nat : p \in 1..Len(source) => Peek(p) # Empty
         /\ \A p \in Nat : p \notin 1..Len(source) => Peek(p) = Empty
BY DEF IsText, EndOfText, Peek, At

LEMMA LeastIsMin ==
  ASSUME NEW S \in SUBSET Nat, S # {}
  PROVE  Min(S) \in S /\ \A n \in S : Min(S) <= n
<1>1. \E n \in S : \A m \in S : n <= m
  BY LeastNumber
<1> QED BY <1>1, Zenon DEF Min

\* A loop over a class of characters stops at the first that is none.
LEMMA PastStops ==
  ASSUME IsText(source), NEW p \in 1..EndOfText, NEW class, Empty \notin class
  PROVE  /\ Past(p, class) \in p..EndOfText /\ Peek(Past(p, class)) \notin class
         /\ \A q \in p..(Past(p, class) - 1) : Peek(q) \in class
<1> DEFINE S == {q \in p..EndOfText : Peek(q) \notin class}
<1>1. EndOfText \in Nat /\ p \in Nat /\ p <= EndOfText
  BY Characters
<1>2. Peek(EndOfText) = Empty
  BY Characters
<1>3. EndOfText \in S
  BY <1>1, <1>2
<1>4. S \in SUBSET Nat
  BY <1>1
<1>5. Min(S) \in S /\ \A q \in S : Min(S) <= q
  <2> HIDE DEF S
  <2> QED BY <1>3, <1>4, LeastIsMin
<1>6. Past(p, class) = Min(S)
  BY DEF Past
<1> DEFINE m == Min(S)
<1>7. m \in S /\ \A q \in S : m <= q
  BY <1>5
<1> HIDE DEF m
<1>8. m \in p..EndOfText /\ Peek(m) \notin class
  BY <1>7
<1>9. ASSUME NEW q \in p..(m - 1) PROVE Peek(q) \in class
  <2>1. q \in p..EndOfText /\ ~(m <= q)
    BY <1>1, <1>8
  <2> QED BY <1>7, <2>1
<1>10. Past(p, class) = m
  BY <1>6 DEF m
<1> QED BY <1>8, <1>9, <1>10

\* If it has something to go past, it goes on.
LEMMA PastOne ==
  ASSUME IsText(source), NEW p \in 1..EndOfText, NEW class, Empty \notin class,
         Peek(p) \in class
  PROVE  Past(p, class) \in (p + 1)..EndOfText
<1>1. Past(p, class) \in p..EndOfText /\ Peek(Past(p, class)) \notin class
  BY PastStops
<1>2. Past(p, class) # p
  BY <1>1
<1>3. p \in Nat /\ EndOfText \in Nat
  BY Characters
<1> QED BY <1>1, <1>2, <1>3

-----------------------------------------------------------------------------
(***************************************************************************)
(* Newlines.                                                               *)
(***************************************************************************)
NewlineAt(text, from, to) == {p \in from..to - 1 : At(text, p) = "\n"}

NewlinesIn(text, from, to) == Cardinality(NewlineAt(text, from, to))

LEMMA NewlinesAre == \A from, to : Newlines(from, to) = NewlinesIn(source, from, to)
BY Zenon DEF Newlines, NewlinesIn, NewlineAt, Peek

LEMMA NewlineSets ==
  ASSUME NEW text, NEW a \in Nat, NEW b \in Nat
  PROVE  /\ IsFiniteSet(NewlineAt(text, a, b)) /\ NewlinesIn(text, a, b) \in Nat
         /\ NewlineAt(text, a, b) \in SUBSET (a..(b - 1))
<1>1. a \in Int /\ b - 1 \in Int
  OBVIOUS
<1>2. IsFiniteSet(a..(b - 1))
  BY <1>1, FS_Interval
<1>3. NewlineAt(text, a, b) \in SUBSET (a..(b - 1))
  BY DEF NewlineAt
<1>4. IsFiniteSet(NewlineAt(text, a, b))
  BY <1>2, <1>3, FS_Subset
<1> QED BY <1>3, <1>4, FS_CardinalityType DEF NewlinesIn

LEMMA NewlinesSplit ==
  ASSUME NEW text, NEW a \in Nat, NEW b \in Nat, NEW c \in Nat, a <= b, b <= c
  PROVE  NewlinesIn(text, a, c) = NewlinesIn(text, a, b) + NewlinesIn(text, b, c)
<1> DEFINE A == NewlineAt(text, a, b)
           B == NewlineAt(text, b, c)
<1>1. NewlineAt(text, a, c) = A \union B /\ A \intersect B = {}
  BY DEF NewlineAt
<1>2. IsFiniteSet(A) /\ IsFiniteSet(B) /\ Cardinality(A) \in Nat /\ Cardinality(B) \in Nat
  BY NewlineSets DEF NewlinesIn
<1>3. NewlinesIn(text, a, c) = Cardinality(A \union B)
      /\ NewlinesIn(text, a, b) = Cardinality(A) /\ NewlinesIn(text, b, c) = Cardinality(B)
  BY <1>1, Zenon DEF NewlinesIn
<1> HIDE DEF A, B
<1>4. Cardinality(A \union B) = Cardinality(A) + Cardinality(B) - Cardinality({})
  <2>1. Cardinality(A \union B) = Cardinality(A) + Cardinality(B) - Cardinality(A \intersect B)
    BY <1>2, FS_Union, Zenon
  <2> QED BY <1>1, <2>1, Zenon
<1>5. Cardinality({}) = 0
  BY FS_EmptySet, Zenon
<1>6. Cardinality(A \union B) = Cardinality(A) + Cardinality(B)
  BY <1>2, <1>4, <1>5
<1> QED BY <1>3, <1>6, Zenon

LEMMA NewlinesNone ==
  ASSUME NEW text, NEW a \in Nat, NEW b \in Nat, \A p \in a..(b - 1) : At(text, p) # "\n"
  PROVE  NewlinesIn(text, a, b) = 0
<1>1. NewlineAt(text, a, b) = {}
  BY DEF NewlineAt
<1> QED BY <1>1, FS_EmptySet, Zenon DEF NewlinesIn

LEMMA NewlinesOne ==
  ASSUME NEW text, NEW a \in Nat, At(text, a) = "\n"
  PROVE  NewlinesIn(text, a, a + 1) = 1
<1>1. NewlineAt(text, a, a + 1) = {a}
  BY DEF NewlineAt
<1> QED BY <1>1, FS_Singleton, Zenon DEF NewlinesIn

\* No more newlines than characters.
LEMMA NewlinesFew ==
  ASSUME NEW text, NEW a \in Nat, NEW b \in Nat, a <= b
  PROVE  NewlinesIn(text, a, b) <= b - a
<1>1. a \in Int /\ b - 1 \in Int
  OBVIOUS
<1>2. IsFiniteSet(a..(b - 1))
      /\ Cardinality(a..(b - 1)) = IF a > b - 1 THEN 0 ELSE (b - 1) - a + 1
  BY <1>1, FS_Interval
<1>3. Cardinality(a..(b - 1)) = b - a
  BY <1>2
<1>4. NewlineAt(text, a, b) \in SUBSET (a..(b - 1))
  BY NewlineSets
<1>5. Cardinality(NewlineAt(text, a, b)) <= Cardinality(a..(b - 1))
  BY <1>2, <1>4, FS_Subset
<1> QED BY <1>3, <1>5, Zenon DEF NewlinesIn

-----------------------------------------------------------------------------
(***************************************************************************)
(* White space and comments.                                               *)
(***************************************************************************)
White == {" ", "\r", "\t", "\n"}
NotNewline == Chars(source) \ {"\n"}

\* What follows a character of white space, or the end of a comment.
AfterWhite(q) == IF Peek(q) \in White THEN q + 1 ELSE Past(q, NotNewline)

IsSkip(skip) ==
  skip = [q \in 1..EndOfText |->
            IF Peek(q) \in White THEN skip[q + 1]
            ELSE IF Peek(q) = "#" THEN skip[Past(q, NotNewline)]
            ELSE q]

\* The end of a text is no character.
LEMMA NotEmpty ==
  /\ Empty \notin White /\ Empty # "#" /\ Empty # "\n"
  /\ Empty # "{" /\ Empty # "}" /\ Empty # "\"" /\ Empty # "$" /\ Empty # "\\"
  /\ Empty # "." /\ Empty # "_" /\ Empty # "0" /\ Empty # "="
BY Zenon DEF Empty, White

\* White space is left behind, one character or one comment at a time.
LEMMA WhiteGoesOn ==
  ASSUME IsText(source), NEW q \in 1..EndOfText, Peek(q) \in White \/ Peek(q) = "#"
  PROVE  AfterWhite(q) \in (q + 1)..EndOfText
<1>1. q \in Nat /\ Len(source) \in Nat /\ EndOfText = Len(source) + 1 /\ q <= EndOfText /\ 1 <= q
  BY Characters
<1>2. Peek(q) # Empty
  BY NotEmpty
<1>3. q \in 1..Len(source)
  BY <1>1, <1>2, Characters
<1>4. CASE Peek(q) \in White
  <2>1. q + 1 \in (q + 1)..EndOfText
    BY <1>1, <1>3
  <2> QED BY <1>4, <2>1 DEF AfterWhite
<1>5. CASE Peek(q) \notin White
  <2>1. Peek(q) \in Chars(source)
    BY <1>3 DEF Chars, Peek
  <2>2. Empty \notin Chars(source)
    BY DEF Chars, IsText
  <2>3. Peek(q) \in NotNewline /\ Empty \notin NotNewline
    BY <1>5, <2>1, <2>2 DEF NotNewline, White
  <2>4. Past(q, NotNewline) \in (q + 1)..EndOfText
    BY <2>3, PastOne
  <2> QED BY <1>5, <2>4 DEF AfterWhite
<1> QED BY <1>4, <1>5

LEMMA WhiteSkipped ==
  ASSUME IsText(source), NEW p \in 1..EndOfText
  PROVE  skip_whitespace(p) \in p..EndOfText /\ Peek(skip_whitespace(p)) # "\n"
<1> DEFINE D == 1..EndOfText
           stop == {q \in D : ~(Peek(q) \in White \/ Peek(q) = "#")}
           val == [q \in D |-> q]
           next == [q \in D |-> AfterWhite(q)]
           skip == CHOOSE f : IsSkip(f)
           Stops(q) == skip[q] \in q..EndOfText /\ Peek(skip[q]) # "\n"
<1>1. EndOfText \in Nat
  BY Characters
<1>2. ASSUME NEW q \in D, q \notin stop PROVE next[q] \in D
  <2>1. AfterWhite(q) \in (q + 1)..EndOfText
    BY <1>2, WhiteGoesOn
  <2> QED BY <1>1, <2>1
<1>3. PICK f : IsLoop(f, D, stop, val, next)
  <2> HIDE DEF D, stop, val, next
  <2> QED BY <1>2, LoopDefined, Zenon
<1>4. IsSkip(f)
  <2>1. ASSUME NEW q \in D
        PROVE  (IF q \in stop THEN val[q] ELSE f[next[q]])
                 = IF Peek(q) \in White THEN f[q + 1]
                   ELSE IF Peek(q) = "#" THEN f[Past(q, NotNewline)] ELSE q
    BY DEF AfterWhite
  <2>2. f = [q \in D |-> IF q \in stop THEN val[q] ELSE f[next[q]]]
    BY <1>3, Zenon DEF IsLoop
  <2>3. [q \in D |-> IF q \in stop THEN val[q] ELSE f[next[q]]]
          = [q \in D |-> IF Peek(q) \in White THEN f[q + 1]
                         ELSE IF Peek(q) = "#" THEN f[Past(q, NotNewline)] ELSE q]
    <3> HIDE DEF stop, val, next, D
    <3> QED BY <2>1
  <2> QED BY <2>2, <2>3, Zenon DEF IsSkip
<1>5. IsSkip(skip)
  BY <1>4, Zenon
<1>6. skip_whitespace(p) = skip[p]
  BY Zenon DEF skip_whitespace, IsSkip, White, NotNewline
<1> HIDE DEF skip
<1> DEFINE Reached == {n \in Nat : \A q \in D : EndOfText - q <= n => Stops(q)}
<1>7. ASSUME NEW q \in D, Peek(q) \in White \/ Peek(q) = "#"
      PROVE  skip[q] = skip[AfterWhite(q)]
  BY <1>5, <1>7 DEF IsSkip, AfterWhite
<1>8. ASSUME NEW q \in D, ~(Peek(q) \in White \/ Peek(q) = "#") PROVE skip[q] = q
  BY <1>5, <1>8 DEF IsSkip
<1>9. ASSUME NEW n \in Nat, NEW q \in D, EndOfText - q <= n,
             \A r \in D : EndOfText - r < n => Stops(r)
      PROVE  Stops(q)
  <2>1. CASE Peek(q) \in White \/ Peek(q) = "#"
    <3> DEFINE r == AfterWhite(q)
    <3>1. r \in (q + 1)..EndOfText
      BY <2>1, WhiteGoesOn
    <3>2. skip[q] = skip[r]
      BY <2>1, <1>7
    <3> HIDE DEF r
    <3>3. r \in D /\ EndOfText - r < n /\ q < r /\ q \in Nat /\ r \in Nat
      BY <1>1, <1>9, <3>1
    <3>4. Stops(r)
      BY <1>9, <3>3
    <3> QED BY <1>1, <3>2, <3>3, <3>4
  <2>2. CASE ~(Peek(q) \in White \/ Peek(q) = "#")
    <3>1. skip[q] = q
      BY <2>2, <1>8
    <3>2. Peek(q) # "\n"
      BY <2>2, Zenon DEF White
    <3> QED BY <3>1, <3>2, <1>1
  <2> QED BY <2>1, <2>2
<1>10. 0 \in Reached
  <2>1. ASSUME NEW q \in D, EndOfText - q <= 0 PROVE Stops(q)
    <3>1. \A r \in D : EndOfText - r < 0 => Stops(r)
      BY <1>1
    <3> HIDE DEF D
    <3> QED BY <1>9, <2>1, <3>1
  <2> QED BY <2>1
<1>11. ASSUME NEW n \in Nat, n \in Reached PROVE n + 1 \in Reached
  <2>1. ASSUME NEW q \in D, EndOfText - q <= n + 1 PROVE Stops(q)
    <3>1. ASSUME NEW r \in D, EndOfText - r < n + 1 PROVE Stops(r)
      <4>1. EndOfText - r <= n
        BY <1>1, <3>1
      <4> QED BY <1>11, <4>1
    <3>2. n + 1 \in Nat
      OBVIOUS
    <3> HIDE DEF D
    <3> QED BY <1>9, <2>1, <3>1, <3>2
  <2> QED BY <2>1
<1>12. Nat \subseteq Reached
  <2> HIDE DEF Reached
  <2> QED BY <1>10, <1>11, SetInduction
<1>13. EndOfText - p \in Nat
  BY <1>1
<1>14. Stops(p)
  BY <1>12, <1>13, <1>1
<1> QED BY <1>6, <1>14

-----------------------------------------------------------------------------
(***************************************************************************)
(* Sequences.                                                              *)
(***************************************************************************)
IsSequence(s) == \E S : s \in Seq(S)

\* What appending does to a sequence of anything.
LEMMA Appended ==
  ASSUME NEW s, NEW e, IsSequence(s)
  PROVE  /\ IsSequence(Append(s, e)) /\ Len(s) \in Nat /\ Len(Append(s, e)) = Len(s) + 1
         /\ \A i \in 1..Len(s) : Append(s, e)[i] = s[i]
         /\ Append(s, e)[Len(s) + 1] = e
<1>1. PICK S : s \in Seq(S)
  BY DEF IsSequence
<1>2. s \in Seq(S \union {e}) /\ e \in S \union {e}
  BY <1>1
<1>3. /\ Append(s, e) \in Seq(S \union {e}) /\ Len(Append(s, e)) = Len(s) + 1
      /\ \A i \in 1..Len(s) : Append(s, e)[i] = s[i]
      /\ Append(s, e)[Len(s) + 1] = e
  BY <1>2, AppendProperties
<1>4. Len(s) \in Nat
  BY <1>1
<1>5. IsSequence(Append(s, e))
  BY <1>3, Zenon DEF IsSequence
<1> QED BY <1>3, <1>4, <1>5

\* A sequence that is not empty is its front and its last element.
LEMMA FrontAndLast ==
  ASSUME NEW S, NEW s \in Seq(S), s # <<>>
  PROVE  /\ Len(s) \in Nat \ {0} /\ Front(s) \in Seq(S) /\ Last(s) \in S
         /\ Len(Front(s)) = Len(s) - 1 /\ \A i \in 1..Len(s) - 1 : Front(s)[i] = s[i]
         /\ s = Append(Front(s), Last(s))
<1>1. Len(s) \in Nat \ {0}
  BY EmptySeq
<1>2. Front(s) = SubSeq(s, 1, Len(s) - 1) /\ Last(s) = s[Len(s)]
  BY Zenon DEF Front, Last
<1> DEFINE n == Len(s)
           f == SubSeq(s, 1, n - 1)
<1>3. f \in Seq(S) /\ Len(f) = n - 1 /\ \A i \in 1..n - 1 : f[i] = s[i]
  <2>1. n \in Nat \ {0} /\ 1 \in Int /\ n - 1 \in Int /\ \A i \in 1..n - 1 : s[i] \in S
    BY <1>1
  <2>2. /\ f \in Seq(S) /\ Len(f) = IF 1 <= n - 1 THEN (n - 1) - 1 + 1 ELSE 0
        /\ \A i \in 1..(n - 1) - 1 + 1 : f[i] = s[1 + i - 1]
    <3> HIDE DEF n
    <3> QED BY <2>1, SubSeqProperties
  <2> HIDE DEF n, f
  <2> QED BY <2>1, <2>2
<1>4. s[n] \in S
  BY <1>1
<1> HIDE DEF f
<1>5. /\ Append(f, s[n]) \in Seq(S) /\ Len(Append(f, s[n])) = n
      /\ \A i \in 1..n - 1 : Append(f, s[n])[i] = s[i]
      /\ Append(f, s[n])[n] = s[n]
  BY <1>1, <1>3, <1>4, AppendProperties
<1>6. \A i \in 1..n : Append(f, s[n])[i] = s[i]
  BY <1>1, <1>5
<1>7. s = Append(f, s[n])
  BY <1>5, <1>6, SeqEqual
<1> QED BY <1>1, <1>2, <1>3, <1>4, <1>7 DEF f

LEMMA FrontAndLastOfAppend ==
  ASSUME NEW S, NEW s \in Seq(S), NEW e \in S
  PROVE  Append(s, e) \in Seq(S) /\ Append(s, e) # <<>>
         /\ Front(Append(s, e)) = s /\ Last(Append(s, e)) = e
<1> DEFINE t == Append(s, e)
<1>1. t \in Seq(S) /\ t # <<>> /\ Len(t) = Len(s) + 1 /\ t[Len(s) + 1] = e
      /\ \A i \in 1..Len(s) : t[i] = s[i]
  BY AppendProperties
<1> HIDE DEF t
<1>2. Front(t) \in Seq(S) /\ Len(Front(t)) = Len(t) - 1
      /\ \A i \in 1..Len(t) - 1 : Front(t)[i] = t[i]
  BY <1>1, FrontAndLast
<1>3. Len(s) \in Nat
  OBVIOUS
<1>4. Len(Front(t)) = Len(s) /\ \A i \in 1..Len(s) : Front(t)[i] = s[i]
  BY <1>1, <1>2, <1>3
<1>5. Front(t) = s
  BY <1>2, <1>4, SeqEqual
<1>6. Last(t) = e
  BY <1>1 DEF Last
<1> QED BY <1>1, <1>5, <1>6 DEF t

-----------------------------------------------------------------------------
(***************************************************************************)
(* What tokens leave open, and the counts of it.                           *)
(***************************************************************************)
Brackets == {"{", "${"}
Opened == Seq(Brackets)
Counted == Seq(Nat \ {0})

\* Two functions with the same start and the same steps end in the same.
LEMMA SameSteps ==
  ASSUME NEW n \in Nat, NEW f, NEW g, f[0] = g[0],
         \A k \in 1..n : f[k - 1] = g[k - 1] => f[k] = g[k]
  PROVE  f[n] = g[n]
<1> DEFINE Same == {k \in Nat : k <= n => f[k] = g[k]}
<1>1. 0 \in Same
  OBVIOUS
<1>2. ASSUME NEW k \in Nat, k \in Same PROVE k + 1 \in Same
  <2>1. ASSUME k + 1 <= n PROVE f[k + 1] = g[k + 1]
    <3>1. k + 1 \in 1..n /\ (k + 1) - 1 = k /\ k <= n
      BY <2>1
    <3>2. f[k] = g[k]
      BY <1>2, <3>1
    <3>3. f[(k + 1) - 1] = g[(k + 1) - 1] => f[k + 1] = g[k + 1]
      BY <3>1
    <3> QED BY <3>1, <3>2, <3>3
  <2> QED BY <2>1
<1>3. n \in Same
  <2> HIDE DEF Same
  <2> QED BY <1>1, <1>2, SetInduction
<1> QED BY <1>3

LEMMA ClosedOpens ==
  ASSUME NEW text, NEW open \in Opened, NEW token
  PROVE  Closed(text, open, token) \in Opened
<1>1. open # <<>> => Front(open) \in Opened
  BY FrontAndLast DEF Opened
<1> QED BY <1>1, Zenon DEF Closed

LEMMA AfterTokenOpens ==
  ASSUME NEW text, NEW open \in Opened, NEW token
  PROVE  AfterToken(text, open, token) \in Opened
<1>1. Closed(text, open, token) \in Opened
  BY ClosedOpens
<1>2. Append(open, "{") \in Opened /\ Append(Closed(text, open, token), "${") \in Opened
  BY <1>1, AppendProperties DEF Opened, Brackets
<1> QED BY <1>1, <1>2, Zenon DEF AfterToken

OpenSteps(f, text, read) ==
  f[0] = <<>> /\ \A k \in 1..Len(read) : f[k] = AfterToken(text, f[k - 1], read[k])

\* The function by which Open is defined.
LEMMA OpenIs ==
  ASSUME NEW text, NEW read, Len(read) \in Nat
  PROVE  \E f : OpenSteps(f, text, read) /\ Open(text, read) = f[Len(read)]
                /\ f[Len(read)] \in Opened
<1> DEFINE n == Len(read)
           step == [p \in Nat \X Opened |-> AfterToken(text, p[2], read[p[1]])]
           Is(f) == f = [k \in 0..n |-> IF k = 0 THEN <<>>
                                        ELSE AfterToken(text, f[k - 1], read[k])]
           open == CHOOSE f : Is(f)
<1>1. <<>> \in Opened
  BY EmptySeq DEF Opened
<1>2. step \in [Nat \X Opened -> Opened]
  BY AfterTokenOpens
<1>3. PICK f \in [0..n -> Opened] : Follows(f, <<>>, step, n)
  <2> HIDE DEF n, step
  <2>1. n \in Nat
    BY DEF n
  <2> QED BY <1>1, <1>2, <2>1, StepByStep
<1>4. OpenSteps(f, text, read)
  <2>1. ASSUME NEW k \in 1..n PROVE f[k] = AfterToken(text, f[k - 1], read[k])
    <3>1. k \in Nat /\ k - 1 \in 0..n
      BY <2>1
    <3>2. f[k - 1] \in Opened
      BY <1>3, <3>1
    <3>3. step[<<k, f[k - 1]>>] = AfterToken(text, f[k - 1], read[k])
      BY <3>1, <3>2
    <3> QED BY <1>3, <3>3 DEF Follows
  <2> QED BY <1>3, <2>1 DEF Follows, OpenSteps
<1>5. Is(f)
  <2>1. f = [k \in 0..n |-> f[k]]
    BY <1>3
  <2>2. ASSUME NEW k \in 0..n
        PROVE  f[k] = IF k = 0 THEN <<>> ELSE AfterToken(text, f[k - 1], read[k])
    BY <1>4 DEF OpenSteps
  <2>3. [k \in 0..n |-> f[k]]
          = [k \in 0..n |-> IF k = 0 THEN <<>> ELSE AfterToken(text, f[k - 1], read[k])]
    BY <2>2
  <2> QED BY <2>1, <2>3, Zenon
<1>6. Is(open)
  <2> HIDE DEF Is
  <2> QED BY <1>5, Zenon
<1>7. Open(text, read) = open[n]
  BY Zenon DEF Open
<1>8. OpenSteps(open, text, read)
  <2>1. ASSUME NEW k \in 0..n
        PROVE  open[k] = IF k = 0 THEN <<>> ELSE AfterToken(text, open[k - 1], read[k])
    <3> HIDE DEF open
    <3> QED BY <1>6
  <2> HIDE DEF open
  <2> QED BY <2>1 DEF OpenSteps
<1> HIDE DEF open
<1>9. f[n] = open[n]
  <2>1. n \in Nat
    OBVIOUS
  <2>2. f[0] = open[0]
    BY <1>4, <1>8, Zenon DEF OpenSteps
  <2>3. \A k \in 1..n : f[k - 1] = open[k - 1] => f[k] = open[k]
    BY <1>4, <1>8, Zenon DEF OpenSteps
  <2> HIDE DEF n
  <2> QED BY <2>1, <2>2, <2>3, SameSteps
<1>10. f[n] \in Opened
  BY <1>3
<1> QED BY <1>7, <1>8, <1>9, <1>10, Zenon

LEMMA OpenType ==
  ASSUME NEW text, NEW read, IsSequence(read) PROVE Open(text, read) \in Opened
<1>1. Len(read) \in Nat
  BY Appended
<1> QED BY <1>1, OpenIs, Zenon

LEMMA OpenNothing == \A text : Open(text, <<>>) = <<>>
<1> TAKE text
<1>1. Len(<<>>) = 0 /\ Len(<<>>) \in Nat
  BY EmptySeq
<1>2. PICK f : OpenSteps(f, text, <<>>) /\ Open(text, <<>>) = f[Len(<<>>)]
  BY <1>1, OpenIs, Zenon
<1> QED BY <1>1, <1>2, Zenon DEF OpenSteps

\* One token more.
LEMMA OpenMore ==
  ASSUME NEW text, NEW read, NEW token, IsSequence(read)
  PROVE  Open(text, Append(read, token)) = AfterToken(text, Open(text, read), token)
<1> DEFINE more == Append(read, token)
           n == Len(read)
<1>1. /\ n \in Nat /\ Len(more) = n + 1 /\ \A i \in 1..n : more[i] = read[i]
      /\ more[n + 1] = token
  BY Appended
<1> HIDE DEF more
<1>2. PICK f : OpenSteps(f, text, read) /\ Open(text, read) = f[n]
  BY <1>1, OpenIs, Zenon
<1>3. Len(more) \in Nat
  BY <1>1
<1>4. PICK g : OpenSteps(g, text, more) /\ Open(text, more) = g[Len(more)]
  BY <1>3, OpenIs, Zenon
<1> HIDE DEF n
<1>5. f[0] = g[0]
  BY <1>2, <1>4, Zenon DEF OpenSteps
<1>6. ASSUME NEW k \in 1..n, f[k - 1] = g[k - 1] PROVE f[k] = g[k]
  <2>1. k \in 1..Len(more) /\ more[k] = read[k]
    BY <1>1, <1>6
  <2>2. g[k] = AfterToken(text, g[k - 1], more[k])
    BY <1>4, <2>1, Zenon DEF OpenSteps
  <2>3. f[k] = AfterToken(text, f[k - 1], read[k])
    BY <1>2, Zenon DEF OpenSteps, n
  <2> QED BY <1>6, <2>1, <2>2, <2>3, Zenon
<1>7. f[n] = g[n]
  BY <1>1, <1>5, <1>6, SameSteps
<1>8. g[n + 1] = AfterToken(text, g[n], token)
  <2>1. n + 1 \in 1..Len(more) /\ (n + 1) - 1 = n
    BY <1>1
  <2>2. g[n + 1] = AfterToken(text, g[(n + 1) - 1], more[n + 1])
    BY <1>4, <2>1, Zenon DEF OpenSteps
  <2> QED BY <1>1, <2>1, <2>2, Zenon
<1>9. Open(text, more) = AfterToken(text, Open(text, read), token)
  BY <1>1, <1>2, <1>4, <1>7, <1>8, Zenon
<1> QED BY <1>9 DEF more

\* A brace more in the innermost interpolation, or one less.
Raised(counts, n) == [counts EXCEPT ![Len(counts)] = @ + n]

LEMMA RaisedCounts ==
  ASSUME NEW counts \in Counted, counts # <<>>, NEW n \in Int, Last(counts) + n \in Nat \ {0}
  PROVE  /\ Raised(counts, n) \in Counted /\ Raised(counts, n) # <<>>
         /\ Len(Raised(counts, n)) = Len(counts) /\ Last(Raised(counts, n)) = Last(counts) + n
         /\ \A i \in 1..Len(counts) - 1 : Raised(counts, n)[i] = counts[i]
<1> DEFINE m == Len(counts)
           e == counts[m] + n
           t == [counts EXCEPT ![m] = e]
<1>1. m \in Nat \ {0} /\ m \in 1..Len(counts) /\ Last(counts) = counts[m]
  <2>1. m \in Nat \ {0} /\ Last(counts) = counts[m]
    BY FrontAndLast DEF Counted, Last
  <2> QED BY <2>1
<1>2. e \in Nat \ {0}
  BY <1>1
<1>3. t \in Counted /\ Len(t) = m /\ \A j \in 1..m : t[j] = IF j = m THEN e ELSE counts[j]
  <2> HIDE DEF e
  <2> QED BY <1>1, <1>2, ExceptSeq DEF Counted
<1>4. Raised(counts, n) = t
  BY DEF Raised
<1> HIDE DEF t, m, e
<1>5. t # <<>>
  BY <1>1, <1>3, EmptySeq
<1>6. Last(t) = e
  BY <1>1, <1>3 DEF Last
<1>7. \A i \in 1..m - 1 : t[i] = counts[i]
  BY <1>1, <1>3
<1> QED BY <1>1, <1>3, <1>4, <1>5, <1>6, <1>7, Zenon DEF m, e

\* One brace more and one less is as before.
LEMMA RaisedBack ==
  ASSUME NEW counts \in Counted, counts # <<>>
  PROVE  Raised(Raised(counts, 1), -1) = counts
<1> DEFINE up == Raised(counts, 1)
           down == Raised(up, -1)
<1>1. Last(counts) \in Nat \ {0} /\ Len(counts) \in Nat \ {0}
  BY FrontAndLast DEF Counted
<1>2. /\ up \in Counted /\ up # <<>> /\ Len(up) = Len(counts) /\ Last(up) = Last(counts) + 1
      /\ \A i \in 1..Len(counts) - 1 : up[i] = counts[i]
  BY <1>1, RaisedCounts
<1> HIDE DEF up
<1>3. /\ down \in Counted /\ Len(down) = Len(up) /\ Last(down) = Last(up) + (-1)
      /\ \A i \in 1..Len(up) - 1 : down[i] = up[i]
  <2>1. Last(up) + (-1) \in Nat \ {0} /\ -1 \in Int
    BY <1>1, <1>2
  <2> QED BY <1>2, <2>1, RaisedCounts
<1> HIDE DEF down
<1>4. Last(down) = Last(counts)
  BY <1>1, <1>2, <1>3
<1>5. \A i \in 1..Len(counts) : down[i] = counts[i]
  <2>1. down[Len(counts)] = counts[Len(counts)]
    BY <1>2, <1>3, <1>4, Zenon DEF Last
  <2> QED BY <1>1, <1>2, <1>3, <2>1
<1>6. down = counts
  <2>1. Len(down) = Len(counts) /\ \A i \in 1..Len(down) : down[i] = counts[i]
    BY <1>2, <1>3, <1>5
  <2> QED BY <1>3, <2>1, SeqEqual DEF Counted
<1> QED BY <1>6 DEF down, up

LEMMA WithBraceIs ==
  ASSUME NEW counts, NEW brace
  PROVE  WithBrace(counts, brace) = IF brace = "${" THEN Append(counts, 1)
                                    ELSE IF counts = <<>> THEN <<>> ELSE Raised(counts, 1)
BY Zenon DEF WithBrace, Raised

LEMMA WithBraceCounts ==
  ASSUME NEW counts \in Counted, NEW brace PROVE WithBrace(counts, brace) \in Counted
<1>1. Append(counts, 1) \in Counted
  BY AppendProperties DEF Counted
<1>2. ASSUME counts # <<>> PROVE Raised(counts, 1) \in Counted
  <2>1. Last(counts) + 1 \in Nat \ {0}
    <3>1. Last(counts) \in Nat \ {0}
      BY <1>2, FrontAndLast DEF Counted
    <3> QED BY <3>1
  <2> QED BY <1>2, <2>1, RaisedCounts
<1>3. <<>> \in Counted
  BY EmptySeq DEF Counted
<1> QED BY <1>1, <1>2, <1>3, WithBraceIs, Zenon

CountSteps(f, open) ==
  f[0] = <<>> /\ \A k \in 1..Len(open) : f[k] = WithBrace(f[k - 1], open[k])

\* The function by which Counts is defined.
LEMMA CountsIs ==
  ASSUME NEW open, Len(open) \in Nat
  PROVE  \E f : CountSteps(f, open) /\ Counts(open) = f[Len(open)] /\ f[Len(open)] \in Counted
<1> DEFINE n == Len(open)
           step == [p \in Nat \X Counted |-> WithBrace(p[2], open[p[1]])]
           Is(f) == f = [k \in 0..n |-> IF k = 0 THEN <<>> ELSE WithBrace(f[k - 1], open[k])]
           counts == CHOOSE f : Is(f)
<1>1. <<>> \in Counted
  BY EmptySeq DEF Counted
<1>2. step \in [Nat \X Counted -> Counted]
  BY WithBraceCounts
<1>3. PICK f \in [0..n -> Counted] : Follows(f, <<>>, step, n)
  <2> HIDE DEF n, step
  <2>1. n \in Nat
    BY DEF n
  <2> QED BY <1>1, <1>2, <2>1, StepByStep
<1>4. CountSteps(f, open)
  <2>1. ASSUME NEW k \in 1..n PROVE f[k] = WithBrace(f[k - 1], open[k])
    <3>1. k \in Nat /\ k - 1 \in 0..n
      BY <2>1
    <3>2. f[k - 1] \in Counted
      BY <1>3, <3>1
    <3>3. step[<<k, f[k - 1]>>] = WithBrace(f[k - 1], open[k])
      BY <3>1, <3>2
    <3> QED BY <1>3, <3>3 DEF Follows
  <2> QED BY <1>3, <2>1 DEF Follows, CountSteps
<1>5. Is(f)
  <2>1. f = [k \in 0..n |-> f[k]]
    BY <1>3
  <2>2. ASSUME NEW k \in 0..n
        PROVE  f[k] = IF k = 0 THEN <<>> ELSE WithBrace(f[k - 1], open[k])
    BY <1>4 DEF CountSteps
  <2>3. [k \in 0..n |-> f[k]]
          = [k \in 0..n |-> IF k = 0 THEN <<>> ELSE WithBrace(f[k - 1], open[k])]
    BY <2>2
  <2> QED BY <2>1, <2>3, Zenon
<1>6. Is(counts)
  <2> HIDE DEF Is
  <2> QED BY <1>5, Zenon
<1>7. Counts(open) = counts[n]
  BY Zenon DEF Counts
<1>8. CountSteps(counts, open)
  <2>1. ASSUME NEW k \in 0..n
        PROVE  counts[k] = IF k = 0 THEN <<>> ELSE WithBrace(counts[k - 1], open[k])
    <3> HIDE DEF counts
    <3> QED BY <1>6
  <2> HIDE DEF counts
  <2> QED BY <2>1 DEF CountSteps
<1> HIDE DEF counts
<1>9. f[n] = counts[n]
  <2>1. n \in Nat
    OBVIOUS
  <2>2. f[0] = counts[0]
    BY <1>4, <1>8, Zenon DEF CountSteps
  <2>3. \A k \in 1..n : f[k - 1] = counts[k - 1] => f[k] = counts[k]
    BY <1>4, <1>8, Zenon DEF CountSteps
  <2> HIDE DEF n
  <2> QED BY <2>1, <2>2, <2>3, SameSteps
<1>10. f[n] \in Counted
  BY <1>3
<1> QED BY <1>7, <1>8, <1>9, <1>10, Zenon

LEMMA CountsType == \A open \in Opened : Counts(open) \in Counted
<1> TAKE open \in Opened
<1>1. Len(open) \in Nat
  BY DEF Opened
<1> QED BY <1>1, CountsIs, Zenon

LEMMA CountsNothing == Counts(<<>>) = <<>>
<1>1. Len(<<>>) = 0 /\ Len(<<>>) \in Nat
  BY EmptySeq
<1>2. PICK f : CountSteps(f, <<>>) /\ Counts(<<>>) = f[Len(<<>>)]
  BY <1>1, CountsIs, Zenon
<1> QED BY <1>1, <1>2, Zenon DEF CountSteps

LEMMA CountsMore ==
  ASSUME NEW open \in Opened, NEW brace \in Brackets
  PROVE  Counts(Append(open, brace)) = WithBrace(Counts(open), brace)
<1> DEFINE more == Append(open, brace)
           n == Len(open)
<1>1. /\ n \in Nat /\ Len(more) = n + 1 /\ \A i \in 1..n : more[i] = open[i]
      /\ more[n + 1] = brace
  BY Appended DEF IsSequence, Opened
<1> HIDE DEF more
<1>2. PICK f : CountSteps(f, open) /\ Counts(open) = f[n]
  BY <1>1, CountsIs, Zenon
<1>3. Len(more) \in Nat
  BY <1>1
<1>4. PICK g : CountSteps(g, more) /\ Counts(more) = g[Len(more)]
  BY <1>3, CountsIs, Zenon
<1> HIDE DEF n
<1>5. f[0] = g[0]
  BY <1>2, <1>4, Zenon DEF CountSteps
<1>6. ASSUME NEW k \in 1..n, f[k - 1] = g[k - 1] PROVE f[k] = g[k]
  <2>1. k \in 1..Len(more) /\ more[k] = open[k]
    BY <1>1, <1>6
  <2>2. g[k] = WithBrace(g[k - 1], more[k])
    BY <1>4, <2>1, Zenon DEF CountSteps
  <2>3. f[k] = WithBrace(f[k - 1], open[k])
    BY <1>2, Zenon DEF CountSteps, n
  <2> QED BY <1>6, <2>1, <2>2, <2>3, Zenon
<1>7. f[n] = g[n]
  BY <1>1, <1>5, <1>6, SameSteps
<1>8. g[n + 1] = WithBrace(g[n], brace)
  <2>1. n + 1 \in 1..Len(more) /\ (n + 1) - 1 = n
    BY <1>1
  <2>2. g[n + 1] = WithBrace(g[(n + 1) - 1], more[n + 1])
    BY <1>4, <2>1, Zenon DEF CountSteps
  <2> QED BY <1>1, <2>1, <2>2, Zenon
<1>9. Counts(more) = WithBrace(Counts(open), brace)
  BY <1>1, <1>2, <1>4, <1>7, <1>8, Zenon
<1> QED BY <1>9 DEF more

\* What the innermost brace open has to do with the counts.
LEMMA Innermost ==
  ASSUME NEW open \in Opened, open # <<>>
  PROVE  /\ Front(open) \in Opened /\ Last(open) \in Brackets
         /\ Last(open) = "${" => Counts(open) = Append(Counts(Front(open)), 1)
         /\ Last(open) = "{" =>
              Counts(open) = IF Counts(Front(open)) = <<>> THEN <<>>
                             ELSE Raised(Counts(Front(open)), 1)
<1>1. Front(open) \in Opened /\ Last(open) \in Brackets /\ open = Append(Front(open), Last(open))
  BY FrontAndLast DEF Opened
<1>2. Counts(Append(Front(open), Last(open))) = WithBrace(Counts(Front(open)), Last(open))
  BY <1>1, CountsMore
<1>3. Counts(open) = WithBrace(Counts(Front(open)), Last(open))
  BY <1>1, <1>2, Zenon
<1>4. "{" # "${"
  OBVIOUS
<1> QED BY <1>1, <1>3, <1>4, WithBraceIs, Zenon

\* When the innermost count is 1, it is an interpolation that is closed.
LEMMA ClosesInterp ==
  ASSUME NEW open \in Opened, Counts(open) # <<>>, Last(Counts(open)) = 1
  PROVE  open # <<>> /\ Last(open) = "${" /\ Counts(Front(open)) = Front(Counts(open))
<1>1. open # <<>>
  BY CountsNothing
<1> DEFINE rest == Counts(Front(open))
<1>2. rest \in Counted
  BY <1>1, Innermost, CountsType
<1>3. Last(open) # "{"
  <2>1. SUFFICES ASSUME Last(open) = "{" PROVE FALSE
    OBVIOUS
  <2>2. rest # <<>> /\ Counts(open) = Raised(rest, 1)
    BY <1>1, <2>1, Innermost
  <2> HIDE DEF rest
  <2>3. Last(rest) \in Nat \ {0}
    BY <1>2, <2>2, FrontAndLast DEF Counted
  <2>4. Last(Raised(rest, 1)) = Last(rest) + 1
    BY <1>2, <2>2, <2>3, RaisedCounts
  <2> QED BY <2>2, <2>3, <2>4
<1>4. Last(open) = "${"
  BY <1>1, <1>3, Innermost DEF Brackets
<1>5. Counts(open) = Append(rest, 1)
  BY <1>1, <1>4, Innermost
<1>6. Front(Append(rest, 1)) = rest
  <2> HIDE DEF rest
  <2> QED BY <1>2, FrontAndLastOfAppend DEF Counted
<1> QED BY <1>1, <1>4, <1>5, <1>6

\* Otherwise it is a block, if anything.
LEMMA ClosesBlock ==
  ASSUME NEW open \in Opened, ~(Counts(open) # <<>> /\ Last(Counts(open)) = 1)
  PROVE  Counts(IF open # <<>> THEN Front(open) ELSE open)
           = IF Counts(open) = <<>> THEN <<>> ELSE Raised(Counts(open), -1)
<1>1. CASE open = <<>>
  BY <1>1, CountsNothing, Zenon
<1>2. CASE open # <<>>
  <2> DEFINE rest == Counts(Front(open))
  <2>1. rest \in Counted
    BY <1>2, Innermost, CountsType
  <2>2. Last(open) = "{"
    <3>1. SUFFICES ASSUME Last(open) = "${" PROVE FALSE
      BY <1>2, Innermost DEF Brackets
    <3>2. Counts(open) = Append(rest, 1)
      BY <1>2, <3>1, Innermost
    <3> HIDE DEF rest
    <3>3. Append(rest, 1) # <<>> /\ Last(Append(rest, 1)) = 1
      BY <2>1, FrontAndLastOfAppend DEF Counted
    <3> QED BY <3>2, <3>3
  <2>3. Counts(open) = IF rest = <<>> THEN <<>> ELSE Raised(rest, 1)
    BY <1>2, <2>2, Innermost
  <2> HIDE DEF rest
  <2>4. CASE rest = <<>>
    BY <1>2, <2>3, <2>4, Zenon DEF rest
  <2>5. CASE rest # <<>>
    <3>1. Last(rest) + 1 \in Nat \ {0}
      <4>1. Last(rest) \in Nat \ {0}
        BY <2>1, <2>5, FrontAndLast DEF Counted
      <4> QED BY <4>1
    <3>2. Raised(rest, 1) # <<>>
      BY <2>1, <2>5, <3>1, RaisedCounts
    <3>3. Raised(Raised(rest, 1), -1) = rest
      BY <2>1, <2>5, RaisedBack
    <3> QED BY <1>2, <2>3, <2>5, <3>2, <3>3, Zenon DEF rest
  <2> QED BY <2>4, <2>5
<1> QED BY <1>1, <1>2

-----------------------------------------------------------------------------
(***************************************************************************)
(* The invariant.  It speaks of a text, of the places start and current in *)
(* it (s and c), of the line (n), the counts of braces, the mode and the   *)
(* tokens read.                                                            *)
(***************************************************************************)
CloseBrace == "}"
Delimiters == {"\"", CloseBrace}

TokenTypes == Types \union {"ERROR", "END_OF_FILE"}

\* A string is under way since the quote or the brace at its start.
PlacesOk(text, s, c, m) ==
  /\ s \in 1..Len(text) + 1 /\ c \in s..Len(text) + 1 /\ m \in {"scan", "string", "done"}
  /\ m = "string" => s < c /\ At(text, s) \in Delimiters

LineAt(text, p) == 1 + NewlinesIn(text, 1, p)

\* A token is on the line of its last character.
TokenOk(text, t) ==
  /\ t.type \in TokenTypes /\ t.first \in 1..Len(text) + 1
  /\ t.last \in (t.first - 1)..Len(text) /\ t.line = LineAt(text, t.last + 1)

TokensOk(text, read) ==
  IsSequence(read) /\ \A i \in 1..Len(read) : TokenOk(text, read[i])

\* No more interpolations are open than there is room for, and no more braces
\* in any than characters were read.
CountsOk(c, counts) ==
  /\ counts \in Counted /\ Len(counts) <= MAX_INTERP_DEPTH
  /\ \A i \in 1..Len(counts) : counts[i] < c

\* Has a string been resumed, whose token is still to come?
IsResumed(text, s, m) == m = "string" /\ At(text, s) = CloseBrace

\* Then what it resumed is the innermost interpolation the tokens leave open.
NestOk(text, s, counts, m, read) ==
  IF IsResumed(text, s, m)
  THEN /\ Open(text, read) # <<>> /\ Last(Open(text, read)) = "${"
       /\ Counts(Front(Open(text, read))) = counts
  ELSE Counts(Open(text, read)) = counts

InvOf(text, s, c, n, counts, m, read) ==
  /\ IsText(text) /\ PlacesOk(text, s, c, m) /\ n = LineAt(text, c)
  /\ TokensOk(text, read) /\ CountsOk(c, counts) /\ NestOk(text, s, counts, m, read)

IInv == InvOf(source, start, current, line, str_interp_braces, mode, tokens)

InvParts(text, s, c, n, counts, m, read) ==
  /\ text = source /\ PlacesOk(source, s, c, m) /\ n = LineAt(source, c)
  /\ TokensOk(source, read) /\ CountsOk(c, counts) /\ NestOk(source, s, counts, m, read)

\* The text never changes.
LEMMA InvNext ==
  ASSUME IInv, InvParts(source', start', current', line', str_interp_braces', mode', tokens')
  PROVE  IInv'
<1>1. IsText(source) /\ source' = source
  BY Zenon DEF IInv, InvOf, InvParts
<1>2. InvOf(source', start', current', line', str_interp_braces', mode', tokens')
  BY <1>1, Zenon DEF InvParts, InvOf
<1> QED BY <1>2, Zenon DEF IInv

\* Where things are, in numbers.
LEMMA Places ==
  ASSUME IInv
  PROVE  /\ IsText(source) /\ Len(source) \in Nat /\ EndOfText = Len(source) + 1
         /\ start \in Nat /\ current \in Nat /\ First \in Nat
         /\ 1 <= start /\ start <= current /\ current <= First /\ First <= EndOfText
         /\ line = LineAt(source, current) /\ NewlinesIn(source, 1, current) \in Nat
         /\ IsSequence(tokens) /\ Open(source, tokens) \in Opened
         /\ str_interp_braces \in Counted
         /\ mode = "string" => start < current /\ Peek(start) \in Delimiters
<1>1. /\ IsText(source) /\ PlacesOk(source, start, current, mode)
      /\ line = LineAt(source, current)
      /\ TokensOk(source, tokens) /\ CountsOk(current, str_interp_braces)
  BY Zenon DEF IInv, InvOf
<1>2. Len(source) \in Nat /\ EndOfText = Len(source) + 1
  BY <1>1, Characters
<1>3. start \in 1..EndOfText /\ current \in start..EndOfText
  BY <1>1, <1>2 DEF PlacesOk
<1>4. start \in Nat /\ current \in Nat /\ 1 <= start /\ start <= current
      /\ current \in 1..EndOfText
  BY <1>2, <1>3
<1>5. First \in current..EndOfText
  BY <1>1, <1>4, WhiteSkipped DEF First
<1>6. First \in Nat /\ current <= First /\ First <= EndOfText
  BY <1>2, <1>4, <1>5
<1>7. NewlinesIn(source, 1, current) \in Nat
  BY <1>4, NewlineSets
<1>8. IsSequence(tokens)
  BY <1>1, Zenon DEF TokensOk
<1>9. mode = "string" => start < current /\ Peek(start) \in Delimiters
  BY <1>1, Zenon DEF PlacesOk, Peek
<1>10. str_interp_braces \in Counted
  BY <1>1, Zenon DEF CountsOk
<1> QED BY <1>1, <1>2, <1>4, <1>6, <1>7, <1>8, <1>9, <1>10, OpenType

LEMMA LineMoves ==
  ASSUME NEW text, NEW a \in Nat, NEW b \in Nat, 1 <= a, a <= b
  PROVE  LineAt(text, b) = LineAt(text, a) + NewlinesIn(text, a, b)
<1>1. NewlinesIn(text, 1, b) = NewlinesIn(text, 1, a) + NewlinesIn(text, a, b)
  BY NewlinesSplit
<1>2. NewlinesIn(text, 1, a) \in Nat /\ NewlinesIn(text, a, b) \in Nat
  BY NewlineSets
<1> QED BY <1>1, <1>2 DEF LineAt

\* A token of its own characters, on the line it ends on.
LEMMA TokenAdded ==
  ASSUME NEW text, Len(text) \in Nat, NEW read, TokensOk(text, read),
         NEW type \in TokenTypes, NEW first \in 1..Len(text) + 1,
         NEW next \in first..Len(text) + 1, NEW value
  PROVE  TokensOk(text, Append(read, Token(type, first, next, LineAt(text, next), value)))
<1> DEFINE t == Token(type, first, next, LineAt(text, next), value)
           more == Append(read, t)
<1>1. t.type = type /\ t.first = first /\ t.last = next - 1 /\ t.line = LineAt(text, next)
  BY DEF Token
<1> HIDE DEF t
<1>2. next - 1 \in (first - 1)..Len(text) /\ (next - 1) + 1 = next
  OBVIOUS
<1>3. TokenOk(text, t)
  BY <1>1, <1>2, Zenon DEF TokenOk
<1>4. IsSequence(read) /\ \A i \in 1..Len(read) : TokenOk(text, read[i])
  BY Zenon DEF TokensOk
<1>5. /\ IsSequence(more) /\ Len(read) \in Nat /\ Len(more) = Len(read) + 1
      /\ \A i \in 1..Len(read) : more[i] = read[i]
      /\ more[Len(read) + 1] = t
  BY <1>4, Appended
<1> HIDE DEF more
<1>6. ASSUME NEW i \in 1..Len(more) PROVE TokenOk(text, more[i])
  <2>1. CASE i = Len(read) + 1
    BY <1>3, <1>5, <2>1
  <2>2. CASE i # Len(read) + 1
    <3>1. i \in 1..Len(read)
      BY <1>5, <2>2
    <3> QED BY <1>4, <1>5, <3>1
  <2> QED BY <2>1, <2>2
<1>7. TokensOk(text, more)
  BY <1>5, <1>6, Zenon DEF TokensOk
<1> QED BY <1>7 DEF more, t

\* Whatever is more than the counts stays so further on.
LEMMA CountsLater ==
  ASSUME NEW c \in Nat, NEW d \in Nat, c <= d, NEW counts, CountsOk(c, counts)
  PROVE  CountsOk(d, counts)
<1>1. counts \in Counted /\ Len(counts) <= MAX_INTERP_DEPTH
      /\ \A i \in 1..Len(counts) : counts[i] < c
  BY Zenon DEF CountsOk
<1>2. \A i \in 1..Len(counts) : counts[i] \in Nat
  BY <1>1, ElementOfSeq DEF Counted
<1>3. \A i \in 1..Len(counts) : counts[i] < d
  BY <1>1, <1>2
<1> QED BY <1>1, <1>3, Zenon DEF CountsOk

-----------------------------------------------------------------------------
(***************************************************************************)
(* Reading a token at once.                                                *)
(***************************************************************************)
\* What the braces are after a token of the type, from first up to next.
Leaves(type, first, next, counts) ==
  \A t : t.type = type /\ t.first = first /\ t.last = next - 1 =>
           Counts(AfterToken(source, Open(source, tokens), t)) = counts

LEMMA ReadInv ==
  ASSUME IInv, NEW type \in TokenTypes, NEW next \in First..EndOfText, NEW newlines,
         NEW value, newlines = NewlinesIn(source, First, next),
         Read(type, next, newlines, value), mode' \in {"scan", "done"},
         CountsOk(next, str_interp_braces'), Leaves(type, First, next, str_interp_braces')
  PROVE  IInv'
<1> DEFINE t == Token(type, First, next, LineAt(source, next), value)
<1>1. /\ Len(source) \in Nat /\ EndOfText = Len(source) + 1 /\ current \in Nat
      /\ First \in Nat /\ 1 <= start /\ start <= current /\ current <= First
      /\ First <= EndOfText /\ line = LineAt(source, current) /\ start \in Nat
      /\ NewlinesIn(source, 1, current) \in Nat
  BY Places
<1>2. next \in Nat /\ First <= next /\ next <= EndOfText
  BY <1>1
<1>3. LineAt(source, First) = line + NewlinesIn(source, current, First)
  <2>1. 1 <= current
    BY <1>1
  <2> QED BY <1>1, <2>1, LineMoves
<1>4. LineAt(source, next) = LineAt(source, First) + NewlinesIn(source, First, next)
  <2>1. 1 <= First
    BY <1>1
  <2> QED BY <1>1, <1>2, <2>1, LineMoves
<1>5. line + Newlines(current, First) + newlines = LineAt(source, next)
  BY <1>3, <1>4, NewlinesAre, Zenon
<1>6. /\ start' = First /\ current' = next /\ line' = LineAt(source, next)
      /\ tokens' = Append(tokens, t) /\ source' = source
  BY <1>5, Zenon DEF Read, First
<1>7. TokensOk(source, tokens) /\ IsSequence(tokens)
  BY Zenon DEF IInv, InvOf, TokensOk
<1>8. TokensOk(source, Append(tokens, t))
  <2>1. First \in 1..Len(source) + 1 /\ next \in First..Len(source) + 1
    BY <1>1, <1>2
  <2> QED BY <1>1, <1>7, <2>1, TokenAdded
<1>9. PlacesOk(source, First, next, mode')
  <2>1. First \in 1..Len(source) + 1 /\ next \in First..Len(source) + 1
    BY <1>1, <1>2
  <2>2. mode' # "string" /\ mode' \in {"scan", "string", "done"}
    OBVIOUS
  <2> QED BY <2>1, <2>2, Zenon DEF PlacesOk
<1>10. NestOk(source, First, str_interp_braces', mode', Append(tokens, t))
  <2>1. t.type = type /\ t.first = First /\ t.last = next - 1
    BY DEF Token
  <2> HIDE DEF t
  <2>2. Counts(AfterToken(source, Open(source, tokens), t)) = str_interp_braces'
    BY <2>1, Zenon DEF Leaves
  <2>3. Open(source, Append(tokens, t)) = AfterToken(source, Open(source, tokens), t)
    BY <1>7, OpenMore
  <2>4. ~IsResumed(source, First, mode')
    <3>1. mode' # "string"
      OBVIOUS
    <3> QED BY <3>1, Zenon DEF IsResumed
  <2> QED BY <2>2, <2>3, <2>4, Zenon DEF NestOk
<1> HIDE DEF t
<1>11. InvParts(source', start', current', line', str_interp_braces', mode', tokens')
  BY <1>6, <1>8, <1>9, <1>10, Zenon DEF InvParts
<1> QED BY <1>11, InvNext

\* Tokens other than braces and interpolations leave open what was.
LEMMA LeavesAll ==
  ASSUME NEW type, type \notin {"LEFT_BRACE", "STRING_INTERP"}, NEW first, NEW next,
         At(source, first) # CloseBrace \/ ~(next - 1 >= first)
  PROVE  Leaves(type, first, next, Counts(Open(source, tokens)))
<1>1. ASSUME NEW t, t.type = type, t.first = first, t.last = next - 1
      PROVE  AfterToken(source, Open(source, tokens), t) = Open(source, tokens)
  <2>1. Closed(source, Open(source, tokens), t) = Open(source, tokens)
    BY <1>1, Zenon DEF Closed, CloseBrace
  <2> QED BY <1>1, <2>1, Zenon DEF AfterToken
<1> QED BY <1>1, Zenon DEF Leaves

\* Between strings the counts are those of what is open.
LEMMA Scanning ==
  ASSUME IInv, mode = "scan"
  PROVE  str_interp_braces = Counts(Open(source, tokens)) /\ CountsOk(current, str_interp_braces)
<1>1. NestOk(source, start, str_interp_braces, mode, tokens)
      /\ CountsOk(current, str_interp_braces)
  BY Zenon DEF IInv, InvOf
<1>2. ~IsResumed(source, start, mode)
  <2>1. mode # "string"
    OBVIOUS
  <2> QED BY <2>1, Zenon DEF IsResumed
<1> QED BY <1>1, <1>2, Zenon DEF NestOk

\* So it is with all branches of scan_token but those for braces and quotes.
LEMMA ReadPlain ==
  ASSUME IInv, mode = "scan", NEW type \in TokenTypes,
         type \notin {"LEFT_BRACE", "STRING_INTERP"}, NEW next \in First..EndOfText,
         NEW newlines, NEW value, newlines = NewlinesIn(source, First, next),
         Read(type, next, newlines, value), mode' \in {"scan", "done"},
         str_interp_braces' = str_interp_braces, Peek(First) # CloseBrace
  PROVE  IInv'
<1>1. str_interp_braces = Counts(Open(source, tokens)) /\ CountsOk(current, str_interp_braces)
  BY Scanning
<1>2. current \in Nat /\ First \in Nat /\ current <= First
  BY Places
<1>3. next \in Nat /\ current <= next
  <2>1. Len(source) \in Nat /\ EndOfText = Len(source) + 1
    BY Places
  <2> QED BY <1>2, <2>1
<1>4. CountsOk(next, str_interp_braces')
  BY <1>1, <1>2, <1>3, CountsLater
<1>5. At(source, First) # CloseBrace
  BY Zenon DEF Peek
<1>6. Leaves(type, First, next, str_interp_braces')
  BY <1>1, <1>5, LeavesAll
<1> QED BY <1>4, <1>6, ReadInv

-----------------------------------------------------------------------------
(***************************************************************************)
(* Reading a string literal.                                               *)
(***************************************************************************)
LEMMA NoNewlineHere ==
  ASSUME NEW text, NEW a \in Nat, At(text, a) # "\n"
  PROVE  NewlinesIn(text, a, a + 1) = 0
<1>1. \A p \in a..((a + 1) - 1) : At(text, p) # "\n"
  BY SMT
<1>2. a + 1 \in Nat
  OBVIOUS
<1> QED BY <1>1, <1>2, NewlinesNone

\* Where there is a character, the text goes on.
LEMMA GoesOn ==
  ASSUME IInv, NEW p \in Nat, 1 <= p, p <= EndOfText, Peek(p) # Empty
  PROVE  p + 1 <= EndOfText
<1>1. IsText(source) /\ Len(source) \in Nat /\ EndOfText = Len(source) + 1
  BY Places
<1>2. p \in 1..Len(source)
  BY <1>1, Characters
<1> QED BY <1>1, <1>2

LEMMA DelimitersAre == Empty \notin Delimiters /\ "\n" \notin Delimiters
<1>1. Empty # "\"" /\ Empty # "}" /\ "\n" # "\"" /\ "\n" # "}"
  BY Zenon DEF Empty
<1> QED BY <1>1, Zenon DEF Delimiters, CloseBrace

LEMMA OpenStringInv ==
  ASSUME IInv, mode = "scan", Peek(First) \in Delimiters, OpenString(First + 1),
         CountsOk(current, str_interp_braces'),
         NestOk(source, First, str_interp_braces', "string", tokens)
  PROVE  IInv'
<1>1. /\ Len(source) \in Nat /\ EndOfText = Len(source) + 1 /\ current \in Nat
      /\ First \in Nat /\ 1 <= start /\ start <= current /\ current <= First
      /\ First <= EndOfText /\ line = LineAt(source, current) /\ start \in Nat
  BY Places
<1>2. 1 <= current /\ 1 <= First /\ First + 1 \in Nat
  BY <1>1
<1>3. Peek(First) # Empty /\ At(source, First) # "\n"
  BY DelimitersAre, Zenon DEF Peek
<1>4. First + 1 <= EndOfText
  BY <1>1, <1>2, <1>3, GoesOn
<1>5. LineAt(source, First) = line + NewlinesIn(source, current, First)
  BY <1>1, <1>2, LineMoves
<1>6. LineAt(source, First + 1) = LineAt(source, First) + 0
  <2>1. NewlinesIn(source, First, First + 1) = 0
    BY <1>1, <1>3, NoNewlineHere
  <2>2. First <= First + 1
    BY <1>1
  <2> QED BY <1>1, <1>2, <2>1, <2>2, LineMoves
<1>7. LineAt(source, First) \in Nat
  <2>1. NewlinesIn(source, 1, First) \in Nat
    BY <1>1, NewlineSets
  <2> QED BY <2>1 DEF LineAt
<1>8. /\ start' = First /\ current' = First + 1 /\ mode' = "string"
      /\ tokens' = tokens /\ source' = source
      /\ line' = line + NewlinesIn(source, current, First)
  BY NewlinesAre, Zenon DEF OpenString, First
<1>9. line' = LineAt(source, First + 1)
  BY <1>5, <1>6, <1>7, <1>8
<1>10. TokensOk(source, tokens)
  BY Zenon DEF IInv, InvOf
<1>11. PlacesOk(source, First, First + 1, "string")
  <2>1. First \in 1..Len(source) + 1 /\ First + 1 \in First..Len(source) + 1
        /\ First < First + 1
    BY <1>1, <1>2, <1>4
  <2> QED BY <2>1, Zenon DEF PlacesOk, Peek
<1>12. CountsOk(First + 1, str_interp_braces')
  <2>1. current <= First + 1
    BY <1>1
  <2> QED BY <1>1, <1>2, <2>1, CountsLater
<1>13. InvParts(source', start', current', line', str_interp_braces', mode', tokens')
  BY <1>8, <1>9, <1>10, <1>11, <1>12, Zenon DEF InvParts
<1> QED BY <1>13, InvNext

\* The token of a string that was resumed closes the interpolation.
LEMMA Resuming ==
  ASSUME IInv, mode = "string", NEW t, t.first = start, t.last >= t.first
  PROVE  /\ Closed(source, Open(source, tokens), t) \in Opened
         /\ Counts(Closed(source, Open(source, tokens), t)) = str_interp_braces
<1>1. Open(source, tokens) \in Opened
  BY Places
<1>2. Closed(source, Open(source, tokens), t) \in Opened
  BY <1>1, ClosedOpens
<1>3. NestOk(source, start, str_interp_braces, "string", tokens)
  BY Zenon DEF IInv, InvOf
<1>4. CASE At(source, start) = CloseBrace
  <2>1. IsResumed(source, start, "string")
    BY <1>4, Zenon DEF IsResumed
  <2>2. Open(source, tokens) # <<>> /\ Counts(Front(Open(source, tokens))) = str_interp_braces
    BY <1>3, <2>1, Zenon DEF NestOk
  <2>3. Closed(source, Open(source, tokens), t) = Front(Open(source, tokens))
    BY <1>4, <2>2, Zenon DEF Closed, CloseBrace
  <2> QED BY <1>2, <2>2, <2>3, Zenon
<1>5. CASE At(source, start) # CloseBrace
  <2>1. ~IsResumed(source, start, "string")
    BY <1>5, Zenon DEF IsResumed
  <2>2. Counts(Open(source, tokens)) = str_interp_braces
    BY <1>3, <2>1, Zenon DEF NestOk
  <2>3. Closed(source, Open(source, tokens), t) = Open(source, tokens)
    BY <1>5, Zenon DEF Closed, CloseBrace
  <2> QED BY <1>2, <2>2, <2>3, Zenon
<1> QED BY <1>4, <1>5, Zenon

LEMMA CloseStringInv ==
  ASSUME IInv, mode = "string", NEW type \in TokenTypes, NEW next \in Nat,
         current <= next, next <= EndOfText, NEW value,
         NewlinesIn(source, current, next) = 0, CloseString(type, next, value),
         CountsOk(next, str_interp_braces'), Leaves(type, start, next, str_interp_braces')
  PROVE  IInv'
<1> DEFINE t == Token(type, start, next, LineAt(source, next), value)
<1>1. /\ Len(source) \in Nat /\ EndOfText = Len(source) + 1 /\ current \in Nat
      /\ 1 <= start /\ start <= current /\ start \in Nat
      /\ line = LineAt(source, current) /\ NewlinesIn(source, 1, current) \in Nat
  BY Places
<1>2. LineAt(source, next) = line
  <2>1. 1 <= current
    BY <1>1
  <2>2. LineAt(source, next) = LineAt(source, current) + 0
    BY <1>1, <2>1, LineMoves
  <2> QED BY <1>1, <2>2 DEF LineAt
<1>3. /\ start' = start /\ current' = next /\ line' = LineAt(source, next)
      /\ tokens' = Append(tokens, t) /\ source' = source /\ mode' = "scan"
  BY <1>2, Zenon DEF CloseString
<1>4. TokensOk(source, tokens) /\ IsSequence(tokens)
  BY Zenon DEF IInv, InvOf, TokensOk
<1>5. start \in 1..Len(source) + 1 /\ next \in start..Len(source) + 1
  BY <1>1
<1>6. TokensOk(source, Append(tokens, t))
  BY <1>1, <1>4, <1>5, TokenAdded
<1>7. PlacesOk(source, start, next, "scan")
  <2>1. "scan" # "string"
    OBVIOUS
  <2> QED BY <1>5, <2>1, Zenon DEF PlacesOk
<1>8. NestOk(source, start, str_interp_braces', "scan", Append(tokens, t))
  <2>1. t.type = type /\ t.first = start /\ t.last = next - 1
    BY DEF Token
  <2> HIDE DEF t
  <2>2. Counts(AfterToken(source, Open(source, tokens), t)) = str_interp_braces'
    BY <2>1, Zenon DEF Leaves
  <2>3. Open(source, Append(tokens, t)) = AfterToken(source, Open(source, tokens), t)
    BY <1>4, OpenMore
  <2>4. ~IsResumed(source, start, "scan")
    <3>1. "scan" # "string"
      OBVIOUS
    <3> QED BY <3>1, Zenon DEF IsResumed
  <2> QED BY <2>2, <2>3, <2>4, Zenon DEF NestOk
<1> HIDE DEF t
<1>9. InvParts(source', start', current', line', str_interp_braces', mode', tokens')
  BY <1>3, <1>6, <1>7, <1>8, Zenon DEF InvParts
<1> QED BY <1>9, InvNext

\* A string that ends, or that an error ends.
LEMMA StringDone ==
  ASSUME IInv, mode = "string", NEW type \in TokenTypes,
         type \notin {"LEFT_BRACE", "STRING_INTERP"}, NEW next \in Nat,
         current <= next, next <= EndOfText, NEW value,
         NewlinesIn(source, current, next) = 0, CloseString(type, next, value),
         str_interp_braces' = str_interp_braces
  PROVE  IInv'
<1>1. /\ current \in Nat /\ start \in Nat /\ start < current
      /\ CountsOk(current, str_interp_braces)
  BY Places DEF IInv, InvOf
<1>2. CountsOk(next, str_interp_braces)
  BY <1>1, CountsLater
<1>3. next - 1 >= start
  BY <1>1
<1>4. ASSUME NEW t, t.type = type, t.first = start, t.last = next - 1
      PROVE  Counts(AfterToken(source, Open(source, tokens), t)) = str_interp_braces
  <2>1. t.last >= t.first
    BY <1>3, <1>4
  <2>2. Counts(Closed(source, Open(source, tokens), t)) = str_interp_braces
    BY <1>4, <2>1, Resuming
  <2> QED BY <1>4, <2>2, Zenon DEF AfterToken
<1>5. Leaves(type, start, next, str_interp_braces')
  BY <1>4, Zenon DEF Leaves
<1> QED BY <1>2, <1>5, CloseStringInv

\* Characters of a string.
LEMMA GoOnInv ==
  ASSUME IInv, mode = "string", NEW count \in Nat, current + count <= EndOfText,
         NEW characters, GoOn(count, characters),
         line' = line + NewlinesIn(source, current, current + count)
  PROVE  IInv'
<1>1. /\ Len(source) \in Nat /\ EndOfText = Len(source) + 1 /\ current \in Nat
      /\ 1 <= start /\ start < current /\ start \in Nat /\ line = LineAt(source, current)
      /\ Peek(start) \in Delimiters
  BY Places
<1>2. current + count \in Nat /\ current <= current + count /\ 1 <= current
  BY <1>1
<1>3. line' = LineAt(source, current + count)
  BY <1>1, <1>2, LineMoves
<1>4. /\ start' = start /\ current' = current + count /\ mode' = "string"
      /\ tokens' = tokens /\ source' = source /\ str_interp_braces' = str_interp_braces
  BY Zenon DEF GoOn
<1>5. /\ TokensOk(source, tokens) /\ CountsOk(current, str_interp_braces)
      /\ NestOk(source, start, str_interp_braces, "string", tokens)
  BY Zenon DEF IInv, InvOf
<1>6. CountsOk(current + count, str_interp_braces)
  BY <1>1, <1>2, <1>5, CountsLater
<1>7. PlacesOk(source, start, current + count, "string")
  <2>1. start \in 1..Len(source) + 1 /\ current + count \in start..Len(source) + 1
        /\ start < current + count
    BY <1>1, <1>2
  <2> QED BY <1>1, <2>1, Zenon DEF PlacesOk, Peek
<1>8. InvParts(source', start', current', line', str_interp_braces', mode', tokens')
  BY <1>3, <1>4, <1>5, <1>6, <1>7, Zenon DEF InvParts
<1> QED BY <1>8, InvNext

-----------------------------------------------------------------------------
(***************************************************************************)
(* The types of tokens.                                                    *)
(***************************************************************************)
PlainTypes == TokenTypes \ {"LEFT_BRACE", "STRING_INTERP"}

LEMMA NamedTypes ==
  /\ {"IDENTIFIER", "INTEGER_LITERAL", "FLOAT_LITERAL", "STRING_LITERAL", "RIGHT_BRACE",
      "ERROR", "END_OF_FILE"} \subseteq PlainTypes
  /\ "STRING_INTERP" \in TokenTypes /\ "LEFT_BRACE" \in TokenTypes
<1>1. {"IDENTIFIER", "INTEGER_LITERAL", "FLOAT_LITERAL", "STRING_LITERAL", "STRING_INTERP",
       "RIGHT_BRACE"} \subseteq Types
  BY Zenon DEF Types
<1>2. "LEFT_BRACE" \in Types
  <2>1. <<"{", "LEFT_BRACE">> \in Marks
    BY Zenon DEF Marks
  <2>2. <<"{", "LEFT_BRACE">>[2] = "LEFT_BRACE"
    OBVIOUS
  <2> QED BY <2>1, <2>2, Zenon DEF Types
<1> HIDE DEF Types
<1> QED BY <1>1, <1>2, SMT DEF TokenTypes, PlainTypes

\* What Marks has is a type.
LEMMA MarkTypes == ASSUME NEW w, NEW type, <<w, type>> \in Marks PROVE type \in Types
<1>1. <<w, type>>[2] = type
  OBVIOUS
<1> QED BY <1>1, Zenon DEF Types

IsMark(mark) ==
  /\ mark[2] \in PlainTypes
  /\ mark[3] # "NONE" => mark[3] \in PlainTypes
  /\ mark[1] \notin {Empty, CloseBrace, "\n"}

LEMMA PunctuationTypes == \A mark \in punctuation : IsMark(mark)
<1> DEFINE Singles == {"LEFT_PAREN", "RIGHT_PAREN", "LEFT_BRACKET", "RIGHT_BRACKET", "COLON",
                       "SEMICOLON", "COMMA", "DOT", "MINUS", "PIPE", "PLUS", "SLASH", "STAR",
                       "BANG", "EQUAL", "LEFT_CHEVRON", "RIGHT_CHEVRON"}
           Doubles == {"BANG_EQUAL", "EQUAL_EQUAL", "LESS_EQUAL", "GREATER_EQUAL"}
<1>1. \A type \in Singles \union Doubles : \E w : <<w, type>> \in Marks
  <2> SUFFICES ASSUME NEW type \in Singles \union Doubles
               PROVE  \E w : <<w, type>> \in Marks
    OBVIOUS
  <2>1. CASE type \in {"LEFT_PAREN", "RIGHT_PAREN", "LEFT_BRACKET", "RIGHT_BRACKET", "COLON"}
    BY <2>1, Zenon DEF Marks
  <2>2. CASE type \in {"SEMICOLON", "COMMA", "DOT", "MINUS", "PIPE"}
    BY <2>2, Zenon DEF Marks
  <2>3. CASE type \in {"PLUS", "SLASH", "STAR", "BANG", "EQUAL"}
    BY <2>3, Zenon DEF Marks
  <2>4. CASE type \in {"LEFT_CHEVRON", "RIGHT_CHEVRON", "BANG_EQUAL", "EQUAL_EQUAL",
                       "LESS_EQUAL", "GREATER_EQUAL"}
    BY <2>4, Zenon DEF Marks
  <2> QED BY <2>1, <2>2, <2>3, <2>4
<1>2. Singles \union Doubles \subseteq Types
  BY <1>1, MarkTypes, Zenon
<1>3. Singles \union Doubles \subseteq PlainTypes
  BY <1>2, SMT DEF PlainTypes, TokenTypes
<1>4. ASSUME NEW mark \in punctuation
      PROVE  \E a, b, c : /\ mark = <<a, b, c>> /\ b \in Singles
                          /\ c \in Doubles \union {"NONE"}
                          /\ a # "" /\ a # "}" /\ a # "\n"
  BY Zenon DEF punctuation
<1> HIDE DEF Singles, Doubles
<1>5. ASSUME NEW mark \in punctuation PROVE IsMark(mark)
  <2>1. PICK a, b, c : /\ mark = <<a, b, c>> /\ b \in Singles
                       /\ c \in Doubles \union {"NONE"}
                       /\ a # "" /\ a # "}" /\ a # "\n"
    BY <1>4
  <2>2. a \notin {Empty, CloseBrace, "\n"}
    BY <2>1, Zenon DEF Empty, CloseBrace
  <2>3. mark[1] = a /\ mark[2] = b /\ mark[3] = c
    <3>1. mark = <<a, b, c>>
      BY <2>1, Zenon
    <3> QED BY <3>1
  <2>4. c # "NONE" => c \in PlainTypes
    BY <1>3, <2>1, Zenon
  <2>5. b \in PlainTypes
    BY <1>3, <2>1, Zenon
  <2> QED BY <2>2, <2>3, <2>4, <2>5, Zenon DEF IsMark
<1> QED BY <1>5

\* The words of a language have types of their own.
LEMMA WordTypes == \A word \in words : word[3] \in PlainTypes
<1>1. ASSUME NEW k \in DOMAIN Keywords PROVE Keywords[k] \in Types
  BY Zenon DEF Types
<1>2. DOMAIN Keywords =
        {"and", "as", "async", "await", "break", "continue", "else", "false", "for", "fn",
         "if", "import", "in", "inout", "is", "let", "loop", "match", "nil", "or", "out",
         "return", "self", "struct", "super", "true", "var", "while", "Any", "Bool", "Char",
         "Float", "Fn", "Int", "Nil", "Str"}
  BY DEF Keywords
<1> DEFINE Is(k, type) == k \in DOMAIN Keywords /\ Keywords[k] = type
<1>3. /\ Is("and", "AND") /\ Is("as", "AS") /\ Is("async", "ASYNC") /\ Is("await", "AWAIT")
      /\ Is("break", "BREAK") /\ Is("continue", "CONTINUE") /\ Is("else", "ELSE")
      /\ Is("false", "FALSE") /\ Is("for", "FOR") /\ Is("fn", "FN") /\ Is("if", "IF")
      /\ Is("import", "IMPORT") /\ Is("in", "IN") /\ Is("inout", "INOUT") /\ Is("is", "IS")
      /\ Is("let", "LET") /\ Is("loop", "LOOP") /\ Is("match", "MATCH") /\ Is("nil", "NIL")
      /\ Is("or", "OR") /\ Is("out", "OUT") /\ Is("return", "RETURN") /\ Is("self", "SELF")
      /\ Is("struct", "STRUCT") /\ Is("super", "SUPER") /\ Is("true", "TRUE")
      /\ Is("var", "VAR") /\ Is("while", "WHILE") /\ Is("Any", "ANY_TYPE")
      /\ Is("Bool", "BOOL_TYPE") /\ Is("Char", "CHAR_TYPE") /\ Is("Float", "FLOAT_TYPE")
      /\ Is("Fn", "FN_TYPE") /\ Is("Int", "INT_TYPE") /\ Is("Nil", "NIL_TYPE")
      /\ Is("Str", "STR_TYPE")
  <2>1. /\ Is("and", "AND") /\ Is("as", "AS") /\ Is("async", "ASYNC")
        /\ Is("await", "AWAIT") /\ Is("break", "BREAK") /\ Is("continue", "CONTINUE")
        /\ Is("else", "ELSE") /\ Is("false", "FALSE") /\ Is("for", "FOR")
    BY <1>2 DEF Keywords
  <2>2. /\ Is("fn", "FN") /\ Is("if", "IF") /\ Is("import", "IMPORT")
        /\ Is("in", "IN") /\ Is("inout", "INOUT") /\ Is("is", "IS")
        /\ Is("let", "LET") /\ Is("loop", "LOOP") /\ Is("match", "MATCH")
    BY <1>2 DEF Keywords
  <2>3. /\ Is("nil", "NIL") /\ Is("or", "OR") /\ Is("out", "OUT")
        /\ Is("return", "RETURN") /\ Is("self", "SELF") /\ Is("struct", "STRUCT")
        /\ Is("super", "SUPER") /\ Is("true", "TRUE") /\ Is("var", "VAR")
    BY <1>2 DEF Keywords
  <2>4. /\ Is("while", "WHILE") /\ Is("Any", "ANY_TYPE") /\ Is("Bool", "BOOL_TYPE")
        /\ Is("Char", "CHAR_TYPE") /\ Is("Float", "FLOAT_TYPE") /\ Is("Fn", "FN_TYPE")
        /\ Is("Int", "INT_TYPE") /\ Is("Nil", "NIL_TYPE") /\ Is("Str", "STR_TYPE")
    BY <1>2 DEF Keywords
  <2> HIDE DEF Is
  <2> QED BY <2>1, <2>2, <2>3, <2>4, Zenon
<1>4. ASSUME NEW k, NEW type, Is(k, type) PROVE type \in Types
  BY <1>1, <1>4
<1> HIDE DEF Is
<1> DEFINE Typed ==
      {"AND", "AS", "ASYNC", "AWAIT", "BREAK", "CONTINUE", "ELSE", "FALSE", "FOR", "FN", "IF",
       "IMPORT", "IN", "INOUT", "IS", "LET", "LOOP", "MATCH", "NIL", "OR", "OUT", "RETURN",
       "SELF", "STRUCT", "SUPER", "TRUE", "VAR", "WHILE", "ANY_TYPE", "BOOL_TYPE",
       "CHAR_TYPE", "FLOAT_TYPE", "FN_TYPE", "INT_TYPE", "NIL_TYPE", "STR_TYPE"}
<1>5. Typed \subseteq Types
  BY <1>3, <1>4
<1>6. Typed \subseteq PlainTypes
  BY <1>5, SMT DEF PlainTypes, TokenTypes
<1>7. \A word \in words : word[3] \in Typed
  BY SMT DEF words
<1> HIDE DEF Typed
<1> QED BY <1>6, <1>7

\* A finite set of numbers that is not empty has a greatest one.
LEMMA GreatestIsMax ==
  ASSUME NEW n \in Nat, NEW S \in SUBSET (1..n), S # {} PROVE Max(S) \in S
<1> DEFINE T == {n - k : k \in S}
<1>1. T \in SUBSET Nat /\ T # {}
  <2>1. \A k \in S : k \in 1..n /\ n - k \in Nat
    OBVIOUS
  <2>2. \E k \in S : n - k \in T
    OBVIOUS
  <2> QED BY <2>1, <2>2
<1>2. PICK t \in T : \A u \in T : t <= u
  BY <1>1, LeastNumber
<1>3. PICK k \in S : t = n - k
  BY <1>2
<1>4. ASSUME NEW m \in S PROVE k >= m
  <2>1. n - m \in T
    OBVIOUS
  <2>2. t <= n - m
    BY <1>2, <2>1
  <2>3. k \in Nat /\ m \in Nat
    OBVIOUS
  <2> QED BY <1>3, <2>2, <2>3
<1> QED BY <1>4, Zenon DEF Max

LEMMA IdentifierType ==
  ASSUME NEW word, Len(word) \in Nat PROVE identifier_type(word) \in PlainTypes
<1> DEFINE taken == {n \in 1..Len(word) : SubSeq(word, 1, n) \in DOMAIN branches}
           branch == branches[SubSeq(word, 1, Max(taken))]
<1>1. identifier_type(word) = IF taken # {} /\ branch[2] = SubSeq(word, Max(taken) + 1, Len(word))
                              THEN branch[3] ELSE "IDENTIFIER"
  BY Zenon DEF identifier_type
<1>2. "IDENTIFIER" \in PlainTypes
  BY NamedTypes
<1>3. ASSUME taken # {} PROVE branch[3] \in PlainTypes
  <2> DEFINE prefix == SubSeq(word, 1, Max(taken))
  <2>1. Max(taken) \in taken
    <3>1. taken \in SUBSET (1..Len(word))
      OBVIOUS
    <3> HIDE DEF taken
    <3> QED BY <1>3, <3>1, GreatestIsMax
  <2>2. prefix \in DOMAIN branches
    BY <2>1
  <2> HIDE DEF taken, prefix
  <2>3. prefix \in {w[1] : w \in words}
        /\ branches[prefix] = CHOOSE w \in words : w[1] = prefix
    BY <2>2, Zenon DEF branches
  <2>4. \E w \in words : w[1] = prefix
    BY <2>3, Zenon
  <2>5. branches[prefix] \in words
    BY <2>3, <2>4, Zenon
  <2> QED BY <2>5, WordTypes, Zenon DEF prefix
<1> HIDE DEF taken, branch
<1> QED BY <1>1, <1>2, <1>3, Zenon

-----------------------------------------------------------------------------
(***************************************************************************)
(* The branches of scan_token.                                             *)
(***************************************************************************)
LEMMA FirstNotNewline == ASSUME IInv PROVE Peek(First) # "\n" /\ 1 <= current
<1>1. /\ IsText(source) /\ start \in Nat /\ current \in Nat /\ 1 <= start /\ start <= current
      /\ First \in Nat /\ current <= First /\ First <= EndOfText
      /\ EndOfText = Len(source) + 1 /\ Len(source) \in Nat
  BY Places
<1>2. 1 <= current /\ current \in 1..EndOfText
  BY <1>1
<1> QED BY <1>1, <1>2, WhiteSkipped DEF First

\* A token on one line, that is no brace.
LEMMA ReadOneLine ==
  ASSUME IInv, mode = "scan", NEW type \in PlainTypes, NEW next \in Nat, First <= next,
         next <= EndOfText, NEW value, \A p \in First..(next - 1) : Peek(p) # "\n",
         Read(type, next, 0, value), mode' \in {"scan", "done"},
         str_interp_braces' = str_interp_braces, Peek(First) # CloseBrace
  PROVE  IInv'
<1>1. First \in Nat /\ EndOfText = Len(source) + 1 /\ Len(source) \in Nat
  BY Places
<1>2. NewlinesIn(source, First, next) = 0
  BY <1>1, NewlinesNone DEF Peek
<1>3. next \in First..EndOfText
  BY <1>1
<1>4. type \in TokenTypes /\ type \notin {"LEFT_BRACE", "STRING_INTERP"}
  BY DEF PlainTypes
<1> QED BY <1>2, <1>3, <1>4, ReadPlain

LEMMA EndOfFileKeeps == ASSUME IInv, EndOfFile PROVE IInv'
<1>1. /\ mode = "scan" /\ First = EndOfText /\ Read("END_OF_FILE", First, 0, None)
      /\ mode' = "done" /\ str_interp_braces' = str_interp_braces
  BY Zenon DEF EndOfFile, is_at_end
<1>2. /\ First \in Nat /\ EndOfText = Len(source) + 1 /\ Len(source) \in Nat
      /\ IsText(source)
  BY Places
<1>3. First \notin 1..Len(source) /\ First <= First
  BY <1>1, <1>2
<1>4. Peek(First) = Empty
  BY <1>2, <1>3, Characters
<1>5. Peek(First) # CloseBrace
  BY <1>4, NotEmpty, Zenon DEF CloseBrace
<1>6. \A p \in First..(First - 1) : Peek(p) # "\n"
  BY <1>2
<1>7. mode' \in {"scan", "done"}
  BY <1>1, Zenon
<1>8. "END_OF_FILE" \in PlainTypes
  BY NamedTypes
<1>9. First <= EndOfText
  BY <1>1, <1>3, Zenon
<1> QED BY <1>1, <1>2, <1>3, <1>5, <1>6, <1>7, <1>8, <1>9, ReadOneLine

\* Where the first character is that of a token, the token goes on past it.
LEMMA FirstIn ==
  ASSUME IInv, Peek(First) # Empty
  PROVE  First + 1 \in Nat /\ First + 1 <= EndOfText /\ First <= First + 1
         /\ First \in Nat /\ First \in 1..EndOfText /\ First + 1 \in 1..EndOfText
<1>1. /\ First \in Nat /\ start \in Nat /\ current \in Nat
      /\ 1 <= start /\ start <= current /\ current <= First /\ First <= EndOfText
      /\ EndOfText = Len(source) + 1 /\ Len(source) \in Nat
  BY Places
<1>2. 1 <= First
  BY <1>1
<1>3. First + 1 <= EndOfText
  BY <1>1, <1>2, GoesOn
<1> QED BY <1>1, <1>2, <1>3

LEMMA UnexpectedKeeps == ASSUME IInv, Unexpected PROVE IInv'
<1>1. /\ mode = "scan" /\ First # EndOfText /\ Read("ERROR", First + 1, 0, None)
      /\ str_interp_braces' = str_interp_braces /\ mode' = mode
      /\ Peek(First) # CloseBrace
  BY Zenon DEF Unexpected, is_at_end, CloseBrace
<1>2. /\ First \in Nat /\ EndOfText = Len(source) + 1 /\ Len(source) \in Nat
      /\ IsText(source) /\ First <= EndOfText /\ Peek(First) # "\n"
      /\ 1 <= current /\ current <= First /\ current \in Nat
  BY FirstNotNewline, Places
<1>3. First \in 1..Len(source)
  BY <1>1, <1>2
<1>4. Peek(First) # Empty
  BY <1>2, <1>3, Characters
<1>5. First + 1 \in Nat /\ First + 1 <= EndOfText /\ First <= First + 1
  BY <1>4, FirstIn
<1>6. \A p \in First..((First + 1) - 1) : Peek(p) # "\n"
  BY <1>2
<1>7. mode' \in {"scan", "done"} /\ "ERROR" \in PlainTypes
  BY <1>1, NamedTypes
<1> QED BY <1>1, <1>5, <1>6, <1>7, ReadOneLine

\* From p up to q there are characters, and no newlines.
OnLine(p, q) == q \in Nat /\ p <= q /\ q <= EndOfText /\ \A r \in p..(q - 1) : Peek(r) # "\n"

LEMMA OnLineOn ==
  ASSUME NEW p \in Nat, NEW q, NEW r, OnLine(p, q), OnLine(q, r) PROVE OnLine(p, r)
<1>1. q \in Nat /\ r \in Nat /\ p <= q /\ q <= r /\ r <= EndOfText
      /\ (\A i \in p..(q - 1) : Peek(i) # "\n") /\ \A i \in q..(r - 1) : Peek(i) # "\n"
  BY DEF OnLine
<1>2. p <= r
  BY <1>1
<1>3. ASSUME NEW i \in p..(r - 1) PROVE Peek(i) # "\n"
  <2>1. i \in p..(q - 1) \/ i \in q..(r - 1)
    BY <1>1
  <2> QED BY <1>1, <2>1
<1> QED BY <1>1, <1>2, <1>3 DEF OnLine

LEMMA OnLineStays ==
  ASSUME NEW p \in Nat, p <= EndOfText PROVE OnLine(p, p)
<1>1. p <= p /\ \A r \in p..(p - 1) : Peek(r) # "\n"
  OBVIOUS
<1> QED BY <1>1 DEF OnLine

\* Past one character.
LEMMA OnLineOne ==
  ASSUME IInv, NEW p \in Nat, 1 <= p, p <= EndOfText, Peek(p) \notin {Empty, "\n"}
  PROVE  OnLine(p, p + 1)
<1>1. p + 1 <= EndOfText
  BY GoesOn
<1>2. p + 1 \in Nat /\ p <= p + 1 /\ \A r \in p..((p + 1) - 1) : Peek(r) # "\n"
  BY SMT
<1> QED BY <1>1, <1>2 DEF OnLine

IsPlainClass(class) == Empty \notin class /\ "\n" \notin class /\ CloseBrace \notin class

LEMMA PlainClasses ==
  /\ IsPlainClass(Letters) /\ IsPlainClass(Digits) /\ IsPlainClass(Letters \union Digits)
  /\ IsPlainClass(DigitOrSeparator) /\ IsPlainClass(HexDigits \union {"_"})
  /\ IsPlainClass(HexDigits)
<1>1. IsPlainClass(Letters)
  BY Zenon DEF IsPlainClass, Letters, Empty, CloseBrace
<1>2. IsPlainClass(Digits)
  BY Zenon DEF IsPlainClass, Digits, Empty, CloseBrace
<1>3. IsPlainClass({"_"})
  BY Zenon DEF IsPlainClass, Empty, CloseBrace
<1>4. IsPlainClass({"a", "b", "c", "d", "e", "f", "A", "B", "C", "D", "E", "F"})
  BY Zenon DEF IsPlainClass, Empty, CloseBrace
<1>5. ASSUME NEW C, NEW D, IsPlainClass(C), IsPlainClass(D) PROVE IsPlainClass(C \union D)
  BY <1>5, Zenon DEF IsPlainClass
<1>6. IsPlainClass(HexDigits)
  BY <1>2, <1>4, <1>5, Zenon DEF HexDigits
<1> QED BY <1>1, <1>2, <1>3, <1>5, <1>6, Zenon DEF DigitOrSeparator

\* Past all the characters of a class.
LEMMA OnLinePast ==
  ASSUME IInv, NEW p \in Nat, 1 <= p, p <= EndOfText, NEW class, IsPlainClass(class)
  PROVE  OnLine(p, Past(p, class))
<1>1. IsText(source) /\ EndOfText = Len(source) + 1 /\ Len(source) \in Nat
  BY Places
<1>2. p \in 1..EndOfText
  BY <1>1
<1>3. Empty \notin class /\ "\n" \notin class
  BY Zenon DEF IsPlainClass
<1>4. /\ Past(p, class) \in p..EndOfText
      /\ \A q \in p..(Past(p, class) - 1) : Peek(q) \in class
  BY <1>1, <1>2, <1>3, PastStops
<1>5. Past(p, class) \in Nat /\ p <= Past(p, class) /\ Past(p, class) <= EndOfText
  BY <1>1, <1>4
<1>6. \A q \in p..(Past(p, class) - 1) : Peek(q) # "\n"
  BY <1>3, <1>4, Zenon
<1> QED BY <1>5, <1>6, Zenon DEF OnLine

\* A token whose first character is of a plain class.
LEMMA ReadPlainClass ==
  ASSUME IInv, mode = "scan", NEW type \in PlainTypes, NEW next, OnLine(First, next),
         NEW value, Read(type, next, 0, value), mode' = mode,
         str_interp_braces' = str_interp_braces, NEW class, IsPlainClass(class),
         Peek(First) \in class
  PROVE  IInv'
<1>1. /\ next \in Nat /\ First <= next /\ next <= EndOfText
      /\ \A p \in First..(next - 1) : Peek(p) # "\n"
  BY Zenon DEF OnLine
<1>2. mode' \in {"scan", "done"}
  BY Zenon
<1>3. Peek(First) # CloseBrace
  BY Zenon DEF IsPlainClass
<1> QED BY <1>1, <1>2, <1>3, ReadOneLine

LEMMA OnLineFirst ==
  ASSUME IInv, NEW class, IsPlainClass(class), Peek(First) \in class
  PROVE  OnLine(First, First + 1) /\ First \in Nat /\ 1 <= First
         /\ First + 1 \in Nat /\ 1 <= First + 1 /\ First + 1 <= EndOfText
<1>1. Peek(First) \notin {Empty, "\n"}
  BY Zenon DEF IsPlainClass
<1>2. First \in Nat /\ current \in Nat /\ 1 <= current /\ current <= First /\ First <= EndOfText
  BY FirstNotNewline, Places
<1>3. 1 <= First /\ First + 1 \in Nat /\ 1 <= First + 1
  BY <1>2
<1>4. OnLine(First, First + 1)
  BY <1>1, <1>2, <1>3, OnLineOne
<1> QED BY <1>2, <1>3, <1>4 DEF OnLine

LEMMA IdentifierKeeps == ASSUME IInv, Identifier PROVE IInv'
<1> DEFINE next == Past(First + 1, Letters \union Digits)
           word == SubSeq(source, First, next - 1)
<1>1. /\ mode = "scan" /\ Peek(First) \in Letters
      /\ Read(identifier_type(word), next, 0, None)
      /\ str_interp_braces' = str_interp_braces /\ mode' = mode
  BY Zenon DEF Identifier, is_alpha
<1>2. /\ OnLine(First, First + 1) /\ First \in Nat /\ 1 <= First
      /\ First + 1 \in Nat /\ 1 <= First + 1 /\ First + 1 <= EndOfText
  BY <1>1, PlainClasses, OnLineFirst
<1>3. OnLine(First + 1, next)
  BY <1>2, PlainClasses, OnLinePast
<1>4. OnLine(First, next)
  BY <1>2, <1>3, OnLineOn
<1>5. identifier_type(word) \in PlainTypes
  <2>1. IsText(source) /\ EndOfText = Len(source) + 1 /\ Len(source) \in Nat
    BY Places
  <2>2. next \in Nat /\ First + 1 <= next /\ next <= EndOfText
    BY <1>3, Zenon DEF OnLine
  <2> HIDE DEF next
  <2>3. First \in 1..Len(source) /\ next - 1 \in First..Len(source)
    BY <1>2, <2>1, <2>2
  <2>4. Len(word) \in Nat
    BY <2>1, <2>3, Zenon DEF IsText
  <2> QED BY <2>4, IdentifierType
<1> HIDE DEF next, word
<1> QED BY <1>1, <1>4, <1>5, PlainClasses, ReadPlainClass, Zenon

LEMMA OnLineMore ==
  ASSUME IInv, NEW p \in Nat, 1 <= p, NEW q, OnLine(p, q), Peek(q) \notin {Empty, "\n"}
  PROVE  OnLine(p, q + 1)
<1>1. q \in Nat /\ 1 <= q /\ q <= EndOfText
  BY DEF OnLine
<1>2. OnLine(q, q + 1)
  BY <1>1, OnLineOne
<1> QED BY <1>2, OnLineOn

LEMMA OnLinePastMore ==
  ASSUME IInv, NEW p \in Nat, 1 <= p, NEW q, OnLine(p, q), NEW class, IsPlainClass(class)
  PROVE  OnLine(p, Past(q, class))
<1>1. q \in Nat /\ 1 <= q /\ q <= EndOfText
  BY DEF OnLine
<1>2. OnLine(q, Past(q, class))
  BY <1>1, OnLinePast
<1> QED BY <1>2, OnLineOn

\* Where the parts of a number end.
LEMMA NumberParts ==
  ASSUME IInv, Peek(First) \in Digits
  PROVE  OnLine(First, FractionEnd) /\ OnLine(First, MarkEnd)
<1>1. OnLine(First, First + 1) /\ First \in Nat /\ 1 <= First
  BY PlainClasses, OnLineFirst
<1>2. OnLine(First, WholeEnd)
  BY <1>1, PlainClasses, OnLinePastMore, Zenon DEF WholeEnd
<1>3. OnLine(First, FractionEnd)
  <2>1. CASE FractionEnd = WholeEnd
    BY <1>2, <2>1, Zenon
  <2>2. CASE FractionEnd # WholeEnd
    <3>1. Peek(WholeEnd) = "." /\ FractionEnd = Past(WholeEnd + 1, DigitOrSeparator)
      BY <2>2, Zenon DEF FractionEnd
    <3>2. "." \notin {Empty, "\n"}
      BY NotEmpty, Zenon
    <3>3. OnLine(First, WholeEnd + 1)
      BY <1>1, <1>2, <3>1, <3>2, OnLineMore
    <3> QED BY <1>1, <3>1, <3>3, PlainClasses, OnLinePastMore, Zenon
  <2> QED BY <2>1, <2>2
<1>4. {"e", "E", "+", "-"} \intersect {Empty, "\n"} = {}
  BY Zenon DEF Empty
<1>5. OnLine(First, MarkEnd)
  <2>1. CASE Peek(FractionEnd) \notin {"e", "E"}
    BY <1>3, <2>1, Zenon DEF MarkEnd
  <2>2. CASE Peek(FractionEnd) \in {"e", "E"}
    <3>1. Peek(FractionEnd) \notin {Empty, "\n"}
      BY <1>4, <2>2
    <3>2. OnLine(First, FractionEnd + 1)
      BY <1>1, <1>3, <3>1, OnLineMore
    <3>3. CASE Peek(FractionEnd + 1) \in {"+", "-"}
      <4>1. Peek(FractionEnd + 1) \notin {Empty, "\n"}
        BY <1>4, <3>3
      <4>2. OnLine(First, (FractionEnd + 1) + 1)
        BY <1>1, <3>2, <4>1, OnLineMore
      <4>3. FractionEnd \in Nat
        BY <1>3, Zenon DEF OnLine
      <4>4. (FractionEnd + 1) + 1 = FractionEnd + 2
        BY <4>3
      <4> QED BY <2>2, <3>3, <4>2, <4>4, Zenon DEF MarkEnd
    <3>4. CASE Peek(FractionEnd + 1) \notin {"+", "-"}
      BY <2>2, <3>2, <3>4, Zenon DEF MarkEnd
    <3> QED BY <3>3, <3>4
  <2> QED BY <2>1, <2>2
<1> QED BY <1>3, <1>5

LEMMA NumberKeeps == ASSUME IInv, Number PROVE IInv'
<1> DEFINE exponent == MarkEnd > FractionEnd
           next == IF exponent THEN Past(MarkEnd, DigitOrSeparator) ELSE FractionEnd
<1>1. /\ mode = "scan" /\ Peek(First) \in Digits
      /\ str_interp_braces' = str_interp_braces /\ mode' = mode
  BY Zenon DEF Number, is_digit
<1>2. \E type \in {"ERROR", "FLOAT_LITERAL", "INTEGER_LITERAL"} : \E v : Read(type, next, 0, v)
  BY Zenon DEF Number
<1>3. PICK type \in {"ERROR", "FLOAT_LITERAL", "INTEGER_LITERAL"} :
        \E v : Read(type, next, 0, v)
  BY <1>2, Zenon
<1>3a. PICK v : Read(type, next, 0, v)
  BY <1>3, Zenon
<1>4. OnLine(First, next)
  <2>1. OnLine(First, FractionEnd) /\ OnLine(First, MarkEnd)
    BY <1>1, NumberParts
  <2>2. First \in Nat /\ 1 <= First
    BY <1>1, PlainClasses, OnLineFirst
  <2>3. OnLine(First, Past(MarkEnd, DigitOrSeparator))
    BY <2>1, <2>2, PlainClasses, OnLinePastMore
  <2> QED BY <2>1, <2>3, Zenon
<1>5. type \in PlainTypes
  BY <1>3, NamedTypes, Zenon
<1> HIDE DEF next
<1> QED BY <1>1, <1>3a, <1>4, <1>5, PlainClasses, ReadPlainClass, Zenon

LEMMA HexNumberKeeps == ASSUME IInv, HexNumber PROVE IInv'
<1> DEFINE next == Past(First + 2, HexDigits \union {"_"})
<1>1. /\ mode = "scan" /\ Peek(First) = "0" /\ Peek(First + 1) \in {"x", "X"}
      /\ str_interp_braces' = str_interp_braces /\ mode' = mode
  BY Zenon DEF HexNumber
<1>2. \E type \in {"ERROR", "INTEGER_LITERAL"} : \E v : Read(type, next, 0, v)
  BY Zenon DEF HexNumber
<1>3. PICK type \in {"ERROR", "INTEGER_LITERAL"} :
        \E v : Read(type, next, 0, v)
  BY <1>2, Zenon
<1>3a. PICK v : Read(type, next, 0, v)
  BY <1>3, Zenon
<1>4. Peek(First) \in Digits
  BY <1>1, Zenon DEF Digits
<1>5. OnLine(First, First + 1) /\ First \in Nat /\ 1 <= First
  BY <1>4, PlainClasses, OnLineFirst
<1>6. Peek(First + 1) \notin {Empty, "\n"}
  BY <1>1, Zenon DEF Empty
<1>7. OnLine(First, (First + 1) + 1)
  BY <1>5, <1>6, OnLineMore
<1>8. (First + 1) + 1 = First + 2
  BY <1>5
<1>9. OnLine(First, First + 2)
  BY <1>7, <1>8, Zenon
<1>10. OnLine(First, next)
  BY <1>5, <1>9, PlainClasses, OnLinePastMore
<1>11. type \in PlainTypes
  BY <1>3, NamedTypes, Zenon
<1> HIDE DEF next
<1> QED BY <1>1, <1>3a, <1>4, <1>10, <1>11, PlainClasses, ReadPlainClass, Zenon

LEMMA PunctuationKeeps == ASSUME IInv, Punctuation PROVE IInv'
<1>1. /\ mode = "scan" /\ str_interp_braces' = str_interp_braces /\ mode' = mode
  BY Zenon DEF Punctuation
<1>2. PICK mark \in punctuation :
        /\ Peek(First) = mark[1]
        /\ IF mark[3] # "NONE" /\ Peek(First + 1) = "="
           THEN Read(mark[3], First + 2, 0, None)
           ELSE Read(mark[2], First + 1, 0, None)
  BY Zenon DEF Punctuation
<1>3. IsMark(mark)
  BY PunctuationTypes
<1> DEFINE class == {mark[1]}
<1>4. IsPlainClass(class) /\ Peek(First) \in class
  BY <1>2, <1>3, Zenon DEF IsMark, IsPlainClass
<1> HIDE DEF class
<1>5. OnLine(First, First + 1) /\ First \in Nat /\ 1 <= First
  BY <1>4, OnLineFirst
<1>6. CASE mark[3] # "NONE" /\ Peek(First + 1) = "="
  <2>1. Peek(First + 1) \notin {Empty, "\n"}
    BY <1>6, Zenon DEF Empty
  <2>2. OnLine(First, (First + 1) + 1)
    BY <1>5, <2>1, OnLineMore
  <2>3. (First + 1) + 1 = First + 2
    BY <1>5
  <2>4. OnLine(First, First + 2)
    BY <2>2, <2>3, Zenon
  <2>5. Read(mark[3], First + 2, 0, None) /\ mark[3] \in PlainTypes
    BY <1>2, <1>3, <1>6, Zenon DEF IsMark
  <2> QED BY <1>1, <1>4, <2>4, <2>5, ReadPlainClass, Zenon
<1>7. CASE ~(mark[3] # "NONE" /\ Peek(First + 1) = "=")
  <2>1. Read(mark[2], First + 1, 0, None) /\ mark[2] \in PlainTypes
    BY <1>2, <1>3, <1>7, Zenon DEF IsMark
  <2> QED BY <1>1, <1>4, <1>5, <2>1, ReadPlainClass, Zenon
<1> QED BY <1>6, <1>7, Zenon

LEMMA QuoteKeeps == ASSUME IInv, Quote PROVE IInv'
<1>1. /\ mode = "scan" /\ Peek(First) = "\"" /\ OpenString(First + 1)
      /\ str_interp_braces' = str_interp_braces
  BY Zenon DEF Quote
<1>2. Peek(First) \in Delimiters
  BY <1>1, Zenon DEF Delimiters
<1>3. str_interp_braces = Counts(Open(source, tokens)) /\ CountsOk(current, str_interp_braces)
  BY <1>1, Scanning, Zenon
<1>4. ~IsResumed(source, First, "string")
  <2>1. "\"" # "}"
    BY Zenon
  <2> QED BY <1>1, <2>1, Zenon DEF IsResumed, CloseBrace, Peek
<1>5. NestOk(source, First, str_interp_braces', "string", tokens)
  BY <1>1, <1>3, <1>4, Zenon DEF NestOk
<1>6. CountsOk(current, str_interp_braces')
  BY <1>1, <1>3, Zenon
<1> HIDE DEF Delimiters
<1> QED BY <1>1, <1>2, <1>5, <1>6, OpenStringInv, Zenon

\* Counts with one changed at the end still are few and small enough.
LEMMA RaisedOk ==
  ASSUME NEW c \in Nat, NEW counts, CountsOk(c, counts), counts # <<>>, NEW n \in {-1, 1},
         Last(counts) + n # 0
  PROVE  CountsOk(c + 1, Raised(counts, n))
<1>1. counts \in Counted /\ Len(counts) <= MAX_INTERP_DEPTH
      /\ \A i \in 1..Len(counts) : counts[i] < c
  BY Zenon DEF CountsOk
<1>2. Len(counts) \in Nat \ {0} /\ Last(counts) \in Nat \ {0} /\ Last(counts) = counts[Len(counts)]
  BY <1>1, FrontAndLast DEF Counted, Last
<1>3. Last(counts) < c /\ Last(counts) + n \in Nat \ {0}
  BY <1>1, <1>2
<1> DEFINE up == Raised(counts, n)
<1>4. /\ up \in Counted /\ Len(up) = Len(counts) /\ Last(up) = Last(counts) + n
      /\ \A i \in 1..Len(counts) - 1 : up[i] = counts[i]
  BY <1>1, <1>3, RaisedCounts
<1> HIDE DEF up
<1>5. up[Len(counts)] = Last(counts) + n
  BY <1>4, Zenon DEF Last
<1>6. ASSUME NEW i \in 1..Len(up) PROVE up[i] < c + 1
  <2>1. CASE i = Len(counts)
    BY <1>2, <1>3, <1>5, <2>1
  <2>2. CASE i # Len(counts)
    <3>1. i \in 1..Len(counts) - 1 /\ i \in 1..Len(counts)
      BY <1>2, <1>4, <2>2
    <3>2. up[i] = counts[i] /\ counts[i] < c /\ counts[i] \in Nat \ {0}
      BY <1>1, <1>4, <3>1, ElementOfSeq DEF Counted
    <3> QED BY <3>2
  <2> QED BY <2>1, <2>2
<1>7. Len(up) <= MAX_INTERP_DEPTH
  BY <1>1, <1>4
<1>8. CountsOk(c + 1, up)
  BY <1>4, <1>6, <1>7, Zenon DEF CountsOk
<1> QED BY <1>8 DEF up

LEMMA BracesAre ==
  /\ \A text, open, t : t.type = "LEFT_BRACE" => AfterToken(text, open, t) = Append(open, "{")
  /\ "{" \notin {Empty, "\n"} /\ CloseBrace \notin {Empty, "\n"}
<1>1. "{" # "" /\ "{" # "\n" /\ "}" # "" /\ "}" # "\n"
  BY Zenon
<1> QED BY <1>1, Zenon DEF AfterToken, Empty, CloseBrace

\* One character more, of a place further on, makes room for counts.
LEMMA CountsFurther ==
  ASSUME IInv, NEW counts, CountsOk(current + 1, counts)
  PROVE  CountsOk(First + 1, counts)
<1>1. current \in Nat /\ First \in Nat /\ current <= First
  BY Places
<1>2. current + 1 \in Nat /\ First + 1 \in Nat /\ current + 1 <= First + 1
  BY <1>1
<1> QED BY <1>2, CountsLater

LEMMA BraceIn ==
  ASSUME IInv, Peek(First) \notin {Empty, "\n"}
  PROVE  First + 1 \in First..EndOfText /\ NewlinesIn(source, First, First + 1) = 0
<1>1. First \in Nat /\ EndOfText = Len(source) + 1 /\ Len(source) \in Nat
  BY Places
<1>2. First + 1 <= EndOfText
  BY FirstIn
<1>3. NewlinesIn(source, First, First + 1) = 0
  BY <1>1, NoNewlineHere DEF Peek
<1> QED BY <1>1, <1>2, <1>3

LEMMA LeftBraceKeeps == ASSUME IInv, LeftBrace PROVE IInv'
<1> DEFINE open == Open(source, tokens)
           counts == str_interp_braces
<1>1. /\ mode = "scan" /\ Peek(First) \notin {Empty, "\n"}
      /\ Read("LEFT_BRACE", First + 1, 0, None)
      /\ str_interp_braces' = CountedBrace /\ mode' = mode
  BY BracesAre, Zenon DEF LeftBrace
<1>2. open \in Opened /\ counts \in Counted /\ current \in Nat
  BY Places
<1>3. counts = Counts(open) /\ CountsOk(current, counts)
  BY <1>1, Scanning
<1>4. CountedBrace = IF counts = <<>> THEN <<>> ELSE Raised(counts, 1)
  BY Zenon DEF CountedBrace, AddToLast, Raised
<1>5. Counts(Append(open, "{")) = CountedBrace
  <2>1. Counts(Append(open, "{")) = WithBrace(counts, "{")
    <3>1. "{" \in Brackets
      BY Zenon DEF Brackets
    <3> HIDE DEF open
    <3> QED BY <1>2, <1>3, <3>1, CountsMore, Zenon
  <2>2. "{" # "${"
    OBVIOUS
  <2> QED BY <1>4, <2>1, <2>2, WithBraceIs, Zenon
<1>6. CountsOk(current + 1, CountedBrace)
  <2>1. CASE counts = <<>>
    <3>1. current + 1 \in Nat /\ current <= current + 1
      BY <1>2
    <3> QED BY <1>2, <1>3, <1>4, <2>1, <3>1, CountsLater
  <2>2. CASE counts # <<>>
    <3>1. Last(counts) \in Nat \ {0}
      BY <1>2, <2>2, FrontAndLast DEF Counted
    <3>2. Last(counts) + 1 # 0 /\ 1 \in {-1, 1}
      BY <3>1
    <3>3. CountsOk(current + 1, Raised(counts, 1))
      BY <1>2, <1>3, <2>2, <3>2, RaisedOk
    <3> QED BY <1>4, <2>2, <3>3, Zenon
  <2> QED BY <2>1, <2>2
<1>7. CountsOk(First + 1, str_interp_braces')
  BY <1>1, <1>6, CountsFurther
<1>8. Leaves("LEFT_BRACE", First, First + 1, str_interp_braces')
  BY <1>1, <1>5, BracesAre, Zenon DEF Leaves
<1>9. First + 1 \in First..EndOfText /\ NewlinesIn(source, First, First + 1) = 0
  BY <1>1, BraceIn
<1>10. "LEFT_BRACE" \in TokenTypes /\ mode' \in {"scan", "done"}
  BY <1>1, NamedTypes
<1> QED BY <1>1, <1>7, <1>8, <1>9, <1>10, ReadInv

\* A closing brace that resumes a string.
LEMMA ResumeKeeps ==
  ASSUME IInv, mode = "scan", Peek(First) = CloseBrace, str_interp_braces # <<>>,
         Last(str_interp_braces) = 1, str_interp_braces' = Front(str_interp_braces),
         OpenString(First + 1)
  PROVE  IInv'
<1> DEFINE open == Open(source, tokens)
           counts == str_interp_braces
<1>1. open \in Opened /\ counts \in Counted /\ current \in Nat
  BY Places
<1>2. counts = Counts(open) /\ CountsOk(current, counts)
  BY Scanning
<1>3. open # <<>> /\ Last(open) = "${" /\ Counts(Front(open)) = Front(counts)
  <2>1. Counts(open) # <<>> /\ Last(Counts(open)) = 1
    BY <1>2, Zenon
  <2> HIDE DEF open
  <2>2. open # <<>> /\ Last(open) = "${" /\ Counts(Front(open)) = Front(Counts(open))
    BY <1>1, <2>1, ClosesInterp, Zenon
  <2> QED BY <1>2, <2>2, Zenon
<1>4. NestOk(source, First, str_interp_braces', "string", tokens)
  BY <1>3, Zenon DEF NestOk, IsResumed, Peek
<1>5. Peek(First) \in Delimiters
  BY Zenon DEF Delimiters
<1>6. CountsOk(current, Front(counts))
  <2>1. /\ Len(counts) \in Nat \ {0} /\ Front(counts) \in Counted
        /\ Len(Front(counts)) = Len(counts) - 1
        /\ \A i \in 1..Len(counts) - 1 : Front(counts)[i] = counts[i]
    BY <1>1, FrontAndLast DEF Counted
  <2>2. /\ Len(counts) <= MAX_INTERP_DEPTH /\ \A i \in 1..Len(counts) : counts[i] < current
    BY <1>2, Zenon DEF CountsOk
  <2>3. Len(Front(counts)) <= MAX_INTERP_DEPTH
    BY <2>1, <2>2, ScannerAssumption
  <2>4. \A i \in 1..Len(Front(counts)) : Front(counts)[i] < current
    BY <2>1, <2>2
  <2> QED BY <2>1, <2>3, <2>4, Zenon DEF CountsOk
<1>7. CountsOk(current, str_interp_braces')
  BY <1>6, Zenon
<1> QED BY <1>4, <1>5, <1>7, OpenStringInv, Zenon

\* A closing brace that ends a block, or ends nothing.
LEMMA BlockEndKeeps ==
  ASSUME IInv, mode = "scan", Peek(First) = CloseBrace,
         ~(str_interp_braces # <<>> /\ Last(str_interp_braces) = 1),
         str_interp_braces' = IF str_interp_braces = <<>> THEN <<>>
                              ELSE Raised(str_interp_braces, -1),
         Read("RIGHT_BRACE", First + 1, 0, None), mode' = mode
  PROVE  IInv'
<1> DEFINE open == Open(source, tokens)
           counts == str_interp_braces
<1>1. open \in Opened /\ counts \in Counted /\ current \in Nat /\ First \in Nat
  BY Places
<1>2. counts = Counts(open) /\ CountsOk(current, counts)
  BY Scanning
<1>3. Counts(IF open # <<>> THEN Front(open) ELSE open) = str_interp_braces'
  <2>1. ~(Counts(open) # <<>> /\ Last(Counts(open)) = 1)
    BY <1>2, Zenon
  <2> HIDE DEF open
  <2>2. Counts(IF open # <<>> THEN Front(open) ELSE open)
          = IF Counts(open) = <<>> THEN <<>> ELSE Raised(Counts(open), -1)
    BY <1>1, <2>1, ClosesBlock, Zenon
  <2> QED BY <1>2, <2>2, Zenon
<1>4. ASSUME NEW t, t.type = "RIGHT_BRACE", t.first = First, t.last = (First + 1) - 1
      PROVE  Counts(AfterToken(source, open, t)) = str_interp_braces'
  <2>1. t.last >= t.first
    BY <1>1, <1>4
  <2>2. Closed(source, open, t) = IF open # <<>> THEN Front(open) ELSE open
    BY <1>4, <2>1, Zenon DEF Closed, CloseBrace, Peek
  <2>3. AfterToken(source, open, t) = Closed(source, open, t)
    <3>1. "RIGHT_BRACE" # "LEFT_BRACE" /\ "RIGHT_BRACE" # "STRING_INTERP"
      OBVIOUS
    <3> QED BY <1>4, <3>1, Zenon DEF AfterToken
  <2> QED BY <1>3, <2>2, <2>3, Zenon
<1>5. Leaves("RIGHT_BRACE", First, First + 1, str_interp_braces')
  BY <1>4, Zenon DEF Leaves
<1>6. CountsOk(current + 1, str_interp_braces')
  <2>1. CASE counts = <<>>
    <3>1. current + 1 \in Nat /\ current <= current + 1
      BY <1>1
    <3> QED BY <1>1, <1>2, <2>1, <3>1, CountsLater
  <2>2. CASE counts # <<>>
    <3>1. Last(counts) \in Nat \ {0}
      BY <1>1, <2>2, FrontAndLast DEF Counted
    <3>2. Last(counts) + (-1) # 0 /\ -1 \in {-1, 1}
      BY <2>2, <3>1
    <3>3. CountsOk(current + 1, Raised(counts, -1))
      BY <1>1, <1>2, <2>2, <3>2, RaisedOk
    <3> QED BY <2>2, <3>3, Zenon
  <2> QED BY <2>1, <2>2
<1>7. CountsOk(First + 1, str_interp_braces')
  BY <1>6, CountsFurther
<1>8. First + 1 \in First..EndOfText /\ NewlinesIn(source, First, First + 1) = 0
  BY BracesAre, BraceIn
<1>9. "RIGHT_BRACE" \in TokenTypes
  BY NamedTypes DEF PlainTypes
<1>10. mode' \in {"scan", "done"}
  BY Zenon
<1> QED BY <1>5, <1>7, <1>8, <1>9, <1>10, ReadInv

LEMMA RightBraceKeeps == ASSUME IInv, RightBrace PROVE IInv'
<1>1. mode = "scan" /\ Peek(First) = CloseBrace
  BY Zenon DEF RightBrace, CloseBrace
<1>2. CASE str_interp_braces # <<>> /\ Last(str_interp_braces) = 1
  <2>1. str_interp_braces' = Front(str_interp_braces) /\ OpenString(First + 1)
    BY <1>2, Zenon DEF RightBrace
  <2> QED BY <1>1, <1>2, <2>1, ResumeKeeps, Zenon
<1>3. CASE ~(str_interp_braces # <<>> /\ Last(str_interp_braces) = 1)
  <2>1. /\ str_interp_braces' = IF str_interp_braces = <<>> THEN <<>> ELSE AddToLast(-1)
        /\ Read("RIGHT_BRACE", First + 1, 0, None) /\ mode' = mode
    BY <1>3, Zenon DEF RightBrace
  <2>2. AddToLast(-1) = Raised(str_interp_braces, -1)
    BY Zenon DEF AddToLast, Raised
  <2> QED BY <1>1, <1>3, <2>1, <2>2, BlockEndKeeps, Zenon
<1> QED BY <1>2, <1>3, Zenon

\* Three quotes are on one line.
LEMMA OnLineQuotes ==
  ASSUME IInv, NEW p \in Nat, 1 <= p, p <= EndOfText, Quotes(p)
  PROVE  OnLine(p, p + 3)
<1>1. p \in p..(p + 2) /\ p + 1 \in p..(p + 2) /\ p + 2 \in p..(p + 2)
  OBVIOUS
<1>2. \A i \in p..(p + 2) : Peek(i) \notin {Empty, "\n"}
  <2>1. "\"" \notin {Empty, "\n"}
    BY Zenon DEF Empty
  <2> QED BY <2>1, Zenon DEF Quotes
<1>3. OnLine(p, p + 1)
  BY <1>1, <1>2, OnLineOne
<1>4. OnLine(p, (p + 1) + 1)
  BY <1>1, <1>2, <1>3, OnLineMore, Zenon
<1>5. (p + 1) + 1 = p + 2 /\ (p + 2) + 1 = p + 3
  OBVIOUS
<1>6. OnLine(p, p + 2)
  BY <1>4, <1>5, Zenon
<1>7. OnLine(p, (p + 2) + 1)
  BY <1>1, <1>2, <1>6, OnLineMore, Zenon
<1> QED BY <1>5, <1>7, Zenon

LEMMA OnLineNone ==
  ASSUME NEW p \in Nat, NEW q, OnLine(p, q) PROVE NewlinesIn(source, p, q) = 0
<1>1. q \in Nat /\ \A r \in p..(q - 1) : At(source, r) # "\n"
  BY Zenon DEF OnLine, Peek
<1> QED BY <1>1, NewlinesNone

LEMMA RawStringKeeps == ASSUME IInv, RawString PROVE IInv'
<1> DEFINE closing == {p \in First + 3..EndOfText : Quotes(p)}
           close == IF closing = {} THEN EndOfText ELSE Min(closing)
           next == IF closing = {} THEN EndOfText ELSE close + 3
<1>1. /\ mode = "scan" /\ Quotes(First)
      /\ str_interp_braces' = str_interp_braces /\ mode' = mode
  BY Zenon DEF RawString
<1>2. \E type \in {"ERROR", "STRING_LITERAL"} : \E v : Read(type, next, Lines(First + 3, close), v)
  BY Zenon DEF RawString
<1>3. PICK type \in {"ERROR", "STRING_LITERAL"} :
        \E v : Read(type, next, Lines(First + 3, close), v)
  BY <1>2, Zenon
<1>3a. PICK v : Read(type, next, Lines(First + 3, close), v)
  BY <1>3, Zenon
<1>4. /\ First \in Nat /\ 1 <= current /\ current \in Nat /\ current <= First
      /\ First <= EndOfText /\ EndOfText = Len(source) + 1 /\ Len(source) \in Nat
  BY FirstNotNewline, Places
<1>5. 1 <= First /\ EndOfText \in Nat
  BY <1>4
<1>6. OnLine(First, First + 3)
  BY <1>1, <1>4, <1>5, OnLineQuotes
<1>7. First + 3 <= EndOfText /\ First + 3 \in Nat
  BY <1>6, <1>4 DEF OnLine
<1>8. close \in Nat /\ First + 3 <= close /\ OnLine(close, next)
  <2>1. CASE closing = {}
    <3>1. close = EndOfText /\ next = EndOfText
      BY <2>1, Zenon
    <3>2. OnLine(EndOfText, EndOfText)
      <4>1. EndOfText <= EndOfText
        BY <1>5
      <4> QED BY <1>5, <4>1, OnLineStays
    <3> HIDE DEF close, next
    <3> QED BY <1>5, <1>7, <3>1, <3>2
  <2>2. CASE closing # {}
    <3>1. closing \in SUBSET Nat
      BY <1>5, <1>7
    <3>2. Min(closing) \in closing
      <4> HIDE DEF closing
      <4> QED BY <2>2, <3>1, LeastIsMin
    <3>3. close = Min(closing) /\ next = Min(closing) + 3
      BY <2>2, Zenon
    <3> DEFINE m == Min(closing)
    <3>4. m \in First + 3..EndOfText /\ Quotes(m)
      BY <3>2
    <3> HIDE DEF m
    <3>5. m \in Nat /\ First + 3 <= m /\ m <= EndOfText /\ 1 <= m
      BY <1>4, <1>5, <1>7, <3>4
    <3>6. OnLine(m, m + 3)
      BY <3>4, <3>5, OnLineQuotes
    <3>7. close = m /\ next = m + 3
      BY <3>3, Zenon DEF m
    <3> QED BY <3>5, <3>6, <3>7, Zenon
  <2> QED BY <2>1, <2>2, Zenon
<1> HIDE DEF closing, close, next
<1>9. next \in Nat /\ close <= next /\ next <= EndOfText
  BY <1>8, Zenon DEF OnLine
<1>10. next \in First..EndOfText
  BY <1>4, <1>7, <1>8, <1>9
<1>11. Lines(First + 3, close) = NewlinesIn(source, First, next)
  <2>1. NewlinesIn(source, First, First + 3) = 0 /\ NewlinesIn(source, close, next) = 0
    BY <1>4, <1>6, <1>8, OnLineNone
  <2>2. NewlinesIn(source, First, next)
          = NewlinesIn(source, First, First + 3) + NewlinesIn(source, First + 3, next)
    <3>1. First <= First + 3 /\ First + 3 <= next
      BY <1>4, <1>7, <1>8, <1>9
    <3> QED BY <1>4, <1>7, <1>9, <3>1, NewlinesSplit
  <2>3. NewlinesIn(source, First + 3, next)
          = NewlinesIn(source, First + 3, close) + NewlinesIn(source, close, next)
    BY <1>7, <1>8, <1>9, NewlinesSplit
  <2>4. NewlinesIn(source, First + 3, close) \in Nat
    BY <1>7, <1>8, NewlineSets
  <2>5. Lines(First + 3, close) = NewlinesIn(source, First + 3, close)
    BY NewlinesAre, Zenon DEF Lines
  <2> QED BY <2>1, <2>2, <2>3, <2>4, <2>5
<1>12. type \in TokenTypes /\ type \notin {"LEFT_BRACE", "STRING_INTERP"}
  BY <1>3, NamedTypes DEF PlainTypes
<1>13. Peek(First) # CloseBrace
  <2>1. First \in First..(First + 2)
    BY <1>4
  <2>2. Peek(First) = "\""
    BY <1>1, <2>1, Zenon DEF Quotes
  <2>3. "\"" # "}"
    BY Zenon
  <2> QED BY <2>2, <2>3, Zenon DEF CloseBrace
<1>14. mode' \in {"scan", "done"}
  BY <1>1, Zenon
<1> QED BY <1>1, <1>3a, <1>10, <1>11, <1>12, <1>13, <1>14, ReadPlain, Zenon

LEMMA ScanTokenKeeps == ASSUME IInv, scan_token PROVE IInv'
BY EndOfFileKeeps, LeftBraceKeeps, RightBraceKeeps, PunctuationKeeps, QuoteKeeps,
   RawStringKeeps, HexNumberKeeps, NumberKeeps, IdentifierKeeps, UnexpectedKeeps, Zenon
   DEF scan_token

-----------------------------------------------------------------------------
(***************************************************************************)
(* The turns of the loop of string.                                        *)
(***************************************************************************)
LEMMA InString ==
  ASSUME IInv
  PROVE  /\ current \in Nat /\ 1 <= current /\ current <= EndOfText /\ EndOfText \in Nat
         /\ OnLine(current, current)
<1>1. /\ First \in Nat /\ 1 <= current /\ current \in Nat /\ current <= First
      /\ First <= EndOfText /\ EndOfText = Len(source) + 1 /\ Len(source) \in Nat
  BY FirstNotNewline, Places
<1>2. current <= EndOfText /\ EndOfText \in Nat
  BY <1>1
<1> QED BY <1>1, <1>2, OnLineStays

\* A string that ends on the line it has come to.
LEMMA StringDoneKeeps ==
  ASSUME IInv, mode = "string", NEW type \in PlainTypes, NEW next, OnLine(current, next),
         NEW value, CloseString(type, next, value), str_interp_braces' = str_interp_braces
  PROVE  IInv'
<1>1. next \in Nat /\ current <= next /\ next <= EndOfText
  BY Zenon DEF OnLine
<1>2. current \in Nat
  BY InString
<1>3. NewlinesIn(source, current, next) = 0
  BY <1>2, OnLineNone
<1>4. type \in TokenTypes /\ type \notin {"LEFT_BRACE", "STRING_INTERP"}
  BY DEF PlainTypes
<1> QED BY <1>1, <1>3, <1>4, StringDone

LEMMA StringErrorKeeps ==
  ASSUME IInv, mode = "string", NEW next, OnLine(current, next), StringError(next)
  PROVE  IInv'
<1>1. CloseString("ERROR", next, None) /\ str_interp_braces' = str_interp_braces
  BY Zenon DEF StringError
<1>2. "ERROR" \in PlainTypes
  BY NamedTypes
<1> QED BY <1>1, <1>2, StringDoneKeeps

LEMMA StringCharacterKeeps == ASSUME IInv, StringCharacter PROVE IInv'
<1>1. /\ mode = "string" /\ Peek(current) # Empty /\ GoOn(1, <<Peek(current)>>)
      /\ line' = IF Peek(current) = "\n" THEN line + 1 ELSE line
  BY Zenon DEF StringCharacter
<1>2. current \in Nat /\ 1 <= current /\ current <= EndOfText
  BY InString
<1>3. current + 1 <= EndOfText
  BY <1>1, <1>2, GoesOn
<1>4. line \in Nat
  <2>1. line = LineAt(source, current) /\ NewlinesIn(source, 1, current) \in Nat
    BY Places
  <2> QED BY <2>1 DEF LineAt
<1>5. line' = line + NewlinesIn(source, current, current + 1)
  <2>1. CASE Peek(current) = "\n"
    <3>1. NewlinesIn(source, current, current + 1) = 1
      BY <1>2, <2>1, NewlinesOne DEF Peek
    <3> QED BY <1>1, <2>1, <3>1, Zenon
  <2>2. CASE Peek(current) # "\n"
    <3>1. NewlinesIn(source, current, current + 1) = 0
      BY <1>2, <2>2, NoNewlineHere DEF Peek
    <3>2. line' = line
      BY <1>1, <2>2, Zenon
    <3> QED BY <1>4, <3>1, <3>2
  <2> QED BY <2>1, <2>2
<1>6. 1 \in Nat
  OBVIOUS
<1> QED BY <1>1, <1>3, <1>5, <1>6, GoOnInv

LEMMA Unchanged == ASSUME IInv, UNCHANGED vars PROVE IInv'
<1>1. /\ source' = source /\ start' = start /\ current' = current /\ line' = line
      /\ str_interp_braces' = str_interp_braces /\ mode' = mode /\ tokens' = tokens
  BY Zenon DEF vars
<1>2. InvOf(source, start, current, line, str_interp_braces, mode, tokens)
  BY Zenon DEF IInv
<1>3. InvOf(source', start', current', line', str_interp_braces', mode', tokens')
  BY <1>1, <1>2, Zenon
<1> QED BY <1>3, Zenon DEF IInv

\* Characters of a string on one line.
LEMMA GoOnKeeps ==
  ASSUME IInv, mode = "string", NEW count \in Nat, OnLine(current, current + count),
         NEW characters, GoOn(count, characters), line' = line
  PROVE  IInv'
<1>1. current \in Nat
  BY InString
<1>2. NewlinesIn(source, current, current + count) = 0
  BY <1>1, OnLineNone
<1>3. line \in Nat
  <2>1. line = LineAt(source, current) /\ NewlinesIn(source, 1, current) \in Nat
    BY Places
  <2> QED BY <2>1 DEF LineAt
<1>4. line' = line + NewlinesIn(source, current, current + count)
  BY <1>2, <1>3
<1>5. current + count <= EndOfText
  BY Zenon DEF OnLine
<1> QED BY <1>4, <1>5, GoOnInv

LEMMA StringEndKeeps == ASSUME IInv, StringEnd PROVE IInv'
<1>1. /\ mode = "string" /\ Peek(current) \notin {Empty, "\n"}
      /\ CloseString("STRING_LITERAL", current + 1, string)
      /\ str_interp_braces' = str_interp_braces
  BY Zenon DEF StringEnd, Empty
<1>2. OnLine(current, current + 1)
  BY <1>1, InString, OnLineOne
<1>3. "STRING_LITERAL" \in PlainTypes
  BY NamedTypes
<1> QED BY <1>1, <1>2, <1>3, StringDoneKeeps

LEMMA StringUnterminatedKeeps == ASSUME IInv, StringUnterminated PROVE IInv'
<1>1. mode = "string" /\ StringError(current)
  BY Zenon DEF StringUnterminated
<1>2. OnLine(current, current)
  BY InString
<1> QED BY <1>1, <1>2, StringErrorKeeps

LEMMA StringInterpErrorKeeps == ASSUME IInv, StringInterpError PROVE IInv'
<1>1. /\ mode = "string" /\ Peek(current) \notin {Empty, "\n"} /\ StringError(current + 1)
  BY Zenon DEF StringInterpError, Empty
<1>2. OnLine(current, current + 1)
  BY <1>1, InString, OnLineOne
<1> QED BY <1>1, <1>2, StringErrorKeeps

LEMMA StringBadEscapeKeeps == ASSUME IInv, StringBadEscape PROVE IInv'
<1>1. /\ mode = "string" /\ Peek(current) \notin {Empty, "\n"} /\ StringError(current + 1)
  BY Zenon DEF StringBadEscape, Empty
<1>2. OnLine(current, current + 1)
  BY <1>1, InString, OnLineOne
<1> QED BY <1>1, <1>2, StringErrorKeeps

LEMMA Escapable == Empty \notin escapable /\ "\n" \notin escapable
<1>1. ASSUME NEW escape \in escapes PROVE escape[1] \notin {Empty, "\n"}
  <2>1. \E a, b : escape = <<a, b>> /\ a # "" /\ a # "\n"
    BY Zenon DEF escapes
  <2>2. PICK a, b : escape = <<a, b>> /\ a # "" /\ a # "\n"
    BY <2>1
  <2>3. escape[1] = a
    <3>1. escape = <<a, b>>
      BY <2>2, Zenon
    <3> QED BY <3>1
  <2> QED BY <2>2, <2>3, Zenon DEF Empty
<1> QED BY <1>1, Zenon DEF escapable

LEMMA StringEscapeKeeps == ASSUME IInv, StringEscape PROVE IInv'
<1>1. /\ mode = "string" /\ Peek(current) \notin {Empty, "\n"}
      /\ Peek(current + 1) \in escapable /\ line' = line
  BY Zenon DEF StringEscape, Empty
<1>2. \E characters : GoOn(2, characters)
  BY Zenon DEF StringEscape
<1>3. PICK characters : GoOn(2, characters)
  BY <1>2
<1>4. Peek(current + 1) \notin {Empty, "\n"}
  BY <1>1, Escapable, Zenon
<1>5. current \in Nat /\ 1 <= current /\ current <= EndOfText
  BY InString
<1>6. OnLine(current, current + 1)
  BY <1>1, <1>5, OnLineOne
<1>7. OnLine(current, (current + 1) + 1)
  BY <1>4, <1>5, <1>6, OnLineMore
<1>8. (current + 1) + 1 = current + 2 /\ 2 \in Nat
  BY <1>5
<1>9. OnLine(current, current + 2)
  BY <1>7, <1>8, Zenon
<1> QED BY <1>1, <1>3, <1>8, <1>9, GoOnKeeps, Zenon

LEMMA OnLineUpTo ==
  ASSUME NEW p \in Nat, NEW r, OnLine(p, r), EndOfText \in Nat, NEW q \in Nat, p <= q, q <= r
  PROVE  OnLine(p, q)
<1>1. r \in Nat /\ r <= EndOfText /\ \A i \in p..(r - 1) : Peek(i) # "\n"
  BY Zenon DEF OnLine
<1>2. q <= EndOfText
  BY <1>1
<1>3. \A i \in p..(q - 1) : i \in p..(r - 1)
  BY <1>1
<1>4. \A i \in p..(q - 1) : Peek(i) # "\n"
  BY <1>1, <1>3, Zenon
<1> QED BY <1>2, <1>4, Zenon DEF OnLine

LEMMA HexDigitCounts == \A kind \in DOMAIN hex_digits : hex_digits[kind] \in Nat
BY SMT DEF hex_digits

LEMMA StringHexEscapeKeeps == ASSUME IInv, StringHexEscape PROVE IInv'
<1> DEFINE kind == Peek(current + 1)
           first == current + 2
           next == first + hex_digits[kind]
           past == Past(first, HexDigits)
           digits == hex_digits[kind]
<1>1. /\ mode = "string" /\ Peek(current) \notin {Empty, "\n"} /\ kind \in DOMAIN hex_digits
  BY Zenon DEF StringHexEscape, Empty
<1>2. \/ StringError(Min({past, next}))
      \/ /\ ~(past < next) /\ line' = line
         /\ \E characters : GoOn(next - current, characters)
  BY Zenon DEF StringHexEscape
<1>3. digits \in Nat
  BY <1>1, HexDigitCounts
<1>4. current \in Nat /\ 1 <= current /\ current <= EndOfText /\ EndOfText \in Nat
  BY InString
<1>5. kind \notin {Empty, "\n"}
  <2>1. DOMAIN hex_digits = {"x", "u", "U"}
    BY SMT DEF hex_digits
  <2>2. {"x", "u", "U"} \intersect {Empty, "\n"} = {}
    BY Zenon DEF Empty
  <2> HIDE DEF kind
  <2> QED BY <1>1, <2>1, <2>2, Zenon
<1>6. OnLine(current, current + 1)
  BY <1>1, <1>4, OnLineOne
<1>7. OnLine(current, (current + 1) + 1)
  BY <1>4, <1>5, <1>6, OnLineMore
<1>8. (current + 1) + 1 = first /\ first \in Nat /\ current <= first
  BY <1>4
<1>9. OnLine(current, first)
  BY <1>7, <1>8, Zenon
<1>10. OnLine(current, past)
  BY <1>4, <1>9, PlainClasses, OnLinePastMore
<1>11. past \in Nat /\ first <= past
  <2>1. first <= EndOfText /\ 1 <= first
    BY <1>4, <1>8, <1>9 DEF OnLine
  <2>2. OnLine(first, past)
    BY <1>8, <2>1, PlainClasses, OnLinePast
  <2> QED BY <2>2, Zenon DEF OnLine
<1> HIDE DEF past, kind
<1>12. next \in Nat /\ first <= next /\ current <= next
  <2>1. next = first + digits
    OBVIOUS
  <2> HIDE DEF next, first, digits
  <2> QED BY <1>3, <1>4, <1>8, <2>1
<1> HIDE DEF next, first, digits
<1>13. CASE StringError(Min({past, next}))
  <2> DEFINE m == Min({past, next})
  <2>1. m \in {past, next} /\ m <= past
    BY <1>11, <1>12, LeastIsMin
  <2>2. StringError(m)
    BY <1>13
  <2> HIDE DEF m
  <2>3. m \in Nat /\ current <= m
    BY <1>4, <1>8, <1>11, <1>12, <2>1
  <2>4. OnLine(current, m)
    BY <1>4, <1>10, <2>1, <2>3, OnLineUpTo
  <2> QED BY <1>1, <2>2, <2>4, StringErrorKeeps
<1>14. CASE /\ ~(past < next) /\ line' = line
            /\ \E characters : GoOn(next - current, characters)
  <2>1. PICK characters : GoOn(next - current, characters)
    BY <1>14
  <2> DEFINE count == next - current
  <2>2. count \in Nat /\ current + count = next /\ next <= past
    BY <1>4, <1>11, <1>12, <1>14
  <2>3. OnLine(current, next)
    BY <1>4, <1>10, <1>12, <2>2, OnLineUpTo
  <2>4. GoOn(count, characters)
    BY <2>1
  <2> HIDE DEF count
  <2>5. OnLine(current, current + count)
    BY <2>2, <2>3, Zenon
  <2> QED BY <1>1, <1>14, <2>2, <2>4, <2>5, GoOnKeeps
<1> QED BY <1>2, <1>13, <1>14, Zenon

\* One interpolation more, for which there is room.
LEMMA StringInterpKeeps == ASSUME IInv, StringInterp PROVE IInv'
<1> DEFINE counts == str_interp_braces
           next == current + 2
<1>1. /\ mode = "string" /\ Peek(current) \notin {Empty, "\n"}
      /\ Peek(current + 1) \notin {Empty, "\n"}
      /\ CloseString("STRING_INTERP", next, InterpValue)
      /\ str_interp_braces' = Append(counts, 1)
  BY Zenon DEF StringInterp, Empty
<1>2. Len(counts) < MAX_INTERP_DEPTH
  BY Zenon DEF StringInterp, RoomForInterp
<1>3. /\ current \in Nat /\ 1 <= current /\ current <= EndOfText
      /\ start \in Nat /\ start < current /\ counts \in Counted
      /\ CountsOk(current, counts)
  BY <1>1, InString, Places DEF IInv, InvOf
<1>4. OnLine(current, current + 1)
  BY <1>1, <1>3, OnLineOne
<1>5. OnLine(current, (current + 1) + 1)
  BY <1>1, <1>3, <1>4, OnLineMore
<1>6. (current + 1) + 1 = next /\ next \in Nat /\ next - 1 >= start /\ 1 < next /\ current <= next
  BY <1>3
<1>7. OnLine(current, next)
  BY <1>5, <1>6, Zenon
<1> HIDE DEF next
<1>8. NewlinesIn(source, current, next) = 0 /\ next <= EndOfText
  BY <1>3, <1>7, OnLineNone DEF OnLine
<1>9. ASSUME NEW t, t.type = "STRING_INTERP", t.first = start, t.last = next - 1
      PROVE  Counts(AfterToken(source, Open(source, tokens), t)) = Append(counts, 1)
  <2> DEFINE closed == Closed(source, Open(source, tokens), t)
  <2>1. t.last >= t.first
    BY <1>6, <1>9
  <2>2. closed \in Opened /\ Counts(closed) = counts
    BY <1>1, <1>9, <2>1, Resuming
  <2>3. AfterToken(source, Open(source, tokens), t) = Append(closed, "${")
    <3>1. "STRING_INTERP" # "LEFT_BRACE"
      OBVIOUS
    <3> QED BY <1>9, <3>1, Zenon DEF AfterToken
  <2> HIDE DEF closed
  <2>4. "${" \in Brackets
    BY Zenon DEF Brackets
  <2>5. Counts(Append(closed, "${")) = WithBrace(Counts(closed), "${")
    BY <2>2, <2>4, CountsMore, Zenon
  <2> QED BY <2>2, <2>3, <2>5, WithBraceIs, Zenon
<1>10. Leaves("STRING_INTERP", start, next, str_interp_braces')
  BY <1>1, <1>9, Zenon DEF Leaves
<1>11. CountsOk(next, Append(counts, 1))
  <2>1. CountsOk(next, counts)
    BY <1>3, <1>6, CountsLater
  <2>2. \A i \in 1..Len(counts) : counts[i] < next
    BY <2>1, Zenon DEF CountsOk
  <2> DEFINE more == Append(counts, 1)
  <2>3. /\ more \in Counted /\ Len(more) = Len(counts) + 1 /\ more[Len(counts) + 1] = 1
        /\ \A i \in 1..Len(counts) : more[i] = counts[i]
    BY <1>3, AppendProperties DEF Counted
  <2>4. Len(counts) \in Nat
    BY <1>3 DEF Counted
  <2> HIDE DEF more
  <2>5. Len(more) <= MAX_INTERP_DEPTH
    BY <1>2, <2>3, <2>4, ScannerAssumption
  <2>6. ASSUME NEW i \in 1..Len(more) PROVE more[i] < next
    <3>1. CASE i = Len(counts) + 1
      BY <1>6, <2>3, <3>1
    <3>2. CASE i # Len(counts) + 1
      <4>1. i \in 1..Len(counts)
        BY <2>3, <2>4, <3>2
      <4> QED BY <2>2, <2>3, <4>1
    <3> QED BY <3>1, <3>2
  <2>7. CountsOk(next, more)
    BY <2>3, <2>5, <2>6, Zenon DEF CountsOk
  <2> QED BY <2>7 DEF more
<1>12. CountsOk(next, str_interp_braces')
  BY <1>1, <1>11, Zenon
<1>13. "STRING_INTERP" \in TokenTypes
  BY NamedTypes
<1> QED BY <1>1, <1>6, <1>8, <1>10, <1>12, <1>13, CloseStringInv

LEMMA StringLoopKeeps == ASSUME IInv, string_loop PROVE IInv'
<1>1. ASSUME StringReturn PROVE IInv'
  <2>1. UNCHANGED vars
    BY <1>1, Zenon DEF StringReturn
  <2> QED BY <2>1, Unchanged
<1> QED BY <1>1, StringCharacterKeeps, StringEndKeeps, StringUnterminatedKeeps,
           StringInterpKeeps, StringInterpErrorKeeps, StringEscapeKeeps,
           StringHexEscapeKeeps, StringBadEscapeKeeps, Zenon DEF string_loop

-----------------------------------------------------------------------------
(***************************************************************************)
(* The theorems.                                                           *)
(***************************************************************************)
LEMMA InitInv == ASSUME Init PROVE IInv
<1>1. /\ source \in Texts /\ start = 1 /\ current = 1 /\ line = 1
      /\ str_interp_braces = <<>> /\ mode = "scan" /\ tokens = <<>>
  BY Zenon DEF Init
<1>2. IsText(source) /\ Len(source) \in Nat
  BY <1>1, ScannerAssumption DEF IsText
<1>3. PlacesOk(source, 1, 1, "scan")
  <2>1. 1 \in 1..Len(source) + 1 /\ "scan" # "string"
    BY <1>2
  <2> QED BY <2>1, Zenon DEF PlacesOk
<1>4. 1 = LineAt(source, 1)
  <2>1. NewlinesIn(source, 1, 1) = 0
    <3>1. 1 \in Nat /\ \A p \in 1..(1 - 1) : At(source, p) # "\n"
      OBVIOUS
    <3> QED BY <3>1, NewlinesNone
  <2> QED BY <2>1 DEF LineAt
<1>5. TokensOk(source, <<>>)
  <2>1. <<>> \in Seq({}) /\ Len(<<>>) = 0
    BY EmptySeq
  <2>2. \A i \in 1..Len(<<>>) : TokenOk(source, <<>>[i])
    BY <2>1
  <2> QED BY <2>1, <2>2, Zenon DEF TokensOk, IsSequence
<1>6. CountsOk(1, <<>>)
  <2>1. <<>> \in Counted /\ Len(<<>>) = 0
    BY EmptySeq DEF Counted
  <2>2. Len(<<>>) <= MAX_INTERP_DEPTH /\ \A i \in 1..Len(<<>>) : <<>>[i] < 1
    BY <2>1, ScannerAssumption
  <2> QED BY <2>1, <2>2, Zenon DEF CountsOk
<1>7. NestOk(source, 1, <<>>, "scan", <<>>)
  <2>1. Counts(Open(source, <<>>)) = <<>>
    BY OpenNothing, CountsNothing, Zenon
  <2>2. "scan" # "string"
    OBVIOUS
  <2> QED BY <2>1, <2>2, Zenon DEF NestOk, IsResumed
<1>8. InvOf(source, 1, 1, 1, <<>>, "scan", <<>>)
  BY <1>2, <1>3, <1>4, <1>5, <1>6, <1>7, Zenon DEF InvOf
<1> QED BY <1>1, <1>8, Zenon DEF IInv

LEMMA NextInv == ASSUME IInv, [Next]_vars PROVE IInv'
BY ScanTokenKeeps, StringLoopKeeps, Unchanged, Zenon DEF Next

LEMMA TypeInv == ASSUME IInv PROVE TypeOK
<1>1. /\ Len(source) \in Nat /\ EndOfText = Len(source) + 1
      /\ start \in Nat /\ current \in Nat /\ 1 <= start /\ start <= current
      /\ current <= EndOfText /\ line = LineAt(source, current)
      /\ NewlinesIn(source, 1, current) \in Nat
  BY Places, InString
<1>2. /\ PlacesOk(source, start, current, mode) /\ TokensOk(source, tokens)
      /\ CountsOk(current, str_interp_braces)
  BY Zenon DEF IInv, InvOf
<1>3. start \in 1..EndOfText /\ current \in start..EndOfText
  BY <1>1
<1>4. line \in 1..Len(source) + 1
  <2>1. NewlinesIn(source, 1, current) <= current - 1
    <3>1. 1 \in Nat /\ 1 <= current
      BY <1>1
    <3> QED BY <1>1, <3>1, NewlinesFew
  <2>2. line = 1 + NewlinesIn(source, 1, current)
    BY <1>1, Zenon DEF LineAt
  <2> QED BY <1>1, <2>1, <2>2
<1>5. str_interp_braces \in BoundedSeq(1..Len(source), MAX_INTERP_DEPTH)
  <2> DEFINE counts == str_interp_braces
             m == Len(counts)
  <2>1. counts \in Counted /\ m <= MAX_INTERP_DEPTH /\ \A i \in 1..m : counts[i] < current
    BY <1>2, Zenon DEF CountsOk
  <2>2. m \in 0..MAX_INTERP_DEPTH /\ counts = [i \in 1..m |-> counts[i]]
    BY <2>1, ScannerAssumption DEF Counted
  <2>3. \A i \in 1..m : counts[i] \in 1..Len(source)
    <3>1. \A i \in 1..m : counts[i] \in Nat \ {0}
      BY <2>1, ElementOfSeq DEF Counted
    <3> QED BY <1>1, <2>1, <3>1
  <2>4. counts \in [1..m -> 1..Len(source)]
    <3> HIDE DEF counts, m
    <3> QED BY <2>2, <2>3
  <2> HIDE DEF counts, m
  <2>5. counts \in BoundedSeq(1..Len(source), MAX_INTERP_DEPTH)
    BY <2>2, <2>4, Zenon DEF BoundedSeq, SeqOf
  <2> QED BY <2>5 DEF counts
<1>6. mode \in {"scan", "string", "done"}
  BY <1>2, Zenon DEF PlacesOk
<1>7. \A i \in DOMAIN tokens :
        /\ tokens[i].type \in Types \union {"ERROR", "END_OF_FILE"}
        /\ tokens[i].first \in 1..EndOfText
        /\ tokens[i].last \in tokens[i].first - 1..Len(source)
  <2>1. IsSequence(tokens) /\ \A i \in 1..Len(tokens) : TokenOk(source, tokens[i])
    BY <1>2, Zenon DEF TokensOk
  <2>2. DOMAIN tokens = 1..Len(tokens)
    BY <2>1 DEF IsSequence
  <2>3. ASSUME NEW t, TokenOk(source, t)
        PROVE  /\ t.type \in Types \union {"ERROR", "END_OF_FILE"}
               /\ t.first \in 1..EndOfText /\ t.last \in t.first - 1..Len(source)
    BY <1>1, <2>3, Zenon DEF TokenOk, TokenTypes
  <2> QED BY <2>1, <2>2, <2>3, Zenon
<1> QED BY <1>3, <1>4, <1>5, <1>6, <1>7, Zenon DEF TypeOK

LEMMA NestInv == ASSUME IInv PROVE NestingMatches
<1>1. TypeOK
  BY TypeInv
<1>2. NestOk(source, start, str_interp_braces, mode, tokens)
  BY Zenon DEF IInv, InvOf
<1>3. ASSUME mode # "string" \/ At(source, start) # "}"
      PROVE  str_interp_braces = Counts(Open(source, tokens))
  <2>1. ~IsResumed(source, start, mode)
    BY <1>3, Zenon DEF IsResumed, CloseBrace
  <2> QED BY <1>2, <2>1, Zenon DEF NestOk
<1> QED BY <1>1, <1>3, Zenon DEF NestingMatches

LEMMA LinesInv == ASSUME IInv PROVE LinesCounted
<1>1. TokensOk(source, tokens)
  BY Zenon DEF IInv, InvOf
<1>2. IsSequence(tokens) /\ \A i \in 1..Len(tokens) : TokenOk(source, tokens[i])
  BY <1>1, Zenon DEF TokensOk
<1>3. DOMAIN tokens = 1..Len(tokens)
  BY <1>2 DEF IsSequence
<1>4. ASSUME NEW i \in DOMAIN tokens
      PROVE  tokens[i].line = 1 + Newlines(1, tokens[i].last + 1)
  <2>1. tokens[i].line = LineAt(source, tokens[i].last + 1)
    BY <1>2, <1>3, Zenon DEF TokenOk
  <2> QED BY <2>1, NewlinesAre, Zenon DEF LineAt
<1> QED BY <1>4, Zenon DEF LinesCounted

LEMMA Invariant == Spec => []IInv
<1>1. Init => IInv
  BY InitInv
<1>2. IInv /\ [Next]_vars => IInv'
  BY NextInv
<1> QED BY <1>1, <1>2, PTL DEF Spec

\* Places, the line, counts and tokens are of their types: what is read stays
\* in the text, and no more braces are counted than characters were read.
THEOREM TypeCorrect == Spec => []TypeOK
<1>1. IInv => TypeOK
  BY TypeInv
<1> QED BY <1>1, Invariant, PTL

\* The brace that closes an interpolation, and resumes the string, is the one
\* that matches it, however deep interpolations and blocks are nested, and no
\* more interpolations are open than the scanner has room to count braces for.
THEOREM InterpolationsNest == Spec => []NestingMatches
<1>1. IInv => NestingMatches
  BY NestInv
<1> QED BY <1>1, Invariant, PTL

\* Every token has the line of its last character.
THEOREM LinesRight == Spec => []LinesCounted
<1>1. IInv => LinesCounted
  BY LinesInv
<1> QED BY <1>1, Invariant, PTL
=============================================================================
