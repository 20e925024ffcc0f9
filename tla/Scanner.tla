------------------------------- MODULE Scanner -------------------------------
(***************************************************************************)
(* The scanner of scanner_inl.hxx.  One action per branch of scan_token,   *)
(* and, for a string literal, whose loop changes the braces, the line and  *)
(* the string under construction, one per turn of that loop.  The loops    *)
(* that only move over a class of characters are one step: where they stop.*)
(*                                                                         *)
(* A position p stands for the pointer to the p-th character; current is   *)
(* the first one not read yet.                                             *)
(***************************************************************************)
EXTENDS Lexemes, SequencesExt

CONSTANTS Texts,             \* the sources given to a scanner
          MAX_INTERP_DEPTH   \* how deep "${" may nest

\* A text has a length, as its parts do, and as many characters.
IsText(text) ==
  /\ Len(text) \in Nat
  /\ \A p \in 1..Len(text) :
       At(text, p) # Empty /\ \A q \in p..Len(text) : Len(SubSeq(text, p, q)) \in Nat

ASSUME ScannerAssumption ==
  MAX_INTERP_DEPTH \in Nat /\ \A text \in Texts : IsText(text)

VARIABLES source, start, current, line,
          str_interp_braces,   \* open braces of each "${", itself counted
          string,              \* the string literal read, character by character
          mode,                \* "scan", in the loop of "string", or "done"
          tokens               \* the tokens handed out

vars == <<source, start, current, line, str_interp_braces, string, mode,
          tokens>>

is_digit(chr) == chr \in Digits
is_alpha(chr) == chr \in Letters

Peek(p) == At(source, p)
EndOfText == Len(source) + 1
is_at_end(p) == p = EndOfText

\* Where a loop that advances over such characters from p on stops.
Past(p, class) == Min({q \in p..EndOfText : Peek(q) \notin class})

Newlines(from, to) == Cardinality({p \in from..to - 1 : Peek(p) = "\n"})

skip_whitespace(p) ==
  LET skip[q \in 1..EndOfText] ==
        IF Peek(q) \in {" ", "\r", "\t", "\n"} THEN skip[q + 1]
        ELSE IF Peek(q) = "#" THEN skip[Past(q, Chars(source) \ {"\n"})]
        ELSE q
  IN skip[p]

(***************************************************************************)
(* Tokens.  value is the string of a string literal, the number of an      *)
(* integer, and none otherwise; floats are not computed with.              *)
(***************************************************************************)
None == <<>>

Token(type, first, next, at, value) ==
  [type |-> type, first |-> first, last |-> next - 1, line |-> at,
   value |-> value]

\* scan_token reads a token from the first character that is not white
\* space up to next, passing newlines of its own if it is a raw string.
Read(type, next, newlines, value) ==
  LET first == skip_whitespace(current)
      at == line + Newlines(current, first) + newlines
  IN /\ start' = first /\ current' = next /\ line' = at
     /\ tokens' = Append(tokens, Token(type, first, next, at, value))
     /\ UNCHANGED <<source, string>>

First == skip_whitespace(current)

(***************************************************************************)
(* Identifiers and keywords.  identifier_type switches on the characters   *)
(* of a prefix and compares the rest of the word.                          *)
(***************************************************************************)
words ==
  {<<"an", "d", "AND">>, <<"asy", "nc", "ASYNC">>, <<"as", Empty, "AS">>,
   <<"aw", "ait", "AWAIT">>, <<"b", "reak", "BREAK">>,
   <<"c", "ontinue", "CONTINUE">>, <<"e", "lse", "ELSE">>,
   <<"fa", "lse", "FALSE">>, <<"fo", "r", "FOR">>, <<"fn", Empty, "FN">>,
   <<"if", Empty, "IF">>, <<"im", "port", "IMPORT">>, <<"ino", "ut", "INOUT">>,
   <<"in", Empty, "IN">>, <<"is", Empty, "IS">>, <<"le", "t", "LET">>,
   <<"lo", "op", "LOOP">>, <<"n", "il", "NIL">>, <<"m", "atch", "MATCH">>,
   <<"ou", "t", "OUT">>, <<"or", Empty, "OR">>, <<"r", "eturn", "RETURN">>,
   <<"se", "lf", "SELF">>, <<"st", "ruct", "STRUCT">>, <<"su", "per", "SUPER">>,
   <<"t", "rue", "TRUE">>, <<"v", "ar", "VAR">>, <<"w", "hile", "WHILE">>,
   <<"A", "ny", "ANY_TYPE">>, <<"B", "ool", "BOOL_TYPE">>,
   <<"C", "har", "CHAR_TYPE">>, <<"Fl", "oat", "FLOAT_TYPE">>,
   <<"Fn", Empty, "FN_TYPE">>, <<"I", "nt", "INT_TYPE">>, <<"N", "il", "NIL_TYPE">>,
   <<"S", "tr", "STR_TYPE">>}

branches ==
  [prefix \in {word[1] : word \in words} |->
     CHOOSE word \in words : word[1] = prefix]

identifier_type(word) ==
  LET taken == {n \in 1..Len(word) : SubSeq(word, 1, n) \in DOMAIN branches}
      branch == branches[SubSeq(word, 1, Max(taken))]
  IN IF taken # {} /\ branch[2] = SubSeq(word, Max(taken) + 1, Len(word))
     THEN branch[3] ELSE "IDENTIFIER"

Identifier ==
  LET next == Past(First + 1, Letters \union Digits)
  IN /\ mode = "scan" /\ is_alpha(Peek(First))
     /\ Read(identifier_type(SubSeq(source, First, next - 1)), next, 0, None)
     /\ UNCHANGED <<str_interp_braces, mode>>

(***************************************************************************)
(* Numbers.  Numeral is what std::from_chars reads of the digits without   *)
(* the separators, MaxInt + 1 standing for a result out of range.          *)
(***************************************************************************)
DigitOrSeparator == Digits \union {"_"}

digit_value ==
  [c \in HexDigits |->
     CHOOSE n \in 0..15 :
       \E k \in {n + 1} : c \in {At("0123456789abcdef", k),
                                 At("0123456789ABCDEF", k)}]

Numeral(from, to, base) ==
  LET more(n, p) == IF Peek(p) = "_" THEN n
                    ELSE Min({n * base + digit_value[Peek(p)], MaxInt + 1})
  IN FoldLeft(more, 0, [i \in 1..to - from |-> from + i - 1])

WholeEnd == Past(First + 1, DigitOrSeparator)

\* Mutant: any "." after the digits belongs to the number.
FractionEndAnyDot ==
  IF Peek(WholeEnd) = "."
  THEN Past(WholeEnd + 1, DigitOrSeparator) ELSE WholeEnd

FractionEnd ==
  IF Peek(WholeEnd) = "." /\ Peek(WholeEnd + 1) \in DigitOrSeparator
  THEN Past(WholeEnd + 1, DigitOrSeparator) ELSE WholeEnd

\* match('e') or match('E'), then match('+') or else match('-').
MarkEnd ==
  IF Peek(FractionEnd) \notin {"e", "E"} THEN FractionEnd
  ELSE IF Peek(FractionEnd + 1) \in {"+", "-"} THEN FractionEnd + 2
  ELSE FractionEnd + 1

InRange(n) == n <= MaxInt

Number ==
  LET exponent == MarkEnd > FractionEnd
      next == IF exponent THEN Past(MarkEnd, DigitOrSeparator) ELSE FractionEnd
      float == exponent \/ FractionEnd > WholeEnd
      value == Numeral(First, next, 10)
  IN /\ mode = "scan" /\ is_digit(Peek(First))
     /\ ~(Peek(First) = "0" /\ Peek(First + 1) \in {"x", "X"})
     /\ IF \/ exponent /\ Peek(MarkEnd) \notin DigitOrSeparator
           \/ next - First > MAX_CHARS_IN_NUMERIC_LITERAL
           \/ ~float /\ ~InRange(value)
        THEN Read("ERROR", next, 0, None)
        ELSE IF float THEN Read("FLOAT_LITERAL", next, 0, None)
        ELSE Read("INTEGER_LITERAL", next, 0, <<value>>)
     /\ UNCHANGED <<str_interp_braces, mode>>

HexNumber ==
  LET next == Past(First + 2, HexDigits \union {"_"})
      value == Numeral(First + 2, next, 16)
  IN /\ mode = "scan" /\ Peek(First) = "0" /\ Peek(First + 1) \in {"x", "X"}
     /\ IF next - First > MAX_CHARS_IN_NUMERIC_LITERAL \/ ~InRange(value)
        THEN Read("ERROR", next, 0, None)
        ELSE Read("INTEGER_LITERAL", next, 0, <<value>>)
     /\ UNCHANGED <<str_interp_braces, mode>>

(***************************************************************************)
(* Raw strings.                                                            *)
(***************************************************************************)
Quotes(p) == \A i \in p..p + 2 : Peek(i) = "\""

\* The characters that substr takes of a raw lexeme: when its length comes
\* out below zero, it takes all there are.
RawValue(first, next) ==
  LET begin == IF Peek(first + 3) = "\n" THEN 4 ELSE 3
      end == IF Peek(next - 4) = "\n" THEN 4 ELSE 3
      last == IF next - first - begin - end < 0 THEN next - 1
              ELSE next - 1 - end
  IN [i \in 1..last - first - begin + 1 |-> Peek(first + begin + i - 1)]

\* Mutant: the lines a raw string runs over are not counted.
RawLines(from, to) == 0

Lines(from, to) == Newlines(from, to)

RawString ==
  LET closing == {p \in First + 3..EndOfText : Quotes(p)}
      close == IF closing = {} THEN EndOfText ELSE Min(closing)
  IN /\ mode = "scan" /\ Quotes(First)
     /\ IF closing = {}
        THEN Read("ERROR", EndOfText, Lines(First + 3, close), None)
        ELSE Read("STRING_LITERAL", close + 3, Lines(First + 3, close),
                  RawValue(First, close + 3))
     /\ UNCHANGED <<str_interp_braces, mode>>

(***************************************************************************)
(* String literals: one turn of the loop of string() at a time.            *)
(***************************************************************************)
OpenString(next) ==
  /\ start' = First /\ current' = next
  /\ line' = line + Newlines(current, First)
  /\ mode' = "string" /\ string' = <<>>
  /\ UNCHANGED <<source, tokens>>

Quote ==
  /\ mode = "scan" /\ Peek(First) = "\"" /\ ~Quotes(First)
  /\ OpenString(First + 1)
  /\ UNCHANGED str_interp_braces

CloseString(type, next, value) ==
  /\ tokens' = Append(tokens, Token(type, start, next, line, value))
  /\ current' = next /\ mode' = "scan" /\ string' = <<>>
  /\ UNCHANGED <<source, start, line>>

StringError(next) ==
  CloseString("ERROR", next, None) /\ UNCHANGED str_interp_braces

GoOn(count, characters) ==
  /\ current' = current + count
  /\ string' = string \o characters
  /\ UNCHANGED <<source, start, str_interp_braces, mode, tokens>>

StringCharacter ==
  LET chr == Peek(current)
  IN /\ mode = "string" /\ chr \notin {Empty, "\"", "\r", "$", "\\"}
     /\ GoOn(1, <<chr>>)
     /\ line' = IF chr = "\n" THEN line + 1 ELSE line

\* A carriage return: the loop goes round without moving.
StringReturn ==
  mode = "string" /\ Peek(current) = "\r" /\ UNCHANGED vars

StringEnd ==
  /\ mode = "string" /\ Peek(current) = "\""
  /\ CloseString("STRING_LITERAL", current + 1, string)
  /\ UNCHANGED str_interp_braces

\* Mutant: the loop is not left at the end of the text.
TextGoesOn == FALSE

TextRanOut == is_at_end(current)

StringUnterminated ==
  mode = "string" /\ TextRanOut /\ StringError(current)

\* The string_view from begin() + 1 to end() - 2; for a shorter string it
\* would end before it begins.
InterpValue == IF Len(string) >= 3 THEN SubSeq(string, 2, Len(string) - 2)
               ELSE <<"undefined">>

\* Mutant: one "${" more than there is room for.
RoomForOneMore == Len(str_interp_braces) <= MAX_INTERP_DEPTH

RoomForInterp == Len(str_interp_braces) < MAX_INTERP_DEPTH

StringInterp ==
  /\ mode = "string" /\ Peek(current) = "$" /\ Peek(current + 1) = "{"
  /\ RoomForInterp
  /\ CloseString("STRING_INTERP", current + 2, InterpValue)
  /\ str_interp_braces' = Append(str_interp_braces, 1)

StringInterpError ==
  /\ mode = "string" /\ Peek(current) = "$"
  /\ Peek(current + 1) # "{" \/ ~RoomForInterp
  /\ StringError(current + 1)

\* What follows a backslash, but for the escapes with digits.
escapes ==
  {<<"\\", "\\">>, <<"\"", "\"">>, <<"$", "$">>, <<"0", "#0">>, <<"a", "#7">>,
   <<"b", "#8">>, <<"e", "#27">>, <<"f", "\f">>, <<"n", "\n">>, <<"r", "\r">>,
   <<"t", "\t">>, <<"v", "#11">>}

escapable == {escape[1] : escape \in escapes}

StringEscape ==
  /\ mode = "string" /\ Peek(current) = "\\"
  /\ Peek(current + 1) \in escapable
  /\ \E escape \in escapes :
       Peek(current + 1) = escape[1] /\ GoOn(2, <<escape[2]>>)
  /\ UNCHANGED line

(***************************************************************************)
(* hex_escape and utf8_escape: how many digits, and the bytes of the value *)
(* they have; none for what is no Unicode character.                       *)
(***************************************************************************)
hex_digits == [x |-> 2, u |-> 4, U |-> 8]

utf8_encode(v) ==
  LET byte(mark, shift) == mark + ((v \div shift) % 64)
  IN IF v < 128 THEN <<v>>
     ELSE IF v < 2048 THEN <<192 + v \div 64, byte(128, 1)>>
     ELSE IF v \in 55296..57343 \/ v > 1114111 THEN <<>>
     ELSE IF v < 65536
     THEN <<224 + v \div 4096, byte(128, 64), byte(128, 1)>>
     ELSE <<240 + v \div 262144, byte(128, 4096), byte(128, 64),
            byte(128, 1)>>

\* What four or eight digits are worth, 1114112 standing for all above.
code_point(from, n) ==
  FoldLeft(LAMBDA v, p : Min({v * 16 + digit_value[Peek(p)], 1114112}), 0,
           [i \in 1..n |-> from + i - 1])

StringHexEscape ==
  LET kind == Peek(current + 1)
      first == current + 2
      next == first + hex_digits[kind]
      v == code_point(first, hex_digits[kind])
      bytes == IF kind = "x" THEN <<v>> ELSE utf8_encode(v)
  IN /\ mode = "string" /\ Peek(current) = "\\" /\ kind \in DOMAIN hex_digits
     /\ IF Past(first, HexDigits) < next \/ bytes = <<>>
        THEN StringError(Min({Past(first, HexDigits), next}))
        ELSE /\ GoOn(next - current, [i \in DOMAIN bytes |->
                                        "#" \o ToString(bytes[i])])
             /\ UNCHANGED line

StringBadEscape ==
  /\ mode = "string" /\ Peek(current) = "\\"
  /\ Peek(current + 1) \notin escapable \union DOMAIN hex_digits
  /\ StringError(current + 1)

(***************************************************************************)
(* The rest of scan_token.                                                 *)
(***************************************************************************)
EndOfFile ==
  /\ mode = "scan" /\ is_at_end(First)
  /\ Read("END_OF_FILE", First, 0, None)
  /\ mode' = "done" /\ UNCHANGED str_interp_braces

AddToLast(n) == [str_interp_braces EXCEPT ![Len(str_interp_braces)] = @ + n]

\* Mutant: a brace in an interpolated expression is not counted.
UncountedBrace == str_interp_braces

CountedBrace ==
  IF str_interp_braces = <<>> THEN <<>> ELSE AddToLast(1)

LeftBrace ==
  /\ mode = "scan" /\ Peek(First) = "{"
  /\ Read("LEFT_BRACE", First + 1, 0, None)
  /\ str_interp_braces' = CountedBrace /\ UNCHANGED mode

RightBrace ==
  /\ mode = "scan" /\ Peek(First) = "}"
  /\ IF str_interp_braces # <<>> /\ Last(str_interp_braces) = 1
     THEN /\ str_interp_braces' = Front(str_interp_braces)
          /\ OpenString(First + 1)
     ELSE /\ str_interp_braces' = IF str_interp_braces = <<>> THEN <<>>
                                  ELSE AddToLast(-1)
          /\ Read("RIGHT_BRACE", First + 1, 0, None)
          /\ UNCHANGED mode

\* A mark, its type, and its type when "=" follows, if there is one.
punctuation ==
  {<<"(", "LEFT_PAREN", "NONE">>, <<")", "RIGHT_PAREN", "NONE">>,
   <<"[", "LEFT_BRACKET", "NONE">>, <<"]", "RIGHT_BRACKET", "NONE">>,
   <<":", "COLON", "NONE">>, <<";", "SEMICOLON", "NONE">>, <<",", "COMMA", "NONE">>,
   <<".", "DOT", "NONE">>, <<"-", "MINUS", "NONE">>, <<"|", "PIPE", "NONE">>,
   <<"+", "PLUS", "NONE">>, <<"/", "SLASH", "NONE">>, <<"*", "STAR", "NONE">>,
   <<"!", "BANG", "BANG_EQUAL">>, <<"=", "EQUAL", "EQUAL_EQUAL">>,
   <<"<", "LEFT_CHEVRON", "LESS_EQUAL">>,
   <<">", "RIGHT_CHEVRON", "GREATER_EQUAL">>}

marks == {mark[1] : mark \in punctuation}

Punctuation ==
  /\ mode = "scan" /\ Peek(First) \in marks
  /\ \E mark \in punctuation :
       /\ Peek(First) = mark[1]
       /\ IF mark[3] # "NONE" /\ Peek(First + 1) = "="
          THEN Read(mark[3], First + 2, 0, None)
          ELSE Read(mark[2], First + 1, 0, None)
  /\ UNCHANGED <<str_interp_braces, mode>>

Unexpected ==
  /\ mode = "scan" /\ ~is_at_end(First)
  /\ Peek(First) \notin marks \union {"{", "}", "\""}
  /\ ~is_alpha(Peek(First)) /\ ~is_digit(Peek(First))
  /\ Read("ERROR", First + 1, 0, None)
  /\ UNCHANGED <<str_interp_braces, mode>>

scan_token ==
  \/ EndOfFile \/ LeftBrace \/ RightBrace \/ Punctuation \/ Quote
  \/ RawString \/ HexNumber \/ Number \/ Identifier \/ Unexpected

string_loop ==
  \/ StringCharacter \/ StringReturn \/ StringEnd \/ StringUnterminated
  \/ StringInterp \/ StringInterpError \/ StringEscape \/ StringHexEscape
  \/ StringBadEscape

Init ==
  /\ source \in Texts
  /\ start = 1 /\ current = 1 /\ line = 1
  /\ str_interp_braces = <<>> /\ string = <<>> /\ mode = "scan"
  /\ tokens = <<>>

Next == scan_token \/ string_loop

Spec == Init /\ [][Next]_vars

\* One thread, which does nothing else until the text is read.
FairSpec == Spec /\ WF_vars(Next)

(***************************************************************************)
(* Properties.                                                             *)
(***************************************************************************)

\* The type invariant.
TypeOK ==
  /\ start \in 1..EndOfText /\ current \in start..EndOfText
  /\ line \in 1..Len(source) + 1
  /\ str_interp_braces \in BoundedSeq(1..Len(source), MAX_INTERP_DEPTH)
  /\ mode \in {"scan", "string", "done"}
  /\ \A i \in DOMAIN tokens :
       /\ tokens[i].type \in Types \union {"ERROR", "END_OF_FILE"}
       /\ tokens[i].first \in 1..EndOfText
       /\ tokens[i].last \in tokens[i].first - 1..Len(source)

Lexeme(token) == SubSeq(source, token.first, token.last)

\* What the tokens read of a text leave open: an opening brace, whether of a
\* block or of an interpolation, is closed by the next closing one.
Closed(text, open, token) ==
  IF At(text, token.first) = "}" /\ token.last >= token.first /\ open # <<>>
  THEN Front(open) ELSE open

AfterToken(text, open, token) ==
  CASE token.type = "LEFT_BRACE" -> Append(open, "{")
    [] token.type = "STRING_INTERP" -> Append(Closed(text, open, token), "${")
    [] OTHER -> Closed(text, open, token)

Open(text, read) ==
  LET open[n \in 0..Len(read)] ==
        IF n = 0 THEN <<>> ELSE AfterToken(text, open[n - 1], read[n])
  IN open[Len(read)]

\* How many braces are open in each of the interpolations, itself counted.
WithBrace(counts, brace) ==
  IF brace = "${" THEN Append(counts, 1)
  ELSE IF counts = <<>> THEN <<>>
  ELSE [counts EXCEPT ![Len(counts)] = @ + 1]

Counts(open) ==
  LET counts[n \in 0..Len(open)] ==
        IF n = 0 THEN <<>> ELSE WithBrace(counts[n - 1], open[n])
  IN counts[Len(open)]

\* The last token read is the longest lexeme of any type at its place, keywords and interpolations
\* included; where the scanner reports an error no lexeme reaches as far, or
\* it is a number too long or too large.
LongestLexeme ==
  tokens # <<>> /\ Last(tokens).type # "END_OF_FILE" =>
    LET token == Last(tokens)
        open == Open(source, Front(tokens))
        word == Lexeme(token)
        Is(type, w) == IsLexeme(type, w, open, MAX_INTERP_DEPTH)
        longest == ~\E q \in token.last + 1..Len(source), type \in Types :
                      Is(type, SubSeq(source, token.first, q))
    IN IF token.type # "ERROR" THEN Is(token.type, word) /\ longest
       ELSE \/ longest /\ ~\E type \in Types : Is(type, word)
            \/ IsInteger(word) \/ IsFloat(word)

\* The counts of braces kept for the "${" that are open are those of the
\* tokens handed out: the one that closes an interpolation, and resumes the
\* string, is the one that matches it, with blocks inside it or around it.
\* (While a string is resumed its token is still to come.)  No more are open
\* than the array of counts has room for.
NestingMatches ==
  /\ TypeOK
  /\ mode # "string" \/ At(source, start) # "}" =>
       str_interp_braces = Counts(Open(source, tokens))

\* Every token is on the line of its last character, whatever newlines came
\* before it in white space, after comments, in strings and in raw strings.
LinesCounted ==
  \A i \in DOMAIN tokens :
    tokens[i].line = 1 + Newlines(1, tokens[i].last + 1)

\* Tokens are what the lexical grammar says, and on the line they are on.
TokensAsWritten == LongestLexeme /\ LinesCounted

\* Every text is read to its end, or the scanner has come to a carriage return
\* in a string, which it never passes.
Terminates == <>(mode = "done" \/ (mode = "string" /\ Peek(current) = "\r"))
=============================================================================
