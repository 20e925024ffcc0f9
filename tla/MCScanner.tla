------------------------------ MODULE MCScanner ------------------------------
(* Instances of Scanner for model checking. *)
EXTENDS Scanner

\* All texts of up to n of the pieces.
Spelled(pieces, n) ==
  LET texts[k \in 0..n] ==
        IF k = 0 THEN {""}
        ELSE texts[k - 1] \union {t \o p : t \in texts[k - 1], p \in pieces}
  IN texts[n]

\* Interpolations, in strings and in one another, and the braces of blocks.
InterpTexts ==
  Spelled({"\"", "${", "}"}, 7) \union Spelled({"\"", "${", "{", "}"}, 6)
StringTexts ==
  Spelled({"\"", "\\", "$", "n", "x4a", "u00e9", "uD800", "U0001F64A", "\n"}, 4)
NumberTexts == Spelled({"0", "1", "x", "e", "_", ".", "f"}, 5)
MarkTexts == Spelled({"=", "!", "<", "-", "#", "@", " ", "\n", "a1"}, 4)
RawTexts == Spelled({"\"\"\"", "\"", "\n", "a", "${"}, 5)
ReturnTexts == Spelled({"\"", "\r", "a"}, 3)
EndTexts == Spelled({"\"\"\"", "\\", "${", "}", "\n", "#", "1."}, 4)

\* Every keyword as it is, cut short, with a letter more and with one changed.
Variants(w) ==
  {w, w \o "x"} \union {SubSeq(w, 1, n) : n \in 1..Len(w) - 1}
  \union {SubSeq(w, 1, n - 1) \o c \o SubSeq(w, n + 1, Len(w)) :
            n \in 1..Len(w), c \in {"a", "n", "s", "1", " "}}
Words == UNION {Variants(w) : w \in DOMAIN Keywords}

AllTexts == InterpTexts \union StringTexts \union NumberTexts \union MarkTexts
              \union RawTexts \union EndTexts \union ReturnTexts
              \union Words
=============================================================================
