-------------------------------- MODULE Jsmn --------------------------------
(***************************************************************************)
(* The JSON tokenizer (user/jsmn.c, built without JSMN_PARENT_LINKS and    *)
(* JSMN_STRICT).  A text is a sequence of characters: the seven that have  *)
(* a meaning (the quote is "q", the backslash "b"), the space, the letter  *)
(* "u" of an escape, "n" that may be escaped, "x" that may not and is no   *)
(* digit, digits, and "bad", which is no printable character.  Tokens are  *)
(* numbered from 1 and 0 stands for -1; positions are those of C.          *)
(***************************************************************************)
EXTENDS Integers, Sequences, FiniteSetsExt

CONSTANTS NumTokens,      \* the tokens there is room for
          Texts           \* what is parsed

VARIABLES js, pos,        \* the text, and parser->pos
          tokens, toksuper,
          count, result   \* result is 1 while jsmn_parse runs

jsmnVars == <<js, pos, tokens, toksuper, count, result>>

NOMEM == -1
INVAL == -2
PART == -3
Running == 1
Parsed == 0
Digits == {"1", "2", "3"}

\* jsmn_init with the text of the call.
Begin(text) ==
    /\ js' = text /\ pos' = 0 /\ tokens' = <<>> /\ toksuper' = 0 /\ count' = 0 /\ result' = Running

JsmnInit ==
    /\ js \in Texts
    /\ pos = 0 /\ tokens = <<>> /\ toksuper = 0 /\ count = 0 /\ result = Running

JsmnTypeOK ==
    /\ pos \in 0..Len(js) + 1
    /\ Len(tokens) <= NumTokens
    /\ toksuper \in 0..Len(tokens)
    /\ result \in {NOMEM, INVAL, PART, Running, Parsed}
-----------------------------------------------------------------------------
Char(p) == js[p + 1]
At(c) == result = Running /\ pos < Len(js) /\ Char(pos) \in c

Stop(r) == result' = r /\ UNCHANGED <<js, pos, tokens, toksuper, count>>

\* A faulty Sized, which does not count.
Sized_Not(t) == t

\* The tokens, with one more in the superior of the next one.
Sized(t) == IF toksuper = 0 THEN t ELSE [t EXCEPT ![toksuper].size = @ + 1]

Token(type, start, end) == [type |-> type, start |-> start, end |-> end, size |-> 0]

\* A faulty Full, with one token left over.
Full_Early == Len(tokens) + 1 = NumTokens

\* Is there no token left? (jsmn_alloc_token)
Full == Len(tokens) = NumTokens

Open ==
    /\ At({"{", "["})
    /\ IF Full
       THEN result' = NOMEM /\ UNCHANGED <<pos, tokens, toksuper>>
       ELSE /\ tokens' = Append(Sized(tokens), Token(Char(pos), pos, -1))
            /\ toksuper' = Len(tokens) + 1
            /\ pos' = pos + 1
            /\ UNCHANGED result
    /\ count' = count + 1
    /\ UNCHANGED js

\* The tokens that are open, and the last of them, 0 if there is none.
Opens(t) == {k \in DOMAIN t : t[k].type \in {"{", "["} /\ t[k].end = -1}
\* A faulty LastOpen, which closes the outermost bracket.
LastOpen_First(t) == IF Opens(t) = {} THEN 0 ELSE Min(Opens(t))

LastOpen(t) == Max(Opens(t) \union {0})

\* The superior token once token k is closed: the next one around it.
Superior(t, k) == LastOpen(t)

Close ==
    /\ At({"}", "]"})
    /\ LET k == LastOpen(tokens) IN
       IF k = 0 \/ (tokens[k].type = "{") # (Char(pos) = "}")
       THEN result' = INVAL /\ UNCHANGED <<pos, tokens, toksuper>>
       ELSE /\ tokens' = [tokens EXCEPT ![k].end = pos + 1]
            /\ toksuper' = Superior(tokens', k)
            /\ pos' = pos + 1
            /\ UNCHANGED result
    /\ UNCHANGED <<js, count>>

\* What jsmn_parse_string and jsmn_parse_primitive return: a token from start
\* to end, or an error; then pos is at the character last.
Leaf(type, start, end, last) ==
    IF Full
    THEN result' = NOMEM /\ UNCHANGED <<pos, tokens, count>>
    ELSE /\ tokens' = Sized(Append(tokens, Token(type, start, end)))
         /\ count' = count + 1
         /\ pos' = last + 1
         /\ UNCHANGED result

\* Where the string ends that goes on at p; a backslash takes the next
\* character with it, or u and up to four digits.
StringEnd ==
    LET end[p \in pos + 1 .. Len(js)] ==
          LET hex == {n \in 0..4 : p + 1 + n < Len(js) /\ \A m \in 1..n : Char(p + 1 + m) \in Digits}
              wanted == Min({4, Len(js) - p - 2})
          IN CASE p = Len(js) -> PART
               [] p < Len(js) /\ Char(p) = "q" -> p
               [] p + 1 < Len(js) /\ Char(p) = "b" /\ Char(p + 1) \in {"q", "b", "n"} -> end[p + 2]
               [] p + 1 < Len(js) /\ Char(p) = "b" /\ Char(p + 1) = "u" ->
                      IF Max(hex) = wanted THEN end[p + 2 + wanted] ELSE INVAL
               [] p + 1 < Len(js) /\ Char(p) = "b" /\ Char(p + 1) \notin {"q", "b", "n", "u"} -> INVAL
               [] OTHER -> end[p + 1]
    IN end[pos + 1]

String ==
    /\ At({"q"})
    /\ IF StringEnd < 0 THEN result' = StringEnd /\ UNCHANGED <<pos, tokens, count>>
       ELSE Leaf("string", pos + 1, StringEnd, StringEnd)
    /\ UNCHANGED <<js, toksuper>>

PrimitiveEnd ==
    Min({p \in pos .. Len(js) : p = Len(js) \/ Char(p) \in {":", " ", ",", "]", "}", "bad"}})
Primitive ==
    /\ result = Running /\ pos < Len(js)
    /\ Char(pos) \notin {"{", "[", "}", "]", "q", " ", ":", ","}
    /\ IF PrimitiveEnd < Len(js) /\ Char(PrimitiveEnd) = "bad"
       THEN result' = INVAL /\ UNCHANGED <<pos, tokens, count>>
       ELSE Leaf("primitive", pos, PrimitiveEnd, PrimitiveEnd - 1)
    /\ UNCHANGED <<js, toksuper>>

Space == At({" "}) /\ pos' = pos + 1 /\ UNCHANGED <<js, tokens, toksuper, count, result>>
Colon ==
    /\ At({":"})
    /\ toksuper' = Len(tokens) /\ pos' = pos + 1
    /\ UNCHANGED <<js, tokens, count, result>>

\* Back from a key to its object.  Without a superior, the code looks at what
\* lies before the tokens; nothing is open then, and nothing changes.
Comma ==
    /\ At({","})
    /\ toksuper' = IF toksuper # 0 /\ tokens[toksuper].type \notin {"{", "["} /\ Opens(tokens) # {}
                   THEN LastOpen(tokens) ELSE toksuper
    /\ pos' = pos + 1
    /\ UNCHANGED <<js, tokens, count, result>>

End ==
    /\ result = Running /\ pos = Len(js)
    /\ Stop(IF Opens(tokens) = {} THEN Parsed ELSE PART)

JsmnNext == Open \/ Close \/ String \/ Primitive \/ Space \/ Colon \/ Comma \/ End
-----------------------------------------------------------------------------
\* The brackets that are open before position k: those in strings and in other
\* leaves do not count.
InLeaf(p) == \E s \in DOMAIN tokens :
    tokens[s].type \in {"string", "primitive"} /\ p >= tokens[s].start /\ p < tokens[s].end
Structure(k) ==
    LET stack[p \in 0..k] ==
          IF p = 0 THEN <<>>
          ELSE LET s == stack[p - 1] c == js[p] IN
               IF InLeaf(p - 1) \/ c \notin {"{", "[", "}", "]"} THEN s
               ELSE IF c \in {"{", "["} THEN Append(s, p - 1)
               ELSE IF s = <<>> THEN s ELSE SubSeq(s, 1, Len(s) - 1)
    IN stack[k]

\* While a text is parsed, the open tokens are its open brackets, in their
\* order, and they enclose every token that starts within; the result is a
\* success only when none is left.
NestingRight ==
    /\ result >= 0 =>
         LET open == Structure(pos) IN
         /\ {tokens[k].start : k \in Opens(tokens)} = {open[d] : d \in DOMAIN open}
         /\ \A j, k \in DOMAIN tokens : j < k =>
              /\ tokens[j].start < tokens[k].start
              /\ tokens[j].end # -1 =>
                   tokens[k].start >= tokens[j].end \/ tokens[k].end \in 0..tokens[j].end
    /\ result = Parsed => Opens(tokens) = {}

\* An array has as many elements as tokens lie directly in it, and there are
\* as many tokens as jsmn_parse returns: readers step through them by these.
Inside(k) == {j \in DOMAIN tokens : j > k /\ tokens[j].start < tokens[k].end}
Directly(k) == {j \in Inside(k) : \A i \in Inside(k) : j \notin Inside(i)}
SizesRight ==
    result = Parsed =>
        /\ count = Len(tokens)
        /\ ":" \notin {js[p] : p \in DOMAIN js} =>
             \A k \in DOMAIN tokens : tokens[k].type = "[" =>
                 tokens[k].size = Cardinality(Directly(k))
=============================================================================
