------------------------------ MODULE Scanner ------------------------------
(***************************************************************************)
(* The character level of compiler/tccpp.c: a file is read block by block  *)
(* into a buffer that ends in a backslash, the mark CH_EOB, so that every  *)
(* place that looks at the next character has to tell the end of a block,  *)
(* the end of the file, a spliced line and a stray backslash apart, by     *)
(* itself and in the middle of whatever it is reading.                     *)
(*                                                                         *)
(* A reader r is [buf, p, end, c, rest, line, block]: the memory of the    *)
(* buffer with unget[] before it, buf_ptr, buf_end, the character that the *)
(* code holds in c or ch, what read() has still to deliver, line_num and   *)
(* the size of a block.  A character is a string; tokens are pairs of a    *)
(* kind and the characters they are made of.                               *)
(***************************************************************************)
EXTENDS Integers, Sequences, FiniteSets, SequencesExt

BS == "BS"     \* the backslash, which is also CH_EOB
NL == "NL"
CR == "CR"
EOF == "EOF"   \* CH_EOF
Spaces == {" ", "TAB"}
Digits == {"0", "1"}
IdChars == {"a", "e"}

\* The operators of more than one character that next_nomacro1() knows.
Operators ==
    {<<"<", "=">>, <<"<", "<">>, <<"<", "<", "=">>, <<">", "=">>, <<">", ">">>,
     <<">", ">", "=">>, <<"&", "&">>, <<"&", "=">>, <<"|", "|">>, <<"|", "=">>,
     <<"+", "+">>, <<"+", "=">>, <<"-", "-">>, <<"-", "=">>, <<"-", ">">>,
     <<"!", "=">>, <<"=", "=">>, <<"*", "=">>, <<"%", "=">>, <<"^", "=">>, <<"/", "=">>}

\* The buffer is [1 .. block], the byte behind it, and unget[] below 1.
Reader(text, block) ==
    [buf |-> [i \in -3 .. block + 1 |-> BS], p |-> 1, end |-> 1, c |-> BS,
     rest |-> text, line |-> 1, block |-> block]

-----------------------------------------------------------------------------
\* *p, and c = *p.
Byte(r) == r.buf[r.p]
Load(r) == [r EXCEPT !.c = Byte(r)]

\* Mutant: a block that ends is taken for the end of the file.
HandleEob_NoRefill(r) == [r EXCEPT !.c = IF r.p < r.end THEN Byte(r) ELSE EOF]

\* handle_eob(): the next block, over the old one, if this one is at its end.
HandleEob(r) ==
    LET n == IF Len(r.rest) < r.block THEN Len(r.rest) ELSE r.block
        new == SubSeq(r.rest, 1, n) \o <<BS>>
    IN  IF r.p < r.end THEN Load(r)
        ELSE [r EXCEPT !.buf = [i \in DOMAIN @ |-> IF i \in DOMAIN new THEN new[i] ELSE @[i]],
                       !.p = 1, !.end = n + 1,
                       !.c = IF n = 0 THEN EOF ELSE new[1],
                       !.rest = SubSeq(@, n + 1, Len(@))]

Step(r, n) == Load([r EXCEPT !.p = @ + n])

\* inp(), PEEKC_EOB(): one character on; only the end of a block matters.
PeekcEob(r) == IF Byte(Step(r, 1)) = BS THEN HandleEob(Step(r, 1)) ELSE Step(r, 1)

NextLine(r) == [PeekcEob(r) EXCEPT !.line = @ + 1]

\* handle_stray_noerror() at a backslash: spliced lines are passed over; for
\* a backslash that splices nothing `bad' is set.
RECURSIVE Splices(_)
Splices(r) ==
    LET a == PeekcEob(r)
        b == PeekcEob(a)
    IN  CASE r.c # BS -> [r |-> r, bad |-> FALSE]
          [] r.c = BS /\ a.c = NL -> Splices(NextLine(a))
          [] r.c = BS /\ a.c = CR ->
                IF b.c = NL THEN Splices(NextLine(b)) ELSE [r |-> b, bad |-> TRUE]
          [] OTHER -> [r |-> a, bad |-> TRUE]

\* *--p = c, into file->unget[] if p is at the start of the block.
PutBack(r, c) == [r EXCEPT !.buf[r.p - 1] = c, !.p = @ - 1, !.c = c]

\* handle_stray1(): a real backslash is put back, and is an error unless
\* PARSE_FLAG_ACCEPT_STRAYS is set, as it is in macro definitions.  What it
\* returns behind a splice is *p, which at the end of the file is CH_EOB.
HandleStray1(r) ==
    LET a == IF r.p < r.end THEN Load(r) ELSE HandleEob(r)
        s == Splices(a)
    IN  IF a.c # BS THEN a
        ELSE IF s.bad THEN PutBack(s.r, BS) ELSE Load(s.r)

\* PEEKC()
Peekc(r) == IF Byte(Step(r, 1)) = BS THEN HandleStray1(Step(r, 1)) ELSE Step(r, 1)

-----------------------------------------------------------------------------
\* parse_line_comment(), from inside the comment; it stops at the newline.
RECURSIVE LineComment(_)
LineComment(r) ==
    LET h == HandleEob(r)
        a == PeekcEob(h)
        b == PeekcEob(a)
    IN  CASE Byte(r) = NL -> r
          [] Byte(r) # BS /\ Byte(r) # NL -> LineComment(Step(r, 1))
          [] Byte(r) = BS /\ h.c = EOF -> h
          [] Byte(r) = BS /\ h.c \notin {EOF, BS} -> LineComment(h)
          [] OTHER -> CASE a.c = NL -> LineComment(NextLine(a))
                        [] a.c = CR -> IF b.c = NL THEN LineComment(NextLine(b))
                                             ELSE LineComment(b)
                        [] OTHER -> LineComment(a)

\* parse_comment(): from inside the comment, and after a run of stars.  The
\* result is behind the comment; ok is FALSE if the file ends in it.
RECURSIVE Comment(_), AfterStar(_), StarSplices(_)
Comment(r) ==
    LET h == HandleEob(r) IN
    CASE Byte(r) = NL -> Comment([Step(r, 1) EXCEPT !.line = @ + 1])
      [] Byte(r) = "*" -> AfterStar(Step(r, 1))
      [] Byte(r) = BS -> CASE h.c = EOF -> [r |-> h, ok |-> FALSE]
                           [] h.c = BS -> Comment(Step(h, 1))
                           [] OTHER -> Comment(h)
      [] OTHER -> Comment(Step(r, 1))

AfterStar(r) ==
    LET h == HandleEob(r) IN
    CASE Byte(r) = "*" -> AfterStar(Step(r, 1))
      [] Byte(r) = "/" -> [r |-> Step(r, 1), ok |-> TRUE]
      [] Byte(r) = BS -> CASE h.c = EOF -> [r |-> h, ok |-> FALSE]
                           [] h.c = BS -> StarSplices(h)
                           [] OTHER -> AfterStar(h)
      [] OTHER -> Comment(r)

StarSplices(r) ==
    LET a == PeekcEob(r)
        b == PeekcEob(a)
    IN  CASE r.c # BS -> AfterStar(r)
          [] r.c = BS /\ a.c = NL -> StarSplices(NextLine(a))
          [] r.c = BS /\ a.c = CR ->
                IF b.c = NL THEN StarSplices(NextLine(b)) ELSE StarSplices(b)
          [] OTHER -> Comment(a)

\* parse_pp_string(): from inside the string; s is what it holds so far.
RECURSIVE PpString(_, _, _)
PpString(r, sep, s) ==
    LET h == HandleEob(r)
        a == PeekcEob(h)
        b == PeekcEob(a)
        c == PeekcEob(r)
        Bad(q) == [r |-> q, s |-> s, ok |-> FALSE]
    IN  CASE Byte(r) = sep -> [r |-> Step(r, 1), s |-> s, ok |-> TRUE]
          [] Byte(r) = NL -> PpString([Step(r, 1) EXCEPT !.line = @ + 1], sep, Append(s, NL))
          [] Byte(r) = CR -> IF c.c = NL
                             THEN PpString([Step(c, 1) EXCEPT !.line = @ + 1], sep, Append(s, NL))
                             ELSE PpString(c, sep, Append(s, CR))
          [] Byte(r) = BS ->
                CASE h.c = EOF -> Bad(h)
                  [] h.c \notin {EOF, BS} -> PpString(h, sep, s)
                  [] OTHER ->
                        CASE a.c = NL ->
                                PpString([Step(a, 1) EXCEPT !.line = @ + 1], sep, s)
                          [] a.c = CR ->
                                IF b.c # NL THEN Bad(b)
                                ELSE PpString([Step(b, 1) EXCEPT !.line = @ + 1], sep, s)
                          [] a.c = EOF -> Bad(a)
                          [] OTHER -> PpString(Step(a, 1), sep, s \o <<BS, a.c>>)
          [] OTHER -> PpString(Step(r, 1), sep, Append(s, Byte(r)))

-----------------------------------------------------------------------------
\* parse_ident_slow, which the fast loop falls back to at a backslash.
RECURSIVE Identifier(_, _)
Identifier(r, s) ==
    IF r.c \in IdChars \cup Digits THEN Identifier(Peekc(r), Append(s, r.c))
    ELSE [r |-> r, tok |-> <<"ident", s>>]

\* parse_num: letters, digits and dots, and a sign after an exponent's letter.
RECURSIVE Number(_, _)
Number(r, s) ==
    IF \/ r.c \in IdChars \cup Digits \cup {"."}
       \/ r.c \in {"+", "-"} /\ Last(s) = "e"
    THEN Number(Peekc(r), Append(s, r.c))
    ELSE [r |-> r, tok |-> <<"ppnum", s>>]

\* The longest operator.
RECURSIVE Operator(_, _)
Operator(r, s) ==
    IF Append(s, r.c) \in Operators THEN Operator(Peekc(r), Append(s, r.c))
    ELSE [r |-> r, tok |-> <<"op", s>>]

\* Dots: two that no third one follows are two tokens, and the second is put
\* back.
Dots(r) ==
    LET a == Peekc(r)
        b == Peekc(a)
    IN  CASE a.c \in Digits -> Number(a, <<".">>)
          [] a.c = "." /\ b.c = "." -> [r |-> Step(b, 1), tok |-> <<"op", <<".", ".", ".">>>>]
          [] a.c = "." /\ b.c # "." -> [r |-> PutBack(b, "."), tok |-> <<"op", <<".">>>>]
          [] OTHER -> [r |-> a, tok |-> <<"op", <<".">>>>]

Failed(r) == [r |-> r, tok |-> <<"error", <<>>>>]

\* next_nomacro1() with PARSE_FLAG_LINEFEED and PARSE_FLAG_ACCEPT_STRAYS and
\* without directives: the next token and the reader behind it.
RECURSIVE NextNomacro1(_)
NextNomacro1(r) ==
    LET c == Byte(r)
        h == HandleStray1(r)
        n == Peekc(r)
        q == PpString(Step(r, 1), c, <<>>)
        w == Comment(Step(n, 1))
    IN  CASE c \in Spaces \cup {CR} -> NextNomacro1(Step(r, 1))
          [] c = BS -> CASE h.c = BS -> [r |-> Step(h, 1), tok |-> <<"op", <<BS>>>>]
                         [] h.c = EOF -> [r |-> h, tok |-> <<"eof", <<>>>>]
                         [] OTHER -> NextNomacro1(h)
          [] c = NL -> [r |-> [Step(r, 1) EXCEPT !.line = @ + 1], tok |-> <<"newline", <<>>>>]
          [] c \in IdChars -> Identifier(n, <<c>>)
          [] c \in Digits -> Number(n, <<c>>)
          [] c = "." -> Dots(r)
          [] c \in {"'", "QUOTE"} -> IF q.ok THEN [r |-> q.r, tok |-> <<"ppstr", q.s>>] ELSE Failed(q.r)
          [] c = "/" /\ n.c = "*" -> IF w.ok THEN NextNomacro1(w.r) ELSE Failed(w.r)
          [] c = "/" /\ n.c = "/" -> NextNomacro1(LineComment(Step(n, 1)))
          [] OTHER -> Operator(n, <<c>>)

RECURSIVE Tokens(_)
Tokens(r) ==
    LET t == NextNomacro1(r) IN
    IF t.tok[1] \in {"eof", "error"} THEN <<t.tok \o <<t.r.line>>>>
    ELSE <<t.tok>> \o Tokens(t.r)

-----------------------------------------------------------------------------
(***************************************************************************)
(* What it has to amount to: the translation phases of the C standard, on  *)
(* the whole text.  Spliced lines go first; then each token is the longest *)
(* that fits.                                                              *)
(***************************************************************************)
RECURSIVE Spliced(_)
Spliced(t) ==
    CASE t = <<>> -> <<>>
      [] Len(t) >= 2 /\ SubSeq(t, 1, 2) = <<BS, NL>> -> Spliced(SubSeq(t, 3, Len(t)))
      [] Len(t) >= 3 /\ SubSeq(t, 1, 3) = <<BS, CR, NL>> -> Spliced(SubSeq(t, 4, Len(t)))
      [] OTHER -> <<Head(t)>> \o Spliced(Tail(t))

\* The length of the longest prefix of t that satisfies P, 0 if there is none.
Longest(t, P(_)) ==
    LET L == {n \in 1 .. Len(t) : P(SubSeq(t, 1, n))} IN
    IF L = {} THEN 0 ELSE CHOOSE n \in L : \A k \in L : k <= n

IsIdent(s) == s[1] \in IdChars /\ \A k \in DOMAIN s : s[k] \in IdChars \cup Digits
IsNumber(s) ==
    /\ s[1] \in Digits \/ (Len(s) >= 2 /\ s[1] = "." /\ s[2] \in Digits)
    /\ \A k \in 2 .. Len(s) : \/ s[k] \in IdChars \cup Digits \cup {"."}
                              \/ s[k] \in {"+", "-"} /\ s[k - 1] = "e"
IsComment(s) ==
    /\ Len(s) >= 4 /\ SubSeq(s, 1, 2) = <<"/", "*">>
    /\ {k \in 4 .. Len(s) : s[k - 1] = "*" /\ s[k] = "/"} = {Len(s)}
IsLineComment(s) == Len(s) >= 2 /\ SubSeq(s, 1, 2) = <<"/", "/">> /\ \A k \in DOMAIN s : s[k] # NL
\* A string: quotes at both ends, and none between that is not escaped.
Escaped(s, k) == Cardinality({j \in 2 .. k - 1 : \A i \in j .. k - 1 : s[i] = BS}) % 2 = 1
IsString(s) ==
    /\ Len(s) >= 2 /\ s[1] = "QUOTE"
    /\ {k \in 2 .. Len(s) : s[k] = "QUOTE" /\ ~Escaped(s, k)} = {Len(s)}
IsOperator(s) == s \in Operators \/ s = <<".", ".", ".">>

RECURSIVE Lex(_)
Lex(t) ==
    LET i == Longest(t, IsIdent)
        n == Longest(t, IsNumber)
        c == Longest(t, IsComment)
        l == Longest(t, IsLineComment)
        q == Longest(t, IsString)
        o == Longest(t, IsOperator)
        Token(kind, k) == <<<<kind, SubSeq(t, 1, k)>>>> \o Lex(SubSeq(t, k + 1, Len(t)))
    IN  CASE t = <<>> -> <<<<"eof", <<>>>>>>
          [] t # <<>> /\ Head(t) \in Spaces \cup {CR} -> Lex(Tail(t))
          [] t # <<>> /\ Head(t) = NL -> <<<<"newline", <<>>>>>> \o Lex(Tail(t))
          [] c > 0 -> Lex(SubSeq(t, c + 1, Len(t)))
          [] l > 0 -> Lex(SubSeq(t, l + 1, Len(t)))
          [] i > 0 -> Token("ident", i)
          [] n > 0 -> Token("ppnum", n)
          [] q > 0 -> <<<<"ppstr", SubSeq(t, 2, q - 1)>>>> \o Lex(SubSeq(t, q + 1, Len(t)))
          [] t # <<>> /\ Head(t) = "QUOTE" -> <<<<"error", <<>>>>>>
          [] Len(t) >= 2 /\ SubSeq(t, 1, 2) = <<"/", "*">> ->
                <<<<"error", <<>>>>>>
          [] OTHER -> Token("op", IF o > 0 THEN o ELSE 1)

\* The line that the file ends in.
Lines(t) == 1 + Cardinality({k \in DOMAIN t : t[k] = NL})

\* Texts that the scanner is held to: a carriage return ends a line, no
\* backslash stands before the one that splices a line (inside a string the
\* code takes those two for an escape sequence), and the file does not end in
\* a splice, as the C standard demands (the code makes a token of the CH_EOB
\* behind it and goes on in what the last block left in the buffer).
Regular(t) ==
    /\ ~IsSuffix(<<BS, NL>>, t) /\ ~IsSuffix(<<BS, CR, NL>>, t)
    /\ \A k \in DOMAIN t : t[k] = CR => k < Len(t) /\ t[k + 1] = NL
    /\ \A k \in 1 .. Len(t) - 2 : ~(t[k] = BS /\ t[k + 1] = BS /\ t[k + 2] \in {CR, NL})

\* However the text falls into blocks, the scanner finds the tokens that the
\* spliced text has, and counts its lines.
BlocksDoNotShow(text, block) ==
    LET got == Tokens(Reader(text, block))
        end == got[Len(got)]
    IN  Regular(text) =>
          /\ [got EXCEPT ![Len(got)] = <<end[1], end[2]>>] = Lex(Spliced(text))
          /\ end[1] = "eof" => end[3] = Lines(text)
=============================================================================
