------------------------------- MODULE Macros -------------------------------
(***************************************************************************)
(* Macro expansion in compiler/tccpp.c.  Every macro that is being         *)
(* replaced has its replacement list on a stack of streams, with the file  *)
(* at the bottom, and its name in nested_list.  The arguments of a call    *)
(* may be read past the end of the list that the name came from.           *)
(*                                                                         *)
(* A token is its spelling, a sequence of letters.  White space, __LINE__  *)
(* and its like, and the rule for `defined' are left out.                  *)
(***************************************************************************)
EXTENDS Integers, Sequences, SequencesExt, FiniteSets

Open  == <<"(">>
Close == <<")">>
Comma == <<",">>
Sharp == <<"#">>
PpJoin == <<"##">>
PlcHldr == <<"placeholder">>   \* TOK_PLCHLDR: an empty argument
NoSubst == <<"nosubst">>       \* TOK_NOSUBST: the next name stays
EndArg == <<"end of arg">>     \* -1: where the tokens of an argument end
Eof == <<"eof">>
Marks == {PlcHldr, NoSubst}
Punctuators == {Open, Close, Comma, Sharp, PpJoin, EndArg, Eof} \cup Marks
IsIdent(t) == t \notin Punctuators /\ Head(t) # "string"
IsString(t) == Head(t) = "string"
Ended == <<>>   \* v = 0 of an entry of nested_list

\* A macro: [func, params, va, body].  `va': the last parameter takes the
\* rest of the arguments.  parse_define() refuses `##' at an end of the body;
\* `#' without a parameter after it is refused when the macro is used.
ParseDefine(func, params, va, body) ==
    [func |-> func, params |-> params, va |-> va, body |-> body,
     ok |-> body = <<>> \/ (Head(body) # PpJoin /\ Last(body) # PpJoin)]

\* What expansion works on: the streams, nested_list, the result, and
\* whether tcc_error() was called.
State(file) == [stack |-> <<file>>, nested |-> <<>>, out |-> <<>>, err |-> FALSE]
Top(st) == Last(st.stack)
Pop(st) == [st EXCEPT !.stack = Front(@)]
Push(st, toks) == [st EXCEPT !.stack = Append(@, toks)]
Add(st, toks) == [st EXCEPT !.out = @ \o toks]
Eat(st) == [st EXCEPT !.stack[Len(st.stack)] = Tail(@)]
Failed(st) == [st EXCEPT !.err = TRUE]

\* Mutant: the names of the lists that are read past stay.
EndScope_Kept(nested) == nested

\* The end of a list ends the scope of the innermost name that is left.
EndScope(nested) ==
    LET live == {k \in DOMAIN nested : nested[k] # Ended}
    IN  IF live = {} THEN nested
        ELSE [nested EXCEPT ![CHOOSE k \in live : \A j \in live : j <= k] = Ended]

\* next_argstream(): lists that are at their end are left for the one below.
RECURSIVE NextArgstream(_, _)
NextArgstream(st, peek) ==
    CASE peek /\ Top(st) # <<>> /\ Head(Top(st)) = PlcHldr -> NextArgstream(Eat(st), peek)
      [] Top(st) = <<>> /\ Len(st.stack) > 1 ->
            NextArgstream([Pop(st) EXCEPT !.nested = EndScope(@)], peek)
      [] OTHER -> st
At(st) == IF Top(st) = <<>> THEN Eof ELSE Head(Top(st))

-----------------------------------------------------------------------------
\* The arguments of a call, from the token after `(' or `,' on.  `done' are
\* the ones that were read; `va' is set for a last parameter that takes all.
RECURSIVE Argument(_, _, _, _)
Argument(st0, level, va, toks) ==
    LET st == NextArgstream(st0, FALSE)
        t == At(st)
    IN  IF t \in {Eof, EndArg} \/ (level = 0 /\ (t = Close \/ (t = Comma /\ ~va)))
        THEN [st |-> st, toks |-> toks, level |-> level]
        ELSE Argument(Eat(st),
                      CASE t = Open -> level + 1 [] t = Close -> level - 1 [] OTHER -> level,
                      va, Append(toks, t))

RECURSIVE Arguments(_, _, _)
Arguments(st, s, args) ==
    LET n == Len(args) + 1
        k == Len(s.params)
        a == Argument(st, 0, s.va /\ n = k, <<>>)
        all == Append(args, a.toks)
        after == Eat(a.st)
    IN  CASE k = 0 /\ At(NextArgstream(st, FALSE)) = Close ->
                [st |-> Eat(NextArgstream(st, FALSE)), args |-> <<>>]
          [] n > k \/ a.level > 0 -> [st |-> Failed(a.st), args |-> args]
          [] At(a.st) = Close /\ n = k -> [st |-> after, args |-> all]
          [] At(a.st) = Close /\ n = k - 1 /\ s.va ->
                [st |-> after, args |-> Append(all, <<>>)]
          [] At(a.st) = Comma -> Arguments(after, s, all)
          [] OTHER -> [st |-> Failed(a.st), args |-> all]

\* paste_tokens(): the spellings are put together; it has to be one token.
Spelling(t) == IF t = PlcHldr THEN <<>> ELSE t
Pastes(a, b) ==
    \/ PlcHldr \in {a, b}
    \/ IsIdent(a) /\ IsIdent(b)

\* macro_twosharps().  Marks before an operand are dropped: `start' is where
\* those before the left one begin, -1 if there are none.  Operands that do
\* not make one token stay apart.
RECURSIVE Joined(_, _, _, _)
Joined(t, ptr, out, start) ==
    LET marks == {k \in 2 .. Len(ptr) : \A j \in 2 .. k : ptr[j] = NoSubst}
        p == SubSeq(ptr, 2 + Cardinality(marks), Len(ptr))
        cut == IF start >= 0 THEN SubSeq(out, 1, start) ELSE out
        t1 == Head(p)
    IN  CASE ptr = <<>> \/ (ptr # <<>> /\ Head(ptr) # PpJoin) ->
                [t |-> t, ptr |-> ptr, out |-> out]
          [] p = <<>> \/ (p # <<>> /\ t1 = PpJoin) -> Joined(t, p, cut, start)
          [] t = PlcHldr /\ t1 = PlcHldr -> Joined(t, Tail(p), cut, start)
          [] Pastes(t, t1) -> Joined(Spelling(t) \o Spelling(t1), Tail(p), cut, start)
          [] OTHER -> Joined(t1, Tail(p), Append(cut, t), start)

RECURSIVE MacroTwosharps(_, _, _)
MacroTwosharps(ptr, out, start) ==
    LET j == Joined(Head(ptr), Tail(ptr), out, start) IN
    CASE ptr = <<>> -> out
      [] ptr # <<>> /\ Head(ptr) = PpJoin -> MacroTwosharps(Tail(ptr), out, start)
      [] OTHER -> MacroTwosharps(j.ptr, Append(j.out, j.t),
                                 CASE j.t # NoSubst -> -1
                                   [] start >= 0 -> start
                                   [] OTHER -> Len(j.out))

-----------------------------------------------------------------------------
RECURSIVE MacroSubst(_, _, _), MacroSubstTok(_, _, _), MacroArgSubst(_, _, _, _, _, _)

\* macro_arg_subst(): parameters in the body are replaced, `#' makes a string,
\* an operand of `##' is taken as it was written, any other one is expanded
\* first.  `, ## rest' drops the comma when the rest is empty.
MacroArgSubst(st, defs, s, args, i, str) ==
    LET body == s.body
        t == body[i]
        Param(x) == CHOOSE k \in DOMAIN s.params : s.params[k] = x
        IsParam(x) == x \in Range(s.params)
        arg == args[Param(t)]
        isRest == s.va /\ Param(t) = Len(s.params)
        afterJoin == i > 1 /\ body[i - 1] = PpJoin
        eats == afterJoin /\ i > 2 /\ body[i - 2] = Comma /\ isRest
        raw == ~(eats /\ arg # <<>>)
                 /\ (afterJoin \/ (i < Len(body) /\ body[i + 1] = PpJoin))
        sub == MacroSubst(Push([st EXCEPT !.out = <<>>], Append(arg, EndArg)), defs, FALSE)
        toks == IF raw THEN arg ELSE sub.out
        kept == CASE ~eats -> str
                  [] arg = <<>> -> SubSeq(str, 1, Len(str) - 2)
                  [] OTHER -> Front(str)
        st1 == IF raw THEN st ELSE [sub EXCEPT !.out = st.out]
        Go(st2, j, str2) == MacroArgSubst(st2, defs, s, args, j, str2)
    IN  CASE i > Len(body) -> [st |-> st, str |-> str]
          [] t = Sharp /\ (i = Len(body) \/ ~IsParam(body[i + 1])) ->
                [st |-> Failed(st), str |-> str]
          [] t = Sharp /\ i < Len(body) /\ IsParam(body[i + 1]) ->
                Go(st, i + 2, Append(str,
                      <<"string">> \o FlattenSeq(SelectSeq(args[Param(body[i + 1])],
                                                           LAMBDA x : x \notin Marks))))
          [] IsIdent(t) /\ IsParam(t) ->
                Go(st1, i + 1, kept \o (IF toks = <<>> THEN <<PlcHldr>> ELSE toks))
          [] OTHER -> Go(st, i + 1, Append(str, t))

\* macro_subst_tok(): the name t, which has been read, is replaced.  A name of
\* a function-like macro without `(' after it stays.
MacroSubstTok(st, defs, t) ==
    LET s == defs[t]
        ahead == NextArgstream(st, TRUE)
        call == Arguments(Eat(ahead), s, <<>>)
        m == IF s.func THEN MacroArgSubst(call.st, defs, s, call.args, 1, <<>>)
             ELSE [st |-> st, str |-> s.body]
        joined == MacroTwosharps(m.str, <<>>, -1)
        r == MacroSubst([Push(m.st, joined) EXCEPT !.nested = Append(@, t)], defs, FALSE)
    IN  CASE s.func /\ At(ahead) # Open -> Add(ahead, <<t>>)
          [] s.func /\ call.st.err -> call.st
          [] m.st.err -> m.st
          [] OTHER -> [r EXCEPT !.nested = Front(@)]

\* macro_subst(): the list at the top of the stack, to its end.  It may have
\* been left already, by the arguments of a call in it.
MacroSubst(st, defs, nosubst) ==
    LET depth == Len(st.stack)
        t == Head(Top(st))
        rest == Eat(st)
        r == MacroSubstTok(rest, defs, t)
    IN  CASE st.err -> st
          [] Top(st) = <<>> \/ t = EndArg -> Pop(st)
          [] IsIdent(t) /\ ~nosubst /\ t \in DOMAIN defs /\ t \in Range(st.nested) ->
                MacroSubst(Add(rest, <<NoSubst, t>>), defs, FALSE)
          [] IsIdent(t) /\ ~nosubst /\ t \in DOMAIN defs /\ t \notin Range(st.nested) ->
                IF Len(r.stack) < depth THEN r ELSE MacroSubst(r, defs, FALSE)
          [] OTHER -> MacroSubst(Add(rest, <<t>>), defs, t = NoSubst)

\* next(): names in the file are replaced, the result is not looked at again;
\* marks are passed over.
RECURSIVE NextToks(_, _)
NextToks(st, defs) ==
    LET t == Head(Top(st)) IN
    CASE st.err \/ Top(st) = <<>> -> st
      [] IsIdent(t) /\ t \in DOMAIN defs -> NextToks(MacroSubstTok(Eat(st), defs, t), defs)
      [] OTHER -> NextToks(Add(Eat(st), <<t>>), defs)

Expanded(file, defs) ==
    LET st == NextToks(State(file), defs)
    IN  [err |-> st.err, toks |-> SelectSeq(st.out, LAMBDA t : t \notin Marks)]

-----------------------------------------------------------------------------
(***************************************************************************)
(* What the standard asks for (6.10.3): every token carries the set of the *)
(* names it may not be replaced by; the name of a call leaves its set to   *)
(* what it gives, as far as the call lies inside the same replacements.    *)
(***************************************************************************)
Hide(toks, hs) == [k \in DOMAIN toks |-> [t |-> toks[k].t, hs |-> toks[k].hs \cup hs]]
Plain(toks) == [k \in DOMAIN toks |-> [t |-> toks[k], hs |-> {}]]

\* The arguments of the call that starts at toks[1] = `(': their tokens, and
\* where the call ends; none if it does not.
CallIn(toks, s) ==
    LET Level(k) == Cardinality({j \in 1 .. k : toks[j].t = Open})
                      - Cardinality({j \in 1 .. k : toks[j].t = Close})
        ends == {k \in DOMAIN toks : toks[k].t = Close /\ Level(k) = 0}
        e == CHOOSE k \in ends : \A j \in ends : k <= j
        n == Len(s.params)
        commas == {k \in 2 .. e - 1 : toks[k].t = Comma /\ Level(k) = 1}
        taken == IF s.va THEN {k \in commas : Cardinality({j \in commas : j < k}) < n - 1}
                 ELSE commas
        cuts == SetToSortSeq({1, e} \cup taken, <)
        args == [i \in 1 .. Len(cuts) - 1 |-> SubSeq(toks, cuts[i] + 1, cuts[i + 1] - 1)]
    IN  IF ends = {} THEN [ok |-> FALSE]
        ELSE [ok |-> Len(args) = n \/ (n = 0 /\ args = <<<<>>>>)
                        \/ (s.va /\ Len(args) = n - 1),
              end |-> e,
              args |-> IF s.va /\ Len(args) = n - 1 THEN Append(args, <<>>) ELSE args]

RECURSIVE Prosser(_, _)
Prosser(toks, defs) ==
    LET x == Head(toks)
        rest == Tail(toks)
        s == defs[x.t]
        c == CallIn(rest, s)
        hs == IF s.func THEN (x.hs \cap rest[c.end].hs) \cup {x.t} ELSE x.hs \cup {x.t}
        Arg(i) == c.args[CHOOSE k \in DOMAIN s.params : s.params[k] = s.body[i]]
        IsParam(i) == i \in DOMAIN s.body /\ s.body[i] \in Range(s.params)
        Is(i, t) == i \in DOMAIN s.body /\ s.body[i] = t
        Str(a) == <<"string">> \o FlattenSeq([k \in DOMAIN a |-> a[k].t])
        Empty == <<[t |-> PlcHldr, hs |-> {}]>>
        OrEmpty(a) == IF a = <<>> THEN Empty ELSE a
        isRest(i) == s.va /\ IsParam(i) /\ s.body[i] = Last(s.params)
        gnu(i) == isRest(i) /\ Is(i - 1, PpJoin) /\ Is(i - 2, Comma)
        \* what stands for place i of the body
        At1(i) ==
            CASE Is(i - 1, Sharp) -> <<>>
              [] Is(i, Sharp) -> <<[t |-> Str(Arg(i + 1)), hs |-> {}]>>
              [] gnu(i) -> Prosser(Arg(i), defs)
              [] gnu(i + 1) -> <<>>
              [] gnu(i + 2) -> IF Arg(i + 2) = <<>> THEN <<>> ELSE Plain(<<Comma>>)
              [] IsParam(i) /\ (Is(i - 1, PpJoin) \/ Is(i + 1, PpJoin)) -> OrEmpty(Arg(i))
              [] IsParam(i) -> OrEmpty(Prosser(Arg(i), defs))
              [] OTHER -> Plain(<<s.body[i]>>)
        parts == FlattenSeq([i \in DOMAIN s.body |-> At1(i)])
        RECURSIVE Glue(_, _)
        Glue(done, todo) ==
            IF todo = <<>> THEN done
            ELSE IF Len(todo) >= 2 /\ Head(todo).t = PpJoin
            THEN LET a == Last(done)
                     b == todo[2]
                     ab == [t |-> IF a.t = PlcHldr /\ b.t = PlcHldr THEN PlcHldr
                                  ELSE Spelling(a.t) \o Spelling(b.t),
                            hs |-> a.hs \cap b.hs]
                 IN  IF {a.t, b.t} = {PlcHldr} \/ Pastes(a.t, b.t)
                     THEN Glue(Append(Front(done), ab), SubSeq(todo, 3, Len(todo)))
                     ELSE Glue(done \o <<b>>, SubSeq(todo, 3, Len(todo)))
            ELSE Glue(Append(done, Head(todo)), Tail(todo))
        glued == SelectSeq(Glue(<<>>, parts), LAMBDA y : y.t # PlcHldr)
        calls == s.func /\ rest # <<>> /\ Head(rest).t = Open /\ c.ok
    IN  CASE toks = <<>> -> <<>>
          [] ~IsIdent(x.t) \/ x.t \notin DOMAIN defs -> <<x>> \o Prosser(rest, defs)
          [] x.t \in x.hs -> <<x>> \o Prosser(rest, defs)
          [] x.t \notin x.hs /\ s.func /\ ~calls -> <<x>> \o Prosser(rest, defs)
          [] OTHER -> Prosser(Hide(glued, hs)
                                \o (IF s.func THEN SubSeq(rest, c.end + 1, Len(rest)) ELSE rest),
                              defs)

Written(file, defs) ==
    LET r == Prosser(Plain(file), defs) IN [k \in DOMAIN r |-> r[k].t]
=============================================================================
