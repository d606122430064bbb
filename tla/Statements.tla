----------------------------- MODULE Statements -----------------------------
(***************************************************************************)
(* Statements: block() of compiler/tccgen.c, with the switch tables of     *)
(* gcase() and gen_function() around it.  Code after a jump is not         *)
(* generated until a label turns it on again; the breaks, continues and    *)
(* returns of a function are lists of jumps that are patched when the      *)
(* place is known.                                                         *)
(***************************************************************************)
EXTENDS CodeGen

CONSTANT LINEAR_CASES   \* a switch of more cases is searched by halves

ASSUME LinearCasesAssumption == LINEAR_CASES \in Nat \ {0}

\* gfunc_return(): the value in the register for results
GfuncReturn(g) == Drop(Gv(g, RcR(Iret)))

-----------------------------------------------------------------------------
\* gcase(): jumps to the cases between lo and hi; `val' is the list of jumps
\* for a value that is none of them.
GtstAddr(g, a) == LET h == Gvtst(g, FALSE, 0) IN GsymAddr(h, h.val, a)
Compare(g, op, c) == GenOp(Vpushi(Vdup(g), c), op)

\* v1 <= x <= v2, `val': the jumps for x > v2
WithinCase(g, p) ==
    LET e == Gvtst(Compare(g, "le", p.v2), TRUE, 0)
    IN  Val(GtstAddr(Compare(e, "ge", p.v1), p.sym), e.val)

LinearCase(g, p) ==
    LET w == WithinCase(g, p) IN
    IF p.v1 = p.v2 THEN GtstAddr(Compare(g, "eq", p.v2), p.sym) ELSE Gsym(w, w.val)

RECURSIVE Gcase(_, _, _)
Gcase(g, base, bsym) ==
    LET half == Len(base) \div 2
        w == WithinCase(g, base[half + 1])
        low == Gcase(w, SubSeq(base, 1, half), bsym)
    IN  IF Len(base) > LINEAR_CASES
        THEN Gcase(Gsym(low, w.val), SubSeq(base, half + 2, Len(base)), low.val)
        ELSE GjmpAcs(FoldLeft(LinearCase, g, base), bsym)

\* qsort() with case_cmp()
SortedCases(cases) == SortSeq(cases, LAMBDA a, b : a.v1 < b.v1)

-----------------------------------------------------------------------------
\* The statements.  `last': what comes next is the brace that ends the function.
RECURSIVE Block(_, _, _)

\* lblock(): the body of a loop, or of a switch, where `continue' is still
\* that of the loop around it.
Lblock(g, s, a, b, last) == Block([g EXCEPT !.bsym = a, !.csym = b], s, last)
Outer(g, o) == [g EXCEPT !.bsym = o.bsym, !.csym = o.csym]

BlockIf(g, s, last) ==
    LET t == Gvtst(Expr(g, s.c), TRUE, 0)
        then == Block(t, s.a, last /\ s.b.k = "none")
        d == GjmpAcs(then, 0)
        else == Block(Gsym(d, t.val), s.b, last)
    IN  IF s.b.k = "none" THEN Gsym(then, t.val) ELSE Gsym(else, d.val)

\* The end of a loop: back to d; `continue' goes there too, `break' here.
LoopEnd(h, d, o) ==
    Outer(Gsym(GsymAddr(GjmpAddrAcs(h, d), h.csym, d), h.bsym), o)

BlockWhile(g, s, last) ==
    LET d == Gind(g)
        t == Gvtst(Expr(d, s.c), TRUE, 0)
    IN  LoopEnd(Lblock(t, s.a, t.val, 0, last), d.val, g)

\* Each of the three expressions of a `for' may be left out.
Given(e) == e.k # "none"
BlockFor(g, s) ==
    LET c == Gind(IF Given(s.i) THEN Vpop(Expr(g, s.i)) ELSE g)
        t == IF Given(s.c) THEN Gvtst(Expr(c, s.c), TRUE, 0) ELSE Val(c, 0)
        e == GjmpAcs(t, 0)
        d == Gind(e)
        step == Gsym(GjmpAddrAcs(Vpop(Expr(d, s.n)), c.val), e.val)
    IN  IF Given(s.n) THEN LoopEnd(Lblock(step, s.a, t.val, 0, FALSE), d.val, g)
        ELSE LoopEnd(Lblock(t, s.a, t.val, 0, FALSE), c.val, g)

BlockDo(g, s) ==
    LET d == Gind(g)
        body == Lblock(d, s.a, 0, 0, FALSE)
        e == Gind(body)
        t == Gvtst(Expr(Gsym(e, body.csym), s.c), FALSE, 0)
    IN  Outer(Gsym(GsymAddr(t, t.val, d.val), body.bsym), g)

BlockSwitch(g, s, last) ==
    LET g1 == Expr(g, s.c)
        sv == VTop(g1)
        b == GjmpAcs([Drop(g1) EXCEPT !.cases = <<>>, !.def = 0], 0)
        body == Lblock(b, s.a, 0, g.csym, last)
        a == GjmpAcs(body, body.bsym)
        look == Gcase(Gv(Vset(Gsym(a, b.val), sv), RcInt), SortedCases(body.cases), 0)
        end == Vpop(look)
        none == IF body.def # 0 THEN GsymAddr(end, look.val, body.def) ELSE Gsym(end, look.val)
    IN  [Gsym(none, a.val) EXCEPT !.bsym = g.bsym, !.csym = body.csym,
                                  !.cases = g.cases, !.def = g.def]

\* A void function may say `return e;': e is evaluated and left.  A function
\* that has a result may say `return;'.
BlockReturn(g, s, last) ==
    LET r == IF ~Given(s.e) THEN g
             ELSE IF g.func = "void" THEN Drop(Expr(g, s.e))
             ELSE GfuncReturn(Expr(g, s.e))
        j == Gjmp(r, g.rsym)
    IN  IF last THEN CodeOff(r) ELSE [CodeOff(j) EXCEPT !.rsym = j.val]

BlockBreak(g) == LET j == GjmpAcs(g, g.bsym) IN [j EXCEPT !.bsym = j.val]
BlockContinue(g) == LET j == GjmpAcs(g, g.csym) IN [j EXCEPT !.csym = j.val]

BlockCase(g, s, last) ==
    LET h == Gind(g) IN
    Block([h EXCEPT !.cases = Append(@, [v1 |-> s.v1, v2 |-> s.v2, sym |-> h.val])], s.a, last)
BlockDefault(g, s, last) == LET h == Gind(g) IN Block([h EXCEPT !.def = h.val], s.a, last)

BlockGoto(g, s) ==
    LET j == GjmpAcs(g, g.label.jnext) IN
    IF g.label.r = "defined" THEN GjmpAddrAcs(g, g.label.jnext)
    ELSE [j EXCEPT !.label = [r |-> "forward", jnext |-> j.val]]

BlockLabel(g, s, last) ==
    LET h == Gind(Gsym(g, g.label.jnext)) IN
    Block([h EXCEPT !.label = [r |-> "defined", jnext |-> h.val]], s.a, last)

BlockExpr(g, s) == Vpop(Expr(g, s.e))

Block(g, s, last) ==
    CASE s.k = "if" -> BlockIf(g, s, last)
      [] s.k = "while" -> BlockWhile(g, s, last)
      [] s.k = "for" -> BlockFor(g, s)
      [] s.k = "do" -> BlockDo(g, s)
      [] s.k = "switch" -> BlockSwitch(g, s, last)
      [] s.k = "case" -> BlockCase(g, s, last)
      [] s.k = "default" -> BlockDefault(g, s, last)
      [] s.k = "{}" -> FoldLeft(LAMBDA h, t : Block(h, t, FALSE), g, s.ss)
      [] s.k = "return" -> BlockReturn(g, s, last)
      [] s.k = "break" -> BlockBreak(g)
      [] s.k = "continue" -> BlockContinue(g)
      [] s.k = "goto" -> BlockGoto(g, s)
      [] s.k = "label" -> BlockLabel(g, s, last)
      [] s.k = "expr" -> BlockExpr(g, s)
      [] s.k = "none" -> g

\* check_func_return(), at the brace that ends the function: "main returns 0
\* by default"
CheckFuncReturn(g) ==
    IF g.func = "main" /\ ~NoCode(g) THEN GfuncReturn(Vpushi(g, 0)) ELSE g

\* gen_function(), for a function whose statements are ss
GenFunction(ss, loc, func) ==
    LET n == Len(ss)
        body == FoldLeft(LAMBDA h, i : Block(h, ss[i], i = n), Generator(loc, func), [i \in 1 .. n |-> i])
        g == CheckFuncReturn(body)
    IN  [Gsym(g, g.rsym) EXCEPT !.off = FALSE]

-----------------------------------------------------------------------------
\* What a statement means.  A state of the program is its memory and what it
\* does next: run, or look for a label or a case (seek), or return with a
\* value, or leave without one.
Go(m, fuel) == [o |-> "run", m |-> m, v |-> 0, fuel |-> fuel]
Seeks(st) == st.o \in {"seek", "seekcase", "seekdefault"}

RECURSIVE Cases(_), HasDefault(_), Exec(_, _), Loop(_, _)
SubStatements(s) ==
    CASE s.k = "{}" -> Range(s.ss) [] s.k = "if" -> {s.a, s.b}
      [] s.k \in {"while", "for", "do", "case", "default", "label"} -> {s.a} [] OTHER -> {}
Cases(s) == UNION {Cases(t) : t \in SubStatements(s)}
              \cup IF s.k = "case" THEN {<<s.v1, s.v2>>} ELSE {}
HasDefault(s) == s.k = "default" \/ \E t \in SubStatements(s) : HasDefault(t)

\* The parts of a `for' that may be left out
Effect(e, m) == IF Given(e) THEN Meaning(e, m).m ELSE m
Condition(e, m) == IF Given(e) THEN Meaning(e, m) ELSE [v |-> 1, m |-> m]

\* After the body of a loop, or the condition of a `for' or `while' at first
After(s, st) ==
    CASE st.o = "break" -> [st EXCEPT !.o = "run"]
      [] st.o \in {"run", "continue"} -> Loop(s, [st EXCEPT !.o = "run"])
      [] OTHER -> st
Loop(s, st) ==
    LET m == IF s.k = "for" THEN Effect(s.n, st.m) ELSE st.m
        c == Condition(s.c, m)
        f == [st EXCEPT !.m = c.m, !.fuel = @ - 1]
    IN  CASE st.fuel = 0 -> [st EXCEPT !.o = "stuck"]
          [] st.fuel > 0 /\ c.v = 0 -> f
          [] st.fuel > 0 /\ c.v # 0 -> After(s, Exec(s.a, f))

Exec(s, st) ==
    LET r == Exec(s.a, st)
        c == Meaning(s.c, st.m)
        at(m) == [st EXCEPT !.m = m]
        i == Condition(s.c, Effect(s.i, st.m))
        chosen == {p \in Cases(s.a) : p[1] <= c.v /\ c.v <= p[2]}
        swout == IF st.o = "run"
                 THEN CASE chosen # {} -> Exec(s.a, [at(c.m) EXCEPT !.o = "seekcase", !.v = c.v])
                        [] chosen = {} /\ HasDefault(s.a) -> Exec(s.a, [at(c.m) EXCEPT !.o = "seekdefault"])
                        [] OTHER -> at(c.m)
                 ELSE r
    IN  CASE ~Seeks(st) /\ st.o # "run" -> st
          [] s.k \in {"none", "expr", "return", "break", "continue", "goto"} /\ Seeks(st) -> st
          [] s.k = "none" /\ st.o = "run" -> st
          [] s.k = "expr" /\ st.o = "run" -> at(Meaning(s.e, st.m).m)
          [] s.k = "return" /\ st.o = "run" ->
                LET x == Meaning(s.e, st.m) IN
                IF Given(s.e) THEN [at(x.m) EXCEPT !.o = "return", !.v = x.v]
                ELSE [st EXCEPT !.o = "leave"]
          [] s.k \in {"break", "continue", "goto"} /\ st.o = "run" -> [st EXCEPT !.o = s.k]
          [] s.k = "{}" -> FoldLeft(LAMBDA x, t : Exec(t, x), st, s.ss)
          [] s.k = "if" ->
                IF st.o = "run" THEN Exec(IF c.v # 0 THEN s.a ELSE s.b, at(c.m))
                ELSE IF Seeks(r) THEN Exec(s.b, st) ELSE r
          [] s.k = "while" -> IF st.o = "run" THEN Loop(s, st) ELSE IF Seeks(r) THEN r ELSE After(s, r)
          [] s.k = "for" -> IF st.o = "run"
                            THEN IF i.v = 0 THEN at(i.m) ELSE After(s, Exec(s.a, at(i.m)))
                            ELSE IF Seeks(r) THEN r ELSE After(s, r)
          [] s.k = "do" -> IF Seeks(r) THEN r ELSE After(s, r)
          [] s.k = "switch" ->
                IF st.o \in {"seekcase", "seekdefault"} THEN st
                ELSE IF swout.o = "break" THEN [swout EXCEPT !.o = "run"] ELSE swout
          [] s.k = "case" -> IF st.o = "seekcase" /\ s.v1 <= st.v /\ st.v <= s.v2
                             THEN Exec(s.a, [st EXCEPT !.o = "run"]) ELSE r
          [] s.k = "default" -> IF st.o = "seekdefault" THEN Exec(s.a, [st EXCEPT !.o = "run"]) ELSE r
          [] s.k = "label" -> IF st.o = "seek" THEN Exec(s.a, [st EXCEPT !.o = "run"]) ELSE r

\* A function: a goto starts the search of its label in the whole body.
RECURSIVE Execute(_, _)
Execute(s, st) ==
    LET r == Exec(s, st) IN
    IF r.o # "goto" THEN r
    ELSE IF r.fuel = 0 THEN [r EXCEPT !.o = "stuck"]
    ELSE Execute(s, [r EXCEPT !.o = "seek", !.fuel = @ - 1])
=============================================================================
