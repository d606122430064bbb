----------------------------- MODULE Initializers -----------------------------
(***************************************************************************)
(* Initializers: decl_initializer(), decl_designator(), init_putv(),       *)
(* init_putz() and the allocation around them.  A brace list is a sequence *)
(* of items; an item has designators and is a value, a value of structure  *)
(* type ("copy"), a string or a list.  Memory is a function from addresses *)
(* to words, one for each scalar.  "local" memory starts as Junk and gets  *)
(* its zeros from the code; "data" starts as zeros and values are or-ed    *)
(* into it.                                                                *)
(***************************************************************************)
EXTENDS Integers, Sequences, FiniteSets, SequencesExt, Bitwise

Junk == 99

Word == [k |-> "scalar", size |-> 1]
Char == [k |-> "char", size |-> 1]
ArrayOf(c, t) == [k |-> "array", c |-> c, t |-> t, size |-> c * t.size]
Member(ofs, t) == [ofs |-> ofs, t |-> t]
StructOf(fs, size) == [k |-> "struct", fs |-> fs, size |-> size]
UnionOf(fs, size) == [k |-> "union", fs |-> fs, size |-> size]
Aggregate(t) == t.k \in {"struct", "union"}

Index(a, b) == [k |-> "[]", from |-> a, to |-> b]
Dot(f) == [k |-> ".", f |-> f]

\* where: local or data; so: only the size is wanted (DIF_SIZE_ONLY).
State(where, so, items, mem) ==
    [where |-> where, so |-> so, items |-> items, mem |-> mem, err |-> FALSE, twice |-> FALSE,
     written |-> {}, flex |-> -1]
Fail(st) == [st EXCEPT !.err = TRUE]
Consume(st) == [st EXCEPT !.items = Tail(@)]

\* Zeros for holes; data is zero from the start, and keeps what an earlier
\* initializer of the same object put there.
InitPutz(st, c, n) ==
    IF st.so \/ n <= 0 THEN st
    ELSE IF st.where = "data" THEN [st EXCEPT !.twice = @ \/ (c .. c + n - 1) \cap st.written # {}]
    ELSE [st EXCEPT !.mem = [a \in DOMAIN @ |-> IF a \in c .. c + n - 1 THEN 0 ELSE @[a]]]

Put(st, c, v) ==
    IF c \notin DOMAIN st.mem THEN Fail(st)
    ELSE [st EXCEPT !.mem[c] = IF st.where = "data" THEN @ | v ELSE v,
                    !.twice = @ \/ c \in st.written, !.written = @ \cup {c}]
PutAll(st, c, vs) == FoldLeft(LAMBDA s, i : Put(s, c + i - 1, vs[i]), st, [i \in DOMAIN vs |-> i])

\* A structure that is not a constant cannot go into data.
InitPutv(t, c, st) ==
    LET h == Head(st.items) IN
    CASE h.k = "val" /\ ~Aggregate(t) -> Consume(Put(st, c, h.v))
      [] h.k = "copy" /\ Aggregate(t) /\ st.where # "data" -> Consume(PutAll(st, c, h.vs))
      [] OTHER -> Fail(st)

\* A copy is of the structure type h.of.
Compatible(t, h) == IF h.k = "copy" THEN t = h.of ELSE ~Aggregate(t)
IsString(items) == items # <<>> /\ Head(items).k = "str" /\ Head(items).des = <<>>

-----------------------------------------------------------------------------
\* A string for an array of characters: its zero only if there is room.
StringInit(t, c, st) ==
    LET s == Head(st.items).s
        len == Len(s)
        nb == IF t.c >= 0 /\ len > t.c THEN t.c ELSE len
        zero == t.c < 0 \/ len < t.c
        put == IF st.so THEN st ELSE PutAll(st, c, SubSeq(s, 1, nb))
    IN  [st |-> Consume(IF zero /\ ~st.so THEN Put(put, c + len, 0) ELSE put),
         len |-> IF zero THEN len + 1 ELSE len]

\* Zeros up to the end of the object; an array of unknown size gets its count.
\* (len counts words: for a structure n is its size.)
Finish(t, c, r) ==
    LET n == IF t.k = "array" THEN t.c * t.t.size ELSE t.size
        st == IF r.len < n THEN InitPutz(r.st, c + r.len, n - r.len) ELSE r.st
    IN  IF t.k = "array" /\ t.c < 0
        THEN [st EXCEPT !.flex = (r.len + t.t.size - 1) \div t.t.size] ELSE st

\* What a brace opens: its own items, and all of them have to be used.
Inside(st, list) == [st EXCEPT !.items = list]
Outside(st, inner) ==
    IF inner.err \/ inner.items # <<>> THEN Fail(inner)
    ELSE [inner EXCEPT !.items = Tail(st.items)]

\* Where a list of designators leads: a type, an address and, for a range, a
\* number of elements.  Only the last one may be a range.
RECURSIVE Walk(_, _, _)
Walk(t, c, des) ==
    LET d == Head(des)
        bad == [t |-> t, c |-> c, nb |-> 1, err |-> TRUE]
        next == CASE d.k = "[]" /\ t.k = "array" ->
                        [t |-> t.t, c |-> c + d.from * t.t.size, nb |-> d.to - d.from + 1,
                         err |-> (t.c >= 0 /\ d.to >= t.c) \/ d.to < d.from]
                  [] d.k = "." /\ Aggregate(t) ->
                        IF d.f > Len(t.fs) THEN bad
                        ELSE [t |-> t.fs[d.f].t, c |-> c + t.fs[d.f].ofs, nb |-> 1, err |-> FALSE]
                  [] OTHER -> bad
    IN  IF Len(des) = 1 \/ next.err THEN next
        ELSE IF next.nb > 1 THEN [next EXCEPT !.err = TRUE] ELSE Walk(next.t, next.c, Tail(des))

\* Mutant: after a range the list goes on behind its first element.
Current_From(f, des) == CASE des = <<>> -> f [] Head(des).k = "[]" -> Head(des).from [] OTHER -> Head(des).f

\* The field or index that the first designator makes the current one.
Current(f, des) == CASE des = <<>> -> f [] Head(des).k = "[]" -> Head(des).to [] OTHER -> Head(des).f

NoDesignator(t, c, f) ==
    IF t.k = "array" THEN [t |-> t.t, c |-> c + f * t.t.size, nb |-> 1, err |-> t.c >= 0 /\ f >= t.c]
    ELSE IF f = 0 THEN [t |-> t, c |-> c, nb |-> 1, err |-> TRUE]
    ELSE [t |-> t.fs[f].t, c |-> c + t.fs[f].ofs, nb |-> 1, err |-> FALSE]

\* The first element of a range is copied to the others.
CopyRange(st, c, size, nb) ==
    IF st.so \/ nb = 1 THEN st
    ELSE [st EXCEPT !.mem = [a \in DOMAIN @ |-> IF a \in c .. c + nb * size - 1 THEN @[c + ((a - c) % size)] ELSE @[a]],
                    !.twice = @ \/ (c + size .. c + nb * size - 1) \cap st.written # {},
                    !.written = @ \cup (c .. c + nb * size - 1)]

RECURSIVE DeclInitializer(_, _, _, _), DeclDesignator(_, _, _, _, _), InitList(_, _, _, _, _, _)

\* al is the length of the object that is initialized already.
DeclDesignator(t, c, f, st, al) ==
    LET des == Head(st.items).des
        to == IF des = <<>> THEN NoDesignator(t, c, f) ELSE Walk(t, c, des)
        hole == IF to.c - c > al THEN InitPutz(st, c + al, to.c - c - al) ELSE st
        own == [hole EXCEPT !.items[1].des = <<>>]
        done == CopyRange(DeclInitializer(to.t, to.c, FALSE, own), to.c, to.t.size, to.nb)
        end == to.c - c + to.nb * to.t.size
    IN  IF to.err THEN [st |-> Fail(st), len |-> al] ELSE [st |-> done, len |-> IF end > al THEN end ELSE al]

NextField(t, f) ==
    CASE t.k = "array" -> f + 1 [] t.k = "struct" /\ f # 0 /\ f < Len(t.fs) -> f + 1 [] OTHER -> 0

InitList(t, c, f, st, len, braced) ==
    IF st.err \/ st.items = <<>> THEN [st |-> st, len |-> len]
    ELSE LET d == DeclDesignator(t, c, f, st, len)
             g == NextField(t, Current(f, Head(st.items).des))
             full == IF t.k = "array" THEN d.len >= t.c * t.t.size ELSE g = 0
         IN  IF ~braced /\ full THEN d ELSE InitList(t, c, g, d.st, d.len, braced)

\* first: a brace has to be there (DIF_FIRST).
DeclInitializer(t, c, first, st) ==
    LET h == Head(st.items)
        braced == h.k = "list"
        inner == IF braced THEN Inside(st, h.items) ELSE st
        start == IF t.k = "array" THEN 0 ELSE 1
    IN  CASE st.err \/ st.items = <<>> -> Fail(st)
          [] h.k \in {"val", "copy"} /\ ~st.so /\ t.k # "array" /\ Compatible(t, h) -> InitPutv(t, c, st)
          [] t.k = "array" /\ t.t.k = "char" /\ h.k = "str" -> Finish(t, c, StringInit(t, c, st))
          [] t.k = "array" /\ t.t.k = "char" /\ braced /\ IsString(h.items) ->
                Outside(st, Finish(t, c, StringInit(t, c, inner)))
          [] t.k = "array" \/ Aggregate(t) ->
                IF braced
                THEN Outside(st, Finish(t, c, InitList(t, c, start, inner, 0, TRUE)))
                ELSE IF first THEN Fail(st) ELSE Finish(t, c, InitList(t, c, start, st, 0, FALSE))
          [] braced -> Outside(st, DeclInitializer(t, c, FALSE, inner))
          [] st.so -> Consume(st)
          [] OTHER -> InitPutv(t, c, st)

-----------------------------------------------------------------------------
\* decl_initializer_alloc(): an array of unknown size, or a flexible array at
\* the end of a structure, is measured by a first pass over the initializer.
FlexibleMember(t) == Aggregate(t) /\ LET l == Last(t.fs).t IN l.k = "array" /\ l.c < 0
UnknownSize(t) == (t.k = "array" /\ t.c < 0) \/ FlexibleMember(t)
Sized(t, n) ==
    IF t.k = "array" THEN ArrayOf(n, t.t)
    ELSE [t EXCEPT !.fs[Len(t.fs)].t = ArrayOf(IF n < 0 THEN 0 ELSE n, @.t)]
AllocSize(t) ==
    IF Aggregate(t) /\ Last(t.fs).t.k = "array"
    THEN LET end == Last(t.fs).ofs + Last(t.fs).t.size IN IF end > t.size THEN end ELSE t.size
    ELSE t.size

DeclInitializerAlloc(type, init, where) ==
    LET pass1 == DeclInitializer(type, 0, TRUE, State(where, TRUE, <<init>>, <<>>))
        t == IF UnknownSize(type) THEN Sized(type, pass1.flex) ELSE type
        m == [a \in 0 .. AllocSize(t) - 1 |-> IF where = "local" THEN Junk ELSE 0]
    IN  IF UnknownSize(type) /\ (pass1.err \/ t.size < 0) THEN Fail(pass1)
        ELSE DeclInitializer(t, 0, TRUE, State(where, FALSE, <<init>>, m))

-----------------------------------------------------------------------------
(***************************************************************************)
(* What C says.  A list in braces has a current object, a path into the    *)
(* object that the list initializes: a designator sets it, and it moves on *)
(* to the next subobject from what was initialized last.  A value goes     *)
(* down from there to the first subobject that it fits.  The meaning is    *)
(* what the scalars hold that are not zero, and the elements that an array *)
(* of unknown size has.                                                    *)
(***************************************************************************)
RECURSIVE At(_, _, _), Has(_, _), After(_, _), Down(_, _, _)
At(t, c, path) ==
    CASE path = <<>> -> [t |-> t, c |-> c]
      [] t.k = "array" -> At(t.t, c + Head(path) * t.t.size, Tail(path))
      [] OTHER -> At(t.fs[Head(path)].t, c + t.fs[Head(path)].ofs, Tail(path))
Has(t, path) ==
    CASE path = <<>> -> TRUE
      [] t.k = "array" -> (t.c < 0 \/ Head(path) < t.c) /\ Has(t.t, Tail(path))
      [] Aggregate(t) -> Head(path) \in DOMAIN t.fs /\ Has(t.fs[Head(path)].t, Tail(path))
      [] OTHER -> FALSE

\* The subobject that comes after another one; <<>> if there is none.
After(t, path) ==
    LET next == Append(Front(path), Last(path) + 1) IN
    CASE path = <<>> -> <<>>
      [] path # <<>> /\ At(t, 0, Front(path)).t.k # "union" /\ Has(t, next) -> next
      [] OTHER -> After(t, Front(path))

Fits(t, h) ==
    CASE h.k = "list" -> TRUE
      [] h.k = "str" -> t.k = "array" /\ t.t.k = "char"
      [] h.k = "copy" -> t = h.of
      [] OTHER -> t.k \in {"scalar", "char"}
Down(t, path, h) ==
    LET o == At(t, 0, path).t IN
    CASE Fits(o, h) -> path
      [] ~Fits(o, h) /\ o.k \in {"scalar", "char"} -> <<>>
      [] OTHER -> Down(t, Append(path, IF o.k = "array" THEN 0 ELSE 1), h)

\* The path of a designator, with its range at the first and at the last index.
Path(des, field) == [i \in DOMAIN des |-> IF des[i].k = "." THEN des[i].f ELSE des[i][field]]
WellKinded(t, des) ==
    \A i \in DOMAIN des : (des[i].k = ".") = Aggregate(At(t, 0, SubSeq(Path(des, "from"), 1, i - 1)).t)
Larger(a, b) == IF a > b THEN a ELSE b
Clear(m, c, n) == [a \in DOMAIN m \ (c .. c + n - 1) |-> m[a]]
WithAll(m, c, vs) == [a \in c .. c + Len(vs) - 1 |-> vs[a - c + 1]] @@ m

\* Where the code is known to go another way than C, in a list for type t, with
\* an item h that goes to q, found from the object at `from' on, behind x:
\* after an item that stops inside an aggregate whose braces are left out, a
\* designator is applied to that aggregate; after a designator of several parts
\* the next item goes to the next object of the outermost list;
ListAstray(x, h) == IF h.des = <<>> THEN Len(x.cur) \in 2 .. x.base ELSE Len(x.cur) > x.base
\* a value that goes to an aggregate without braces clears what it had, and is
\* not repeated over a range; arrays of unknown size are measured without
\* regard to values of structure type, and flexible members only in braces.
Flexible(t) == t.k = "array" /\ t.c < 0
ItemAstray(t, c, x, h, from, last, q) ==
    LET o == At(t, c, from) IN
    \/ Len(q) > Len(from) /\ (from # last \/ DOMAIN x.m \cap (o.c .. o.c + o.t.size - 1) # {})
    \/ \E k \in Len(from) .. Len(q) - 1 : Flexible(At(t, 0, SubSeq(q, 1, k)).t)
    \/ Flexible(t) /\ h.k = "copy"
    \/ Aggregate(t) /\ Flexible(Last(t.fs).t) /\ (Len(h.des) > 1 \/ (q[1] = Len(t.fs) /\ x.n > 0))

\* An object of type t at c, with an initializer that fits it; and one item of
\* a list, with x what the items before it have made: ok, the scalars m, the
\* elements n, the current object cur, the length of the last designator base,
\* and astray.
RECURSIVE Meaning(_, _, _, _), Item(_, _, _, _)
Meaning(t, c, h, m) ==
    LET start == [ok |-> TRUE, m |-> Clear(m, c, t.size), n |-> 0, base |-> 1, astray |-> FALSE,
                  cur |-> <<IF t.k = "array" THEN 0 ELSE 1>>]
    IN  CASE h.k = "val" -> [start EXCEPT !.m = (c :> h.v) @@ @]
          [] h.k = "copy" -> [start EXCEPT !.m = WithAll(@, c, h.vs)]
          [] h.k = "str" -> [start EXCEPT !.m = WithAll(@, c, SubSeq(h.s, 1, IF t.c < 0 THEN Len(h.s)
                                                           ELSE Len(h.s) - Larger(0, Len(h.s) - t.c))),
                                          !.n = Len(h.s) + 1]
          [] h.k = "list" /\ t.k \in {"scalar", "char"} ->
                IF Len(h.items) # 1 \/ h.items[1].des # <<>> \/ ~Fits(t, h.items[1])
                THEN [start EXCEPT !.ok = FALSE]
                ELSE Meaning(t, c, h.items[1], m)
          [] h.k = "list" /\ Fits(t, [k |-> "str"]) /\ Len(h.items) = 1 /\ h.items[1].k = "str"
                /\ h.items[1].des = <<>> -> Meaning(t, c, h.items[1], m)
          [] OTHER -> FoldLeft(LAMBDA x, i : Item(t, c, x, i), start, h.items)

Item(t, c, x, h) ==
    LET from == IF h.des = <<>> THEN x.cur ELSE Path(h.des, "from")
        last == IF h.des = <<>> THEN x.cur ELSE Path(h.des, "to")
        exists == /\ from # <<>> /\ Has(t, from) /\ Has(t, last)
                  /\ WellKinded(t, h.des) /\ Last(from) <= Last(last)
        q == Down(t, from, h)
        Nth(i) == [q EXCEPT ![Len(from)] = i]
        end == Nth(Last(last))
        Fill(y, i) == LET o == At(t, c, Nth(i))
                          in == Meaning(o.t, o.c, h, y.m)
                      IN  [y EXCEPT !.ok = @ /\ in.ok, !.m = in.m, !.n = in.n, !.astray = @ \/ in.astray]
        list == [x EXCEPT !.astray = @ \/ ListAstray(x, h)]
        item == [list EXCEPT !.astray = @ \/ ItemAstray(t, c, x, h, from, last, q)]
        filled == FoldLeft(Fill, item, [k \in 1 .. Last(last) - Last(from) + 1 |-> Last(from) + k - 1])
    IN  IF ~x.ok THEN x
        ELSE IF ~exists THEN [list EXCEPT !.ok = FALSE]
        ELSE IF q = <<>> THEN [list EXCEPT !.ok = FALSE]
        ELSE [filled EXCEPT !.cur = After(t, end),
                            !.base = IF h.des # <<>> THEN Len(h.des) ELSE IF Len(x.cur) = 1 THEN 1 ELSE @,
                            !.n = IF t.k = "array" THEN Larger(x.n, end[1] + 1)
                                  ELSE IF end[1] # Len(t.fs) THEN x.n
                                  ELSE IF Len(end) = 1 THEN @ ELSE Larger(x.n, end[2] + 1)]

\* The object as it should be.
Meant(type, init) ==
    LET x == Meaning(type, 0, init, <<>>)
        t == IF UnknownSize(type) THEN Sized(type, x.n) ELSE type
    IN  [astray |-> x.astray, err |-> ~x.ok,
         mem |-> [a \in 0 .. AllocSize(t) - 1 |-> IF a \in DOMAIN x.m THEN x.m[a] ELSE 0]]

\* The code accepts what C does, and the objects are as C says, in the frame
\* and in data, with every hole zeroed; in data, if no object is initialized
\* twice.
InitializerMeans(type, init) ==
    LET want == Meant(type, init)
        local == DeclInitializerAlloc(type, init, "local")
        data == DeclInitializerAlloc(type, init, "data")
    IN  want.astray \/ /\ local.err = want.err
                       /\ ~want.err => local.mem = want.mem
                       /\ ~data.err /\ ~data.twice => ~want.err /\ data.mem = want.mem
=============================================================================
