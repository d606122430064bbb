------------------------------ MODULE Assembler -----------------------------
(***************************************************************************)
(* The assembler of compiler/tccasm.c, which writes a file in one pass:    *)
(* labels that are defined and redefined, local labels of which "1b" is    *)
(* the last and "1f" the next, expressions that keep one symbol, sections  *)
(* that are left and entered again, and jumps of two lengths on i386.      *)
(*                                                                         *)
(* The state of an assembly is a record: the symbols with their ELF        *)
(* symbols, oldest first, so that the chain of a name is its symbols from  *)
(* the last one on; the current section and `ind'; of each section where   *)
(* it was left and its alignment; the words that were written, with their  *)
(* relocations.  A line is a statement, an expression is a tree.  The      *)
(* operators of two numbers are represented by * and <.                    *)
(*                                                                         *)
(* `lost' is set where the code passes over a part of an expression: the   *)
(* address of a symbol that is not defined yet in a .set, a pc-relative    *)
(* mark where a number or a target is wanted, the symbol of a .long and    *)
(* the addend of a jump on riscv64, where a number is taken as a distance. *)
(***************************************************************************)
EXTENDS Integers, Sequences, FiniteSets, SequencesExt, FiniteSetsExt

Null == 0
UNDEF == "undef"
ABS == "abs"
Text == ".text"
Bss == ".bss"
Sections == {Text, Bss, ".s"}   \* .s is created by the first .section
NoBits(sec) == sec = Bss

LocalName(n) == <<"L..">> \o n
SectionName(sec) == <<"L.", sec>>

Start(arch) ==
    [arch |-> arch, syms |-> <<>>, cur |-> Text, ind |-> 0,
     left |-> [sec \in Sections |-> 0],
     align |-> [sec \in Sections |-> CASE sec = ".s" -> 1 [] arch = "i386" -> 4 [] OTHER -> 8],
     words |-> <<>>, at |-> <<>>, err |-> FALSE, lost |-> FALSE,
     v |-> 0, sym |-> Null, pcrel |-> FALSE]   \* the ExprValue

Refuse(a) == [a EXCEPT !.err = TRUE]
Value(a, v, sym, pcrel) == [a EXCEPT !.v = v, !.sym = sym, !.pcrel = pcrel]

-----------------------------------------------------------------------------
(* Symbols.                                                                *)

AsmLabelFind(a, n) == SelectLastInSeq(a.syms, LAMBDA y : y.name = n)
PrevTok(a, id) ==
    SelectLastInSeq(SubSeq(a.syms, 1, id - 1), LAMBDA y : y.name = a.syms[id].name)

AsmLabelPush(a, n) ==
    [a EXCEPT !.syms = Append(@, [name |-> n, extern |-> TRUE, static |-> TRUE, func |-> FALSE,
                                  weak |-> FALSE, hidden |-> FALSE, c |-> FALSE, sec |-> UNDEF,
                                  value |-> 0, bind |-> "LOCAL", vis |-> "DEFAULT"])]
GetAsmSym(a, n) == IF AsmLabelFind(a, n) = Null THEN AsmLabelPush(a, n) ELSE a

\* With an ELF symbol that is defined.
Defined(y) == y.c /\ y.sec # UNDEF

UpdateStorage(y) ==
    IF ~y.c THEN y
    ELSE [y EXCEPT !.vis = IF y.hidden THEN "HIDDEN" ELSE @,
                   !.bind = CASE y.static -> "LOCAL" [] y.weak -> "WEAK" [] OTHER -> "GLOBAL"]
PutExternSym(y, sec, value) == UpdateStorage([y EXCEPT !.c = TRUE, !.sec = sec, !.value = value])

\* kind: 0 a label, 1 a local one, 2 a .set, which may be set again.
NewLabel(a, n, kind, sec, value) ==
    LET id == AsmLabelFind(a, n)
        old == id # Null /\ Defined(a.syms[id])
        again == old /\ ~a.syms[id].func /\ (kind = 1 \/ a.syms[id].extern)
        b == IF id = Null \/ again THEN AsmLabelPush(a, n) ELSE a
        k == AsmLabelFind(b, n)
        y == IF b.syms[k].c THEN b.syms[k] ELSE PutExternSym(b.syms[k], UNDEF, 0)
    IN  IF old /\ ~again /\ ~a.syms[id].extern THEN Refuse(a)
        ELSE [b EXCEPT !.syms[k] = [y EXCEPT !.sec = sec, !.value = value,
                                             !.extern = @ /\ kind = 2]]
AsmNewLabel(a, n, kind) == NewLabel(a, n, kind, a.cur, a.ind)

-----------------------------------------------------------------------------
(* Expressions.                                                            *)

\* Mutant: the last label of the name, be it defined or not.
Backward_Last(a, n) == AsmLabelFind(a, LocalName(n))

\* "1b": not the one that a "1f" has made and that is still to come.
Backward(a, n) ==
    LET id == AsmLabelFind(a, LocalName(n))
    IN  IF id # Null /\ ~Defined(a.syms[id]) THEN PrevTok(a, id) ELSE id

Forward(a, n) ==
    LET id == AsmLabelFind(a, LocalName(n))
    IN  IF id = Null \/ Defined(a.syms[id]) THEN AsmLabelPush(a, LocalName(n)) ELSE a

AsmExprUnary(a, e) ==
    CASE e.k = "num" -> Value(a, e.v, Null, FALSE)
      [] e.k = "b" -> LET id == Backward(a, e.n)
                      IN  IF id = Null THEN Refuse(a) ELSE Value(a, 0, id, FALSE)
      [] e.k = "f" -> LET b == Forward(a, e.n)
                      IN  Value(b, 0, AsmLabelFind(b, LocalName(e.n)), FALSE)
      [] e.k = "." -> LET n == SectionName(a.cur)
                          b == IF AsmLabelFind(a, n) = Null THEN NewLabel(a, n, 1, a.cur, 0) ELSE a
                      IN  Value(b, a.ind, AsmLabelFind(b, n), FALSE)
      [] e.k = "name" -> LET b == GetAsmSym(a, e.n)
                             id == AsmLabelFind(b, e.n)
                             y == b.syms[id]
                         IN  IF y.c /\ y.sec = ABS THEN Value(b, y.value, Null, FALSE)
                             ELSE Value(b, 0, id, FALSE)

\* A difference of two symbols is a number if both are defined in one section;
\* a symbol of this section that is subtracted makes the value relative to
\* the place of the word.
Minus(a, v, sym, pcrel) ==
    LET w == v - a.v
        y == a.syms[a.sym]
    IN  CASE a.sym = Null -> Value(a, w, sym, pcrel)
          [] a.sym = sym -> Value(a, w, Null, pcrel)
          [] OTHER ->
               IF ~y.c THEN Refuse(a)   \* a null pointer
               ELSE IF sym # Null /\ Defined(a.syms[sym]) /\ a.syms[sym].sec = y.sec
               THEN Value(a, w + a.syms[sym].value - y.value, Null, pcrel)
               ELSE IF y.sec = a.cur THEN Value(a, w - (y.value - a.ind - 4), sym, TRUE)
               ELSE Refuse(a)
Plus(a, v, sym, pcrel) ==
    IF sym # Null /\ a.sym # Null THEN Refuse(a)
    ELSE Value(a, v + a.v, IF sym = Null THEN a.sym ELSE sym, pcrel)
Numbers(a, v, sym, op) ==
    IF sym # Null \/ a.sym # Null THEN Refuse(a)
    ELSE Value(a, IF op = "*" THEN v * a.v ELSE IF v < a.v THEN -1 ELSE 0, Null, FALSE)

RECURSIVE AsmExpr(_, _)
AsmExpr(a, e) ==
    IF e.k \notin {"+", "-", "*", "<"} THEN AsmExprUnary(a, e)
    ELSE LET x == AsmExpr(a, e.a)
             y == AsmExpr(x, e.b)
         IN  CASE x.err -> x
               [] y.err -> y
               [] e.k = "+" -> Plus(y, x.v, x.sym, x.pcrel)
               [] e.k = "-" -> Minus(y, x.v, x.sym, x.pcrel)
               [] OTHER -> Numbers(y, x.v, x.sym, e.k)

AsmIntExpr(a, e) ==
    LET b == AsmExpr(a, e)
    IN  IF b.sym # Null THEN Refuse(b) ELSE [b EXCEPT !.lost = @ \/ b.pcrel]

-----------------------------------------------------------------------------
(* Statements.                                                             *)

SetSymbol(a, n, e) ==
    LET b == AsmExpr(a, e)
        known == b.sym # Null /\ b.syms[b.sym].c
        y == b.syms[b.sym]
        d == NewLabel(b, n, 2, IF known THEN y.sec ELSE ABS, IF known THEN b.v + y.value ELSE b.v)
    IN  IF b.err THEN b
        ELSE [d EXCEPT !.lost = @ \/ b.pcrel \/ (b.sym # Null /\ (~known \/ y.sec = UNDEF))]

UseSection(a, sec) ==
    LET left == [a.left EXCEPT ![a.cur] = a.ind]
    IN  [a EXCEPT !.left = left, !.cur = sec, !.ind = left[sec]]

Skip(a, size) == [a EXCEPT !.ind = @ + size]
AlignUp(n, m) == ((n + m - 1) \div m) * m
Align(a, n) ==
    [Skip(a, AlignUp(a.ind, n) - a.ind) EXCEPT
        !.align[a.cur] = IF @ < n THEN n ELSE @]

\* A word at ind + lead, with a relocation against sym or none; the symbol
\* of a relocation gets an ELF symbol.
Word(a, lead, size, rel, sym, v) ==
    LET b == [Skip(a, lead + size) EXCEPT
                 !.words = Append(@, [line |-> Len(a.at) + 1, sec |-> a.cur, at |-> a.ind + lead,
                                      end |-> a.ind + lead + size, rel |-> rel, sym |-> sym, v |-> v])]
    IN  IF rel = "none" \/ sym = Null \/ a.syms[sym].c THEN b
        ELSE [b EXCEPT !.syms[sym] = PutExternSym(@, UNDEF, 0)]

GenExpr32(a) ==
    IF a.arch = "riscv64"
    THEN [Word(a, 0, 4, "none", Null, a.v) EXCEPT !.lost = @ \/ a.sym # Null \/ a.pcrel]
    ELSE CASE a.pcrel -> Word(a, 0, 4, "pc", a.sym, a.v - 4)
           [] a.sym # Null -> Word(a, 0, 4, "abs", a.sym, a.v)
           [] OTHER -> Word(a, 0, 4, "none", Null, a.v)

\* jmp: a byte if the label is known and near, or else a word after another
\* opcode; j: a relocation.
IsByte(d) == d \in -128 .. 127
JumpI386(a) ==
    LET y == a.syms[a.sym]
        here == a.sym # Null /\ y.c /\ y.sec = a.cur
        d == a.v + y.value - a.ind
    IN  CASE here /\ IsByte(d - 2) -> Word(a, 1, 1, "none", Null, d - 2)
          [] here /\ ~IsByte(d - 2) -> Word(a, 1, 4, "none", Null, d - 5)
          [] OTHER -> Word(a, 1, 4, "pc", a.sym, a.v - 4)
JumpRiscv64(a) ==
    LET y == a.syms[a.sym]
    IN  IF a.sym = Null
        THEN IF a.v % 2 = 1 THEN Refuse(a) ELSE [Word(a, 0, 4, "none", Null, a.v) EXCEPT !.lost = TRUE]
        ELSE IF ~y.extern /\ ~y.static THEN Refuse(a)
        ELSE [Word(a, 0, 4, "jump", a.sym, 0) EXCEPT !.lost = @ \/ a.v # 0]
Jump(a) ==
    LET b == IF a.arch = "riscv64" THEN JumpRiscv64(a) ELSE JumpI386(a)
    IN  [b EXCEPT !.lost = @ \/ a.pcrel]

\* .globl, .weak and .hidden
Bind(a, d, n) ==
    LET b == GetAsmSym(a, n)
        id == AsmLabelFind(b, n)
    IN  [b EXCEPT !.syms[id] =
            UpdateStorage([@ EXCEPT !.static = @ /\ d = "hidden", !.weak = @ \/ d = "weak",
                                    !.hidden = @ \/ d = "hidden"])]
AsmType(a, n) ==
    LET b == GetAsmSym(a, n) IN [b EXCEPT !.syms[AsmLabelFind(b, n)].func = TRUE]

\* asm_parse_directive() and the labels and instructions of
\* tcc_assemble_internal().  A .byte, .word, .quad or .ascii takes no symbol
\* and is a .skip to the lines around it; .file, .ident, .size and .option do
\* nothing.  A .align of 0, which the code takes, is left out.
Statement(a, l) ==
    CASE l.k = "label" -> AsmNewLabel(a, l.n, 0)
      [] l.k = "local" -> AsmNewLabel(a, LocalName(l.n), 1)
      [] l.k = "set" -> SetSymbol(a, l.n, l.e)
      [] l.k = "section" -> UseSection(a, l.sec)
      [] l.k = "align" -> Align(a, l.v)
      [] l.k = "skip" -> LET b == AsmIntExpr(a, l.e) IN Skip(b, IF b.v < 0 THEN 0 ELSE b.v)
      [] l.k = "long" -> LET b == AsmExpr(a, l.e)
                         IN  IF b.err THEN b ELSE IF NoBits(b.cur) THEN Skip(b, 4) ELSE GenExpr32(b)
      [] l.k = "jump" -> LET b == AsmExpr(a, l.e) IN IF b.err THEN b ELSE Jump(b)
      [] l.k \in {"globl", "weak", "hidden"} -> Bind(a, l.k, l.n)
      [] l.k = "type" -> AsmType(a, l.n)

\* `at': where each line began and what it took.
Step(a, l) ==
    LET b == Statement(a, l)
    IN  IF a.err THEN a
        ELSE [b EXCEPT !.at = Append(@, [sec |-> b.cur,
                 size |-> IF l.k = "section" THEN 0 ELSE b.ind - a.ind])]
TccAssemble(arch, lines) ==
    LET a == FoldLeft(Step, Start(arch), lines) IN [a EXCEPT !.left[a.cur] = a.ind]

-----------------------------------------------------------------------------
(* What a listing means, and what a program that is linked from it finds.  *)

\* Sections that are as aligned as they ask to be, and no better.
Base(a, sec) ==
    a.align[sec] * (CASE sec = Text -> 1001 [] sec = Bss -> 2001 [] OTHER -> 3001)
External(n) == 90000 + Len(n)

Place(a, k) ==
    LET sec == a.at[k].sec
    IN  Base(a, sec) + FoldLeft(LAMBDA t, j : IF a.at[j].sec = sec THEN t + a.at[j].size ELSE t,
                                0, [j \in 1 .. k - 1 |-> j])

LinesOf(lines, kinds, n) == {j \in DOMAIN lines : lines[j].k \in kinds /\ lines[j].n = n}
\* The definition that a name has at line k.
Defining(lines, n, k) ==
    LET defs == LinesOf(lines, {"label", "set"}, n)
        before == {j \in defs : j < k}
    IN  IF before # {} THEN Max(before) ELSE IF defs # {} THEN Min(defs) ELSE Null
Before(lines, n, k) == {j \in LinesOf(lines, {"local"}, n) : j < k}
After(lines, n, k) == {j \in LinesOf(lines, {"local"}, n) : j > k}

RECURSIVE Denotes(_, _, _, _), Denoted(_, _, _)
\* A label that is never placed has no meaning.
Denoted(lines, e, k) ==
    CASE e.k = "b" -> Before(lines, e.n, k) # {}
      [] e.k = "f" -> After(lines, e.n, k) # {}
      [] e.k \in {"+", "-", "*", "<"} -> Denoted(lines, e.a, k) /\ Denoted(lines, e.b, k)
      [] OTHER -> TRUE
Denotes(a, lines, e, k) ==
    CASE e.k = "num" -> e.v
      [] e.k = "." -> Place(a, k)
      [] e.k = "b" -> Place(a, Max(Before(lines, e.n, k)))
      [] e.k = "f" -> Place(a, Min(After(lines, e.n, k)))
      [] e.k = "name" -> LET j == Defining(lines, e.n, k)
                         IN  CASE j = Null -> External(e.n)
                               [] lines[j].k = "set" -> Denotes(a, lines, lines[j].e, j)
                               [] OTHER -> Place(a, j)
      [] OTHER -> LET x == Denotes(a, lines, e.a, k)
                      y == Denotes(a, lines, e.b, k)
                  IN  CASE e.k = "+" -> x + y [] e.k = "-" -> x - y [] e.k = "*" -> x * y
                        [] OTHER -> IF x < y THEN -1 ELSE 0

\* The value of a word after relocation.
Address(a, id) ==
    CASE id = Null -> 0
      [] a.syms[id].sec = UNDEF -> External(a.syms[id].name)
      [] a.syms[id].sec = ABS -> a.syms[id].value
      [] OTHER -> Base(a, a.syms[id].sec) + a.syms[id].value
Relocated(a, w) ==
    CASE w.rel = "none" -> w.v
      [] w.rel = "pc" -> Address(a, w.sym) + w.v - (Base(a, w.sec) + w.at)
      [] w.rel = "jump" -> Address(a, w.sym) - (Base(a, w.sec) + w.at)
      [] OTHER -> Address(a, w.sym) + w.v
\* A jump goes to the end of its word and on by it; j counts from its start.
Found(a, lines, w) ==
    IF lines[w.line].k # "jump" THEN Relocated(a, w)
    ELSE Base(a, w.sec) + Relocated(a, w) + (IF w.rel = "jump" THEN w.at ELSE w.end)

\* Words that a local label which never comes is part of are left to the
\* linker, which does not find it.
WordsMean(a, lines) ==
    \A i \in DOMAIN a.words :
        LET w == a.words[i]
            e == lines[w.line].e
        IN  Denoted(lines, e, w.line) => Found(a, lines, w) = Denotes(a, lines, e, w.line)
AlignedAsAsked(a, lines) ==
    \A k \in DOMAIN lines :
        lines[k].k = "align" => (Place(a, k) + a.at[k].size) % lines[k].v = 0
SectionsWhole(a) ==
    \A sec \in Sections :
        a.left[sec] = FoldLeft(LAMBDA t, r : IF r.sec = sec THEN t + r.size ELSE t, 0, a.at)
\* A name with one definition has the binding that the directives give it,
\* before the definition or after it.
BindingsMean(a, lines) ==
    \A id \in DOMAIN a.syms :
        LET y == a.syms[id]
            Has(k) == LinesOf(lines, {k}, y.name) # {}
        IN  Cardinality(LinesOf(lines, {"label", "set"}, y.name)) = 1 /\ y.c =>
                /\ y.bind = CASE Has("weak") -> "WEAK" [] Has("globl") -> "GLOBAL" [] OTHER -> "LOCAL"
                /\ (y.vis = "HIDDEN") = Has("hidden")

ListingMeans(arch, lines) ==
    LET a == TccAssemble(arch, lines)
    IN  a.err \/ a.lost \/ ( /\ WordsMean(a, lines)
                             /\ AlignedAsAsked(a, lines)
                             /\ SectionsWhole(a)
                             /\ BindingsMean(a, lines) )
=============================================================================
