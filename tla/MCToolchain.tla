------------------------------ MODULE MCToolchain ----------------------------
(***************************************************************************)
(* The linker on programs of a C file, an object file and an archive of    *)
(* two members that all use or define the same two names, each in every    *)
(* role; and the compiler's pure algorithms, each on every small input:    *)
(* a step adds a character, a token, an operand, an argument, an item, a   *)
(* member or a line to the input, `word'.                                  *)
(***************************************************************************)
EXTENDS Linker, TLC

CONSTANTS ArgRegs, MaxText, MaxTokens, MaxOperands, MaxArgs, MaxItems, MaxMembers,
          MaxLines

VARIABLES part, word

mcVars == <<part, word, vars>>

S == INSTANCE Scanner
M == INSTANCE Macros
A == INSTANCE InlineAsm
C == INSTANCE CallConv
N == INSTANCE Initializers
Y == INSTANCE Layout
L == INSTANCE Assembler

-----------------------------------------------------------------------------
(* Command lines.                                                          *)

Hash(name) == CASE name = "x" -> 2 [] name = "y" -> 4 [] name = "_start" -> 6
                [] OTHER -> 1

Sec(name, size, align) ==
    [name |-> name, size |-> size, align |-> align,
     type |-> IF name = ".bss" THEN "NOBITS" ELSE "PROGBITS",
     flags |-> IF name = ".text" THEN {"ALLOC", "EXEC"} ELSE {"ALLOC", "WRITE"}]

\* Sections 1, 2 and 3 of every file.
Secs(n) == <<Sec(".text", n, 2), Sec(".data", 3, 1), Sec(".bss", 2, 2)>>

\* A symbol of a role: where it is defined, and how.
Role(name, role) ==
    [name |-> name,
     bind |-> CASE role \in {"weak", "wundef"} -> "WEAK" [] role = "local" -> "LOCAL"
                [] OTHER -> "GLOBAL",
     vis |-> IF role = "hidden" THEN HIDDEN ELSE DEFAULT,
     sec |-> CASE role \in {"undef", "wundef", "got"} -> UNDEF [] role = "common" -> COMMON
               [] role = "bss" -> 3 [] OTHER -> 2,
     value |-> CASE role = "common" -> 2 [] role \in {"undef", "wundef", "got", "bss"} -> 0
                 [] OTHER -> 1,
     size |-> IF role \in {"undef", "wundef", "got"} THEN 0 ELSE 2]

\* A file that has x and y in these roles and refers to both from its text.
File(id, kind, n, roles) ==
    LET names == SelectSeq(<<"x", "y">>, LAMBDA a : roles[a] # "none")
        syms == [k \in DOMAIN names |-> Role(names[k], roles[names[k]])]
        start == [name |-> "_start", bind |-> "GLOBAL", vis |-> DEFAULT, sec |-> 1,
                  value |-> 0, size |-> 1]
    IN  [id |-> id, kind |-> kind, secs |-> Secs(n),
         syms |-> IF id = "main" THEN Append(syms, start) ELSE syms,
         rels |-> [k \in DOMAIN names |-> [sec |-> 1, off |-> 0, sym |-> k,
                     kind |-> IF roles[names[k]] = "got" THEN "got" ELSE "abs"]]]

\* A file whose .bss is not one.
OddFile == [File("odd", "o", 2, [x |-> "def", y |-> "none"]) EXCEPT
               !.secs[3].type = "PROGBITS"]

Archive(m1, m2, mx, my) ==
    [kind |-> "a", id |-> "lib",
     members |-> <<File(m1, "o", 3, [x |-> "none", y |-> my]),
                   File(m2, "o", 1, [x |-> mx, y |-> "undef"])>>]

\* main with one more name, which nothing defines.
MainWith(role) ==
    LET f == File("main", "c", 3, [x |-> "undef", y |-> "none"]) IN
    [f EXCEPT !.syms = Append(@, Role("z", role)),
              !.rels = Append(@, [sec |-> 1, off |-> 1, sym |-> Len(f.syms) + 1, kind |-> "abs"])]

Programs ==
    {<<File("main", "c", 3, [x |-> x, y |-> y]), File("obj", "o", 2, [x |-> x2, y |-> "local"]),
       Archive("m1", "m2", mx, my)>> :
          x \in {"none", "undef", "wundef", "got", "def", "weak", "common", "bss", "local", "hidden"},
          y \in {"none", "got", "weak"},
          x2 \in {"none", "undef", "wundef", "def", "weak", "common", "bss"},
          mx \in {"def", "weak"}, my \in {"def", "common"}}
    \cup {<<File("obj", "o", 2, [x |-> x2, y |-> "local"]),
            File("main", "c", 3, [x |-> x, y |-> "common"])>> :
              x \in {"undef", "def", "weak", "common", "local"},
              x2 \in {"undef", "def", "weak", "common"}}
    \cup {<<File("main", "c", 3, [x |-> "undef", y |-> "none"]), OddFile>>,
          <<File("main", "c", 3, [x |-> "undef", y |-> "none"]),
            [kind |-> "a", id |-> "lib", members |-> <<OddFile>>]>>}
    \cup {<<MainWith(role)>> : role \in {"undef", "wundef"}}

Libraries == <<Archive("r1", "r2", "def", "def")>>

\* The names that occur, of files and of the linker.
NamesUsed == {"x", "y", "z", "_start", "_end", "__init_array_start", "_GLOBAL_OFFSET_TABLE_"}

Provided == <<[name |-> "_end", sec |-> ".bss", at |-> "end"],
              [name |-> "__init_array_start", sec |-> ".init_array", at |-> "start"]>>

-----------------------------------------------------------------------------
(* Source text, from three alphabets, read in blocks of one or two bytes.  *)
Alphabets == {{"a", "/", "*", S!BS, S!NL, "QUOTE"}, {"e", "1", ".", "+", S!BS, S!NL},
              {"/", "*", S!BS, S!NL, "CRLF"}}
TextStart == [alphabet : Alphabets, text : {<<>>}, block : {1, 2}]
TextNext == Len(word.text) < MaxText /\ \E c \in word.alphabet :
    word' = [word EXCEPT !.text = @ \o IF c = "CRLF" THEN <<S!CR, S!NL>> ELSE <<c>>]

(* Macros f(x) and ab of these bodies, and a text that uses them.          *)
a == <<"a">>
b == <<"b">>
f == <<"f">>
ab == <<"a", "b">>
x == <<"x">>
FBodies == {<<x>>, <<x, ab>>, <<f, M!Open, x, M!Close>>, <<ab, x>>, <<x, f>>, <<x, M!PpJoin, b>>,
            <<M!Sharp, x>>, <<x, M!PpJoin, x>>, <<ab, M!Open, x, M!Close>>, <<x, x>>, <<>>, <<f>>,
            <<ab>>, <<x, M!PpJoin, f>>}
ABodies == {<<f>>, <<a>>, <<ab>>, <<f, M!Open, a>>, <<f, M!Open, ab, M!Close>>, <<a, f>>, <<>>,
            <<f, a>>, <<a, M!PpJoin, b>>, <<f, M!PpJoin, M!Open>>}
TokensStart ==
    {[defs |-> (f :> M!ParseDefine(TRUE, <<x>>, FALSE, fb)) @@ (ab :> M!ParseDefine(FALSE, <<>>, FALSE, gb)),
      toks |-> <<>>] : fb \in FBodies, gb \in ABodies}
TokensNext == Len(word.toks) < MaxTokens /\ \E t \in {f, ab, a, M!Open, M!Close} :
    word' = [word EXCEPT !.toks = Append(@, t)]

(* asm statements of up to two outputs and two inputs, on both targets.    *)
Operand(mods, letters, loc) ==
    [mods |-> mods, letters |-> letters, ref |-> "", id |-> "", loc |-> loc, rv |-> A!None]
Regvar(mods, r) == [Operand(mods, <<"r">>, "regvar") EXCEPT !.rv = r]
Matching(r) == [Operand({}, <<>>, "local") EXCEPT !.ref = r]
OutputConstraints(arch) ==
    {<<{}, <<"r">>>>, <<{"&"}, <<"r">>>>, <<{"+"}, <<"r">>>>, <<{}, <<"m">>>>, <<{"+"}, <<"m">>>>,
     <<{}, <<"g">>>>}
      \cup IF arch = A!I386 THEN {<<{}, <<"a">>>>, <<{"&"}, <<"b">>>>, <<{"+"}, <<"q">>>>}
           ELSE {<<{"&"}, <<"m">>>>}
Outputs(arch) ==
    {Operand(k[1], k[2], "local") : k \in OutputConstraints(arch)}
      \cup {Operand(k[1], k[2], "llocal") : k \in OutputConstraints(arch)}
      \cup IF arch = A!I386
           THEN {Operand({}, <<"A">>, "local"), Operand({"+"}, <<"A">>, "local"), Regvar({}, 1)}
           ELSE {Regvar(m, r) : m \in {{}, {"+"}}, r \in {9, 17}}
Inputs(arch) ==
    {Operand({}, <<"r">>, "local"), Operand({}, <<"r">>, "const"), Operand({}, <<"r">>, "llocal"),
     Operand({}, <<"i", "r">>, "const"), Operand({}, <<"i", "r">>, "local"),
     Operand({}, <<"m">>, "local"), Operand({}, <<"m">>, "llocal"),
     Operand({}, <<"r", "m">>, "llocal"), Operand({}, <<"g">>, "const"), Matching("0"), Matching("x")}
      \cup IF arch = A!I386
           THEN {Operand({}, <<"I", "a">>, "symbol"), Operand({}, <<"b">>, "local"), Operand({}, <<"q">>, "local")}
           ELSE {}
AsmStart ==
    [arch : {A!I386}, ops : {<<>>}, nout : {0}, clobbers : {{}, {0, A!None}, {3}}]
      \cup [arch : {A!Riscv64}, ops : {<<>>}, nout : {0}, clobbers : {{}, {10}, {9}, {10, 17}, {10, 18}}]
AddOutput ==
    /\ Len(word.ops) = word.nout /\ word.nout < 2
    /\ \E o \in Outputs(word.arch) :
          word' = [word EXCEPT !.nout = @ + 1,
                               !.ops = Append(@, [o EXCEPT !.id = IF word.nout = 1 THEN "x" ELSE ""])]
AddInput ==
    /\ Len(word.ops) < word.nout + 2 /\ Len(word.ops) < MaxOperands
    /\ \E o \in Inputs(word.arch) : word' = [word EXCEPT !.ops = Append(@, o)]
\* A matching operand refers to an output that has to be in a register and
\* that is not itself read.
MatchesWell(ops, nout) ==
    \A i \in DOMAIN ops : ops[i].ref # "" =>
        LET k == A!Referenced(ops, i)
        IN  /\ k \in 1 .. nout => ops[k].letters[1] \notin {"m", "g"} /\ ~A!IsRw(ops[k])
            /\ k \notin nout + 1 .. i - 1

(* Calls: argument types, how many the prototype names, whether a struct   *)
(* comes back through a hidden pointer.                                    *)
Char1 == C!Scalar(1, FALSE)
Int4 == C!Scalar(4, FALSE)
Long8 == C!Scalar(8, FALSE)
Float4 == C!Scalar(4, TRUE)
Double8 == C!Scalar(8, TRUE)
Two(t, u, at, size) ==
    C!Struct(<<C!Field(0, t), C!Field(at, u)>>, size, IF t.size > u.size THEN t.size ELSE u.size)
Whole(t, align) == C!Struct(<<C!Field(0, t)>>, t.size, align)
ArgTypes ==
    {Int4, Long8, Float4, Double8, Two(Long8, Long8, 8, 16), Two(Long8, Char1, 8, 16),
     Two(Float4, Float4, 4, 8), Two(Int4, Float4, 4, 8), Two(Double8, Long8, 8, 16),
     Two(Long8, Double8, 8, 16), Two(Float4, Double8, 8, 16), Two(Double8, Float4, 8, 16),
     C!LongDouble, Whole(C!LongDouble, 16), Whole(C!Array(3, Char1), 1), Whole(C!Array(2, Float4), 4), Whole(C!Array(3, Int4), 4),
     C!Struct(<<C!Field(0, Two(Long8, Long8, 8, 16)), C!Field(16, Double8)>>, 24, 8),
     C!Struct(<<C!Field(0, C!Array(2, Double8)), C!Field(16, Int4)>>, 24, 8)}
StackSizes == {0, 16, 2032, 2048, 4080, 4096, 4112, 6144, 8192, 12288}
FrameSizes == {16, 32, 2032, 2048, 2064, 4096, 4112, 6144, 6160, 8208}
CallStart == [args : {<<>>}, declared : {0}, sret : BOOLEAN]
CallNext == Len(word.args) < MaxArgs /\ \E t \in ArgTypes :
    \E named \in {word.declared} \cup (IF word.declared = Len(word.args) THEN {word.declared + 1} ELSE {}) :
        word' = [word EXCEPT !.args = Append(@, t), !.declared = named]

(* Initializers of these types.                                            *)
Value(n) == [k |-> "val", v |-> n, des |-> <<>>]
Braces(items) == [k |-> "list", items |-> items, des |-> <<>>]
Text(s) == [k |-> "str", s |-> s, des |-> <<>>]
Point == N!StructOf(<<N!Member(0, N!Word), N!Member(1, N!Word)>>, 2)
CopyOf(vs) == [k |-> "copy", of |-> Point, vs |-> vs, des |-> <<>>]
DataTypes ==
    {N!ArrayOf(3, N!Word), N!ArrayOf(-1, N!Word), N!ArrayOf(2, N!ArrayOf(2, N!Word)), N!ArrayOf(-1, Point),
     N!ArrayOf(2, N!Char), N!ArrayOf(-1, N!Char),
     N!StructOf(<<N!Member(0, Point), N!Member(2, N!Word)>>, 3),
     N!StructOf(<<N!Member(0, N!Word), N!Member(1, N!ArrayOf(2, N!Word))>>, 3),
     N!StructOf(<<N!Member(0, N!Word), N!Member(1, N!UnionOf(<<N!Member(0, N!Word), N!Member(0, Point)>>, 2)),
                  N!Member(3, N!Word)>>, 4),
     N!StructOf(<<N!Member(0, N!Word), N!Member(1, N!ArrayOf(-1, N!Word))>>, 1)}
Values(t, n) ==
    {Value(n), Braces(<<Value(n)>>)}
      \cup IF t.k = "array" /\ t.t.k = "char"
           THEN {Text(<<n>>), Text(<<n, n + 1>>), Text(<<n, n + 1, n + 2>>)}
           ELSE {Braces(<<Value(n), Value(n + 1)>>), CopyOf(<<n, n + 1>>)}
Designators(t) ==
    IF t.k # "array"
    THEN {<<>>, <<N!Dot(1)>>, <<N!Dot(2)>>, <<N!Dot(1), N!Dot(2)>>, <<N!Dot(2), N!Index(1, 1)>>,
          <<N!Dot(2), N!Dot(2)>>}
    ELSE {<<>>, <<N!Index(0, 0)>>, <<N!Index(2, 2)>>, <<N!Index(1, 2)>>}
           \cup CASE t.t.k = "array" -> {<<N!Index(1, 1), N!Index(1, 1)>>, <<N!Index(1, 1), N!Index(0, 1)>>}
                  [] t.t.k = "struct" -> {<<N!Index(1, 1), N!Dot(2)>>}
                  [] OTHER -> {}
DataStart == [type : DataTypes, items : {<<>>}]
DataNext == Len(word.items) < MaxItems /\ \E d \in Designators(word.type) :
    \E v \in Values(word.type, 10 * Len(word.items) + 1) :
        word' = [word EXCEPT !.items = Append(@, [v EXCEPT !.des = d])]

(* Structures and unions of these members.                                 *)
Plain(size) == [size |-> size, bits |-> Y!None, packed |-> FALSE, aligned |-> 0, named |-> TRUE]
Bits(size, bits, packed) ==
    [size |-> size, bits |-> bits, packed |-> packed, aligned |-> 0, named |-> bits # 0]
Members ==
    {Plain(1), Plain(2), Plain(8), Bits(1, 0, FALSE), Bits(1, 7, FALSE), Bits(2, 9, FALSE), Bits(2, 9, TRUE),
     Bits(4, 0, FALSE), Bits(4, 5, FALSE), Bits(4, 31, FALSE), Bits(8, 12, FALSE), Bits(8, 63, FALSE),
     Bits(4, 30, TRUE), [Bits(4, 6, FALSE) EXCEPT !.aligned = 2], [Bits(4, 6, FALSE) EXCEPT !.named = FALSE]}
StructStart == [fields : {<<>>}, packed : BOOLEAN, union : BOOLEAN]
StructNext == Len(word.fields) < MaxMembers /\ \E m \in Members :
    word' = [word EXCEPT !.fields = Append(@, m)]

(* Listings of labels and what refers to them, and of sections and what    *)
(* fills them.                                                             *)
Num(n) == [k |-> "num", v |-> n]
Nam(n) == [k |-> "name", n |-> n]
One == <<"1">>
Back == [k |-> "b", n |-> One]
Forth == [k |-> "f", n |-> One]
Op(op, l, r) == [k |-> op, a |-> l, b |-> r]
Line(k, e) == [k |-> k, e |-> e]
SetTo(n, e) == [k |-> "set", n |-> n, e |-> e]
On(k, n) == [k |-> k, n |-> n]
In(sec) == [k |-> "section", sec |-> sec]
LabelLines ==
    {On("label", x), On("local", One), SetTo(x, Num(3)), SetTo(ab, Op("+", Nam(x), Num(1))), In(".s"),
     Line("long", Nam(x)), Line("long", Nam(ab)), Line("long", Op("-", Forth, [k |-> "."])),
     Line("long", Op("-", Nam(x), Back)), Line("jump", Nam(x)), Line("jump", Forth), Line("jump", Back)}
LayoutLines ==
    {In(".s"), In(".bss"), In(".text"), [k |-> "align", v |-> 4], Line("skip", Num(126)),
     Line("skip", Op("*", Num(127), Op("<", Num(0), Num(1)))), Line("skip", Num(127)), On("label", x),
     Line("jump", Op("+", Nam(x), Num(0))), Line("long", Nam(x)), On("globl", x), On("weak", x),
     On("hidden", x), On("type", x)}
ListingStart == [arch : {"i386", "riscv64"}, menu : {"labels", "layout"}, lines : {<<>>}]
\* There is no code in a section that takes no bytes.
CodeHasBytes(lines) ==
    \A j \in DOMAIN lines : lines[j].k = "jump" =>
        \A i \in 1 .. j - 1 : lines[i].k = "section" /\ lines[i].sec = ".bss" =>
            \E h \in i + 1 .. j - 1 : lines[h].k = "section" /\ lines[h].sec # ".bss"
ListingNext == Len(word.lines) < MaxLines /\
    \E l \in (IF word.menu = "labels" THEN LabelLines ELSE LayoutLines) :
        word' = [word EXCEPT !.lines = Append(@, l)] /\ CodeHasBytes(word'.lines)

-----------------------------------------------------------------------------
\* A linker that has nothing to do.
NoLink ==
    /\ input = <<>> /\ archive = NoArchive /\ phase = "idle" /\ options = [output_type |-> "OBJ"]
    /\ nb_errors = 0 /\ secs = StandardSections /\ tab = EmptyTable /\ rels = <<>>
    /\ got = [sec |-> 0, offset |-> <<>>] /\ phdr = <<>> /\ placed = <<>> /\ seen = <<>>

MCInit ==
    \/ part = "link" /\ word = 0 /\ Init
    \/ /\ NoLink
       /\ \/ part = "text" /\ word \in TextStart
          \/ part = "tokens" /\ word \in TokensStart
          \/ part = "asm" /\ word \in AsmStart
          \/ part = "call" /\ word \in CallStart
          \/ part = "data" /\ word \in DataStart
          \/ part = "struct" /\ word \in StructStart
          \/ part = "listing" /\ word \in ListingStart

MCNext ==
    /\ UNCHANGED part
    /\ \/ part = "link" /\ Next /\ UNCHANGED word
       \/ /\ UNCHANGED vars
          /\ \/ part = "text" /\ TextNext
             \/ part = "tokens" /\ TokensNext
             \/ part = "asm" /\ (AddOutput \/ AddInput)
             \/ part = "call" /\ CallNext
             \/ part = "data" /\ DataNext
             \/ part = "struct" /\ StructNext
             \/ part = "listing" /\ ListingNext

MCSpec == MCInit /\ [][MCNext]_mcVars

-----------------------------------------------------------------------------
(* What holds of an input is stated of the step that completes it.         *)

\* Where a file is cut into blocks does not show: line splices, comments,
\* numbers and strings that straddle the end of the buffer are read as if the
\* file were in one piece (handle_eob(), parse_comment(), next_nomacro1()).
BlocksInvisible == [][part = "text" => S!BlocksDoNotShow(word'.text, word'.block)]_mcVars

\* The text that macro_subst() yields is the one that C's rules of expansion
\* describe, with every name kept from expanding inside its own expansion
\* and free to expand after it (macro_subst_tok(), nested_list).
MacrosExpand ==
    [][part = "tokens" => LET e == M!Expanded(word'.toks, word'.defs)
                          IN  e.err \/ e.toks = M!Written(word'.toks, word'.defs)]_mcVars

\* An asm statement that is accepted gets every input in a place that its
\* constraint allows and no other operand disturbs, leaves every output in
\* its variable, and keeps the saved registers (asm_compute_constraints(),
\* asm_gen_code(), subst_asm_operand()).
AsmOperandsArrive ==
    [][part = "asm" /\ MatchesWell(word'.ops, word'.nout) =>
          A!OperandsArrive(word'.arch, word'.ops, word'.nout, word'.clobbers)]_mcVars

\* A callee finds every argument, named or variable, where its caller put it,
\* a returned value comes back whole, and the stack pointer is restored after
\* the call and by the epilogue of any frame (gfunc_call(), gfunc_prolog(),
\* gfunc_epilog()); the calls that `Ordinary' and `WholePages' leave out are
\* those that the code gets wrong.
CallsAgree ==
    [][part = "call" =>
          /\ C!Ordinary(word'.args, word'.declared, word'.sret) =>
                C!ArgumentsArrive(word'.args, word'.declared, word'.sret)
          /\ word.args = <<>> =>
                /\ word'.args[1] # Two(Float4, Double8, 8, 16) => C!ReturnArrives(word'.args[1])
                /\ \A n \in StackSizes : C!WholePages(n) => C!SpKept(n)
                /\ \A size \in FrameSizes, n \in 0 .. 8, alloca \in {0, 16} :
                      C!FrameRestored(size, n, alloca)]_mcVars

\* An initializer gives the object the size and the bytes that C says,
\* static or automatic, with designators, elided braces, strings and zeros
\* for the rest (decl_initializer(), decl_designator(), init_putv()).
InitializersMean == [][part = "data" => N!InitializerMeans(word'.type, Braces(word'.items))]_mcVars

\* Members of a structure do not overlap, a bit-field is read and written
\* through an access that stays in the structure, and what is stored is what
\* is loaded (struct_layout(), adjust_bf(), store_packed_bf()).
MembersApart == [][part = "struct" => Y!LayoutSound(word'.fields, word'.union, word'.packed)]_mcVars

\* In a listing that is assembled, a word or a jump gets after relocation the
\* value of its expression: a name is its last definition before or else its
\* first one after, "1b" the last and "1f" the next local label, in whatever
\* sections they are; a line is aligned as it asks, and a section goes on
\* where it was left (asm_new_label1(), asm_expr_sum(), set_symbol(),
\* use_section1(), asm_parse_directive()).
ListingsMean == [][part = "listing" => L!ListingMeans(word'.arch, word'.lines)]_mcVars
=============================================================================
