------------------------------- MODULE Scopes -------------------------------
(***************************************************************************)
(* The compiler's symbol stacks (src/compiler/symbols.c) and the parts of  *)
(* declaration parsing that drive them (tccgen.c).  Every identifier token *)
(* heads a chain of symbols, innermost first; declarations push on the     *)
(* local or the global stack and on the chain, leaving a scope pops both.  *)
(* An action is one declaration, reference, block boundary or function     *)
(* boundary of the program that is compiled; the program is any sequence   *)
(* of them that MaxSyms symbols allow.  A symbol is an index into the      *)
(* pool, 0 is the null pointer.                                            *)
(***************************************************************************)
EXTENDS Naturals, Sequences, FiniteSets, SequencesExt

CONSTANTS Names,       \* identifiers of the program
          Objects,     \* those that are also declared as something other than a function
          Labels,      \* labels of the program
          MaxSyms,     \* symbols of the pool
          MaxScope     \* nested blocks, the function's own included

VARIABLES cc,        \* symbols, pool, stacks and token table
          scopes,    \* lstk of the open blocks, outermost first
          fns,       \* recorded inline functions
          emitted,   \* functions whose code was generated, in order
          phase,     \* "file", "body", "inline", "done" or "error"
          env,       \* reference: what each open scope declares, file scope first
          ref        \* reference: names with a definition, with a static or a
                     \* plain declaration, called; whether a rule was broken

vars == <<cc, scopes, fns, emitted, phase, env, ref>>

Ids == 1 .. MaxSyms
Null == 0
local_scope == Len(scopes)

(* Storage flags of a type (VT_EXTERN, VT_STATIC, VT_INLINE).              *)
Flags == {"EXTERN", "STATIC", "INLINE"}

(* kind: what the symbol declares; c: 0 no ELF symbol, 1 undefined,        *)
(* 2 defined; scope: the word sym_scope shares with the high half of       *)
(* enum_val and with f; ref: the tag of an enumerator.                     *)
NoSym == [v |-> "none", kind |-> "none", t |-> {}, c |-> 0, scope |-> 0, ref |-> Null, prev_tok |-> Null]

NewSym(n, kind, t) == [NoSym EXCEPT !.v = n, !.kind = kind, !.t = t]

-----------------------------------------------------------------------------
(* symbols.c                                                               *)

SymPush2(s, stack, rec) ==
    LET id == Head(s.pool)
    IN  [s EXCEPT !.pool = Tail(@), !.sym[id] = rec, ![stack] = Append(@, id)]

SymFree(s, id) == [s EXCEPT !.pool = <<id>> \o @, !.sym[id] = NoSym]

SymFind(s, n) == s.ident[n]

SymScope_Own(s, id) == s.sym[id].scope

SymScope(s, id) ==
    IF s.sym[id].kind = "enum" THEN s.sym[s.sym[id].ref].scope ELSE s.sym[id].scope

(* The stack a declaration goes to.                                        *)
Here(s) == IF s.lstack # <<>> THEN "lstack" ELSE "gstack"

SymPush(s, scope, space, rec) ==
    LET id   == Head(s.pool)
        full == [rec EXCEPT !.scope = scope, !.prev_tok = s[space][rec.v]]
    IN  [SymPush2(s, Here(s), full) EXCEPT ![space][rec.v] = id]

Redeclares(s, scope, space, n) ==
    s[space][n] # Null /\ SymScope(s, s[space][n]) = scope

(* The symbols of a token, innermost first (prev_tok).                     *)
RECURSIVE Chain(_, _)
Chain(s, id) == IF id = Null THEN <<>> ELSE <<id>> \o Chain(s, s.sym[id].prev_tok)

(* The first symbol of the token that the condition accepts.               *)
FirstOf(s, n, Accept(_)) ==
    LET found == SelectSeq(Chain(s, s.ident[n]), Accept)
    IN  IF found = <<>> THEN Null ELSE Head(found)

FirstGlobal(s, n) == FirstOf(s, n, LAMBDA id : s.sym[id].scope = 0)

GlobalIdentifierPush_OnTop(s, rec) ==
    [SymPush2(s, "gstack", [rec EXCEPT !.prev_tok = s.ident[rec.v]])
        EXCEPT !.ident[rec.v] = Head(s.pool)]

(* The new symbol goes under the token's local ones.                       *)
GlobalIdentifierPush(s, rec) ==
    LET id     == Head(s.pool)
        below  == FirstGlobal(s, rec.v)
        locals == SelectSeq(Chain(s, s.ident[rec.v]), LAMBDA i : s.sym[i].scope # 0)
        s1     == SymPush2(s, "gstack", [rec EXCEPT !.prev_tok = below])
    IN  IF s.ident[rec.v] = below THEN [s1 EXCEPT !.ident[rec.v] = id]
        ELSE LET above == CHOOSE i \in ToSet(locals) : s.sym[i].prev_tok = below
             IN  [s1 EXCEPT !.sym[above].prev_tok = id]

AsmLabelFind(s, n) == FirstOf(s, n, LAMBDA id : s.sym[id].scope = 0 \/ "STATIC" \in s.sym[id].t)

GetAsmSym(s, n) ==
    IF AsmLabelFind(s, n) # Null THEN s
    ELSE GlobalIdentifierPush(s, NewSym(n, "asm", {"EXTERN", "STATIC"}))

(* An undeclared function is taken as an external one.                     *)
ExternalGlobalSym(s, n) ==
    LET id == SymFind(s, n)
    IN  IF id = Null THEN GlobalIdentifierPush(s, NewSym(n, "func", {"EXTERN"}))
        ELSE IF s.sym[id].kind = "asm"
        THEN [s EXCEPT !.sym[id].kind = "func", !.sym[id].t = @ \cap {"EXTERN"}]
        ELSE s

(* patch_type() reports an error for a second definition and for a type    *)
(* that does not fit; kinds stand for types.                               *)
PatchFails(s, id, kind, t) ==
    \/ ("EXTERN" \notin t \/ s.sym[id].kind = "enum") /\ "EXTERN" \notin s.sym[id].t
    \/ s.sym[id].kind # "asm" /\ (s.sym[id].kind = "func") # (kind = "func")

PatchedFunc(old, t) ==
    LET kept == (old \cap {"STATIC"})
                  \cup (IF "INLINE" \in t \cup old
                           /\ (("INLINE" \in t) = ("INLINE" \in old) \/ "STATIC" \in t \cup old)
                        THEN {"INLINE"} ELSE {})
    IN  IF "EXTERN" \notin t THEN kept ELSE (old \ {"INLINE"}) \cup (old \cap kept)

PatchType(s, id, kind, t) ==
    LET old  == s.sym[id].t \ (IF "EXTERN" \notin t THEN {"EXTERN"} ELSE {})
        base == IF s.sym[id].kind = "asm" THEN t \ ({"STATIC"} \ old) ELSE old
    IN  [s EXCEPT !.sym[id].t = IF kind = "func" THEN PatchedFunc(base, t) ELSE base,
                  !.sym[id].kind = IF @ = "asm" THEN kind ELSE @]

SymCopy(s, id) ==
    LET copy == Head(s.pool)
        n    == s.sym[id].v
    IN  [SymPush2(s, "lstack", [s.sym[id] EXCEPT !.prev_tok = s.ident[n]]) EXCEPT !.ident[n] = copy]

(* external_sym() up to its error and after it.                            *)
ExternalFails(s, n, kind, t) ==
    LET id == FirstGlobal(s, n)
    IN  id # Null /\ PatchFails(s, id, kind, t)

ExternalSym(s, n, kind, t) ==
    LET id == FirstGlobal(s, n)
        at == IF id # Null THEN id ELSE Head(s.pool)
        s1 == IF id # Null THEN PatchType(s, id, kind, t)
              ELSE GlobalIdentifierPush(s, NewSym(n, kind, t))
    IN  IF s.lstack # <<>> /\ s1.sym[at].kind # "func" THEN SymCopy(s1, at) ELSE s1

(* One symbol leaves its stack, or stays there and only leaves the token   *)
(* table (keep).                                                           *)
Unhash(s, id) ==
    LET r == s.sym[id]
    IN  IF r.v \notin Names THEN s
        ELSE IF r.kind = "tag" THEN [s EXCEPT !.tag[r.v] = r.prev_tok]
        ELSE [s EXCEPT !.ident[r.v] = r.prev_tok]

SymPop(s, stack, bottom, keep) ==
    LET gone == Reverse(SubSeq(s[stack], bottom + 1, Len(s[stack])))
        Step(x, id) == IF keep THEN Unhash(x, id) ELSE SymFree(Unhash(x, id), id)
        s1 == FoldLeft(Step, s, gone)
    IN  IF keep THEN s1 ELSE [s1 EXCEPT ![stack] = SubSeq(@, 1, bottom)]

(* A label starts as used (LABEL_FORWARD, c = 1) or as defined (c = 2).    *)
LabelPush(s, l, c) ==
    [SymPush2(s, "labels", [NoSym EXCEPT !.v = l, !.kind = "label", !.c = c])
        EXCEPT !.label[l] = Head(s.pool)]

LabelPop(s) ==
    LET Step(x, id) == SymFree([x EXCEPT !.label[x.sym[id].v] = x.sym[id].prev_tok], id)
    IN  [FoldLeft(Step, s, Reverse(s.labels)) EXCEPT !.labels = <<>>]

(* put_extern_sym() and greloca(): the symbol gets its ELF symbol.         *)
PutExternSym(s, id, c) == [s EXCEPT !.sym[id].c = c]

Greloca(s, id) == IF s.sym[id].c = 0 THEN PutExternSym(s, id, 1) ELSE s

-----------------------------------------------------------------------------
(* The reference: what C says is declared where.                           *)

Nothing == [n \in Names |-> "none"]

Declared(n, kind) == env' = [env EXCEPT ![Len(env)][n] = kind]

(* Innermost declaration of n, 1 the file scope; 0 when there is none.     *)
Innermost(n) == LET at == {d \in DOMAIN env : env[d][n] # "none"}
                IN  IF at = {} THEN 0 ELSE CHOOSE d \in at : \A e \in at : e <= d

Visible(n) == IF Innermost(n) = 0 THEN "none" ELSE env[Innermost(n)][n]

Linkage(n) == env[1][n]
Top(n) == env[Len(env)][n]

Room(k) == Len(cc.pool) >= k

Refuse == phase' = "error" /\ UNCHANGED <<cc, scopes, fns, emitted, env>>

(* The programs left out, each named after what the code does with it:     *)
(* "extern x" under a local typedef or enumerator x takes that one for the *)
(* file-scope symbol, and a function declared where a local x is visible   *)
(* stays hidden by it;                                                     *)
Confused(n) ==
    \E k \in DOMAIN cc.lstack : /\ cc.sym[cc.lstack[k]].v = n
                                /\ cc.sym[cc.lstack[k]].kind \in {"typedef", "enum"}

(* the first file-scope symbol of x, when a statement expression retained  *)
(* an x whose prev_tok is null, is lost with that x;                       *)
Lost(n) ==
    /\ FirstGlobal(cc, n) = Null
    /\ \E k \in DOMAIN cc.lstack :
          LET id == cc.lstack[k]
          IN  /\ cc.sym[id].v = n /\ cc.sym[id].kind # "tag" /\ cc.sym[id].prev_tok = Null
              /\ id \notin ToSet(Chain(cc, SymFind(cc, n)))

(* a name that the assembler used is no longer free for a typedef or an    *)
(* enumerator at file scope.                                               *)
AsmTaken(n) == phase = "file" /\ SymFind(cc, n) # Null /\ cc.sym[SymFind(cc, n)].kind = "asm"

-----------------------------------------------------------------------------
(* Declarations (decl0(), decl_initializer_alloc(), struct_decl()).        *)

Working == phase \in {"file", "body"}

(* What C asks of the declarations of one function.                        *)
Consistent(n, t) ==
    /\ Linkage(n) \in {"none", "func"}
    /\ "STATIC" \in t /\ Linkage(n) = "func" => n \in ref.static

Noted(n, t) == [ref EXCEPT !.static = IF "STATIC" \in t THEN @ \cup {n} ELSE @,
                           !.plain  = IF t = {} THEN @ \cup {n} ELSE @]

(* A function declarator without a body.                                   *)
DeclareFunction(n, t) ==
    /\ Working /\ Room(1) /\ Consistent(n, t) /\ Top(n) \in {"none", "func"}
    /\ phase = "body" => t = {} /\ Innermost(n) <= 1 /\ ~Lost(n)
    /\ ref' = Noted(n, t)
    /\ IF ExternalFails(cc, n, "func", t \cup {"EXTERN"}) THEN Refuse
       ELSE /\ cc' = ExternalSym(cc, n, "func", t \cup {"EXTERN"})
            /\ env' = [env EXCEPT ![1][n] = "func"]
            /\ UNCHANGED <<scopes, fns, emitted, phase>>

(* gen_function() up to the body: the symbol is defined, the parameter is  *)
(* declared in a scope around the body.                                    *)
EnterFunction(s, id, param) ==
    SymPush(SymPush2(PutExternSym(s, id, 2), "lstack", NoSym), 1, "ident", NewSym(param, "var", {}))

(* A function definition: generated now, or recorded when it is inline.    *)
DefineFunction(n, t, param, body) ==
    /\ phase = "file" /\ Room(3) /\ Consistent(n, t)
    /\ LET s1 == ExternalSym(cc, n, "func", t)
           id == SymFind(s1, n)
           s2 == EnterFunction(s1, id, param)
       IN  \/ /\ ExternalFails(cc, n, "func", t) /\ Refuse
              /\ ref' = [ref EXCEPT !.wrong = n \in ref.defined]
           \/ /\ ~ExternalFails(cc, n, "func", t)
              /\ ref' = [Noted(n, t) EXCEPT !.defined = @ \cup {n}, !.wrong = n \in ref.defined]
              /\ IF "INLINE" \in s1.sym[id].t
                 THEN /\ cc' = s1
                      /\ fns' = Append(fns, [sym |-> id, v |-> n, body |-> body])
                      /\ env' = [env EXCEPT ![1][n] = "func"]
                      /\ UNCHANGED <<scopes, emitted, phase>>
                 ELSE /\ body = {}
                      /\ cc' = s2
                      /\ scopes' = <<Len(s2.lstack)>>
                      /\ phase' = "body"
                      /\ env' = <<[env[1] EXCEPT ![n] = "func"], [Nothing EXCEPT ![param] = "var"]>>
                      /\ emitted' = Append(emitted, n)
                      /\ UNCHANGED fns

(* A variable at file scope: "extern", "tentative" or "initialised".       *)
DeclareGlobal(n, how) ==
    /\ phase = "file" /\ Room(1) /\ Linkage(n) \in {"none", "var"}
    /\ LET t     == IF how = "initialised" THEN {} ELSE {"EXTERN"}
           id    == SymFind(cc, n)
           s1    == IF how = "extern" THEN ExternalSym(cc, n, "var", t)
                    ELSE IF id # Null THEN PatchType(cc, id, "var", t)
                    ELSE SymPush(cc, 0, "ident", NewSym(n, "var", t))
           at    == SymFind(s1, n)
           ready == how = "extern" \/ (how = "tentative" /\ s1.sym[at].c = 2)
       IN  /\ ref' = [ref EXCEPT !.wrong   = t = {} /\ n \in ref.defined,
                                 !.defined = IF t = {} THEN @ \cup {n} ELSE @]
           /\ IF id # Null /\ PatchFails(cc, id, "var", t) THEN Refuse
              ELSE /\ cc' = IF ready THEN s1 ELSE PutExternSym(s1, at, 2)
                   /\ env' = [env EXCEPT ![1][n] = "var"]
                   /\ UNCHANGED <<scopes, fns, emitted, phase>>

(* A variable of a block, static or automatic.                             *)
DeclareLocal(n, t) ==
    /\ phase = "body" /\ Room(1) /\ Top(n) \in {"none", "var", "enum"}
    /\ ref' = [ref EXCEPT !.wrong = Top(n) # "none"]
    /\ IF Redeclares(cc, local_scope, "ident", n) THEN Refuse
       ELSE LET s1 == SymPush(cc, local_scope, "ident", NewSym(n, "var", t))
            IN  /\ cc' = IF t = {} THEN s1 ELSE PutExternSym(s1, SymFind(s1, n), 2)
                /\ Declared(n, "var")
                /\ UNCHANGED <<scopes, fns, emitted, phase>>

(* "extern" in a block: the file-scope symbol, and a copy of it here.      *)
DeclareExtern(n) ==
    /\ phase = "body" /\ Room(2) /\ ~Lost(n) /\ ~Confused(n)
    /\ Top(n) \in {"none", "linked"} /\ Linkage(n) \in {"none", "var"}
    /\ UNCHANGED ref
    /\ IF ExternalFails(cc, n, "var", {"EXTERN"}) THEN Refuse
       ELSE /\ cc' = ExternalSym(cc, n, "var", {"EXTERN"})
            /\ env' = [env EXCEPT ![Len(env)][n] = "linked", ![1][n] = "var"]
            /\ UNCHANGED <<scopes, fns, emitted, phase>>

(* A typedef: its symbol keeps f, which is zero, where sym_scope was.      *)
DeclareTypedef(n) ==
    /\ Working /\ Room(1) /\ Top(n) = "none" /\ ~AsmTaken(n)
    /\ UNCHANGED ref
    /\ LET id == SymFind(cc, n)
           s1 == SymPush(cc, local_scope, "ident", NewSym(n, "typedef", {}))
       IN  IF (id # Null /\ cc.sym[id].scope = local_scope) \/ Redeclares(cc, local_scope, "ident", n)
           THEN Refuse
           ELSE /\ cc' = [s1 EXCEPT !.sym[SymFind(s1, n)].scope = 0]
                /\ Declared(n, "typedef")
                /\ UNCHANGED <<scopes, fns, emitted, phase>>

(* enum n {n}: a tag and an enumerator, whose value is kept where          *)
(* sym_scope was.                                                          *)
DeclareEnum(n) ==
    /\ Working /\ Room(2) /\ Top(n) \in {"none", "var", "enum"} /\ ~AsmTaken(n)
    /\ ref' = [ref EXCEPT !.wrong = Top(n) # "none"]
    /\ LET id == cc.tag[n]
           s1 == SymPush(cc, local_scope, "tag", NewSym(n, "tag", {}))
           s2 == SymPush(s1, local_scope, "ident",
                         [NewSym(n, "enum", {"STATIC"}) EXCEPT !.ref = s1.tag[n]])
       IN  IF \/ id # Null /\ cc.sym[id].scope = local_scope
              \/ SymFind(cc, n) # Null /\ cc.lstack = <<>>
              \/ Redeclares(s1, local_scope, "ident", n)
           THEN Refuse
           ELSE /\ cc' = [s2 EXCEPT !.sym[SymFind(s2, n)].scope = 0]
                /\ Declared(n, "enum")
                /\ UNCHANGED <<scopes, fns, emitted, phase>>

-----------------------------------------------------------------------------
(* References, labels and blocks.                                          *)

(* unary() on an identifier that is called.                                *)
Reference(s, n) ==
    LET id == SymFind(s, n)
        s1 == IF id = Null \/ s.sym[id].kind = "asm" THEN ExternalGlobalSym(s, n) ELSE s
    IN  Greloca(s1, SymFind(s1, n))

Call(n) ==
    /\ phase = "body" /\ Visible(n) \in {"none", "func"} /\ Room(1) /\ ~Lost(n)
    /\ cc' = Reference(cc, n)
    /\ env' = [env EXCEPT ![1][n] = "func"]
    /\ ref' = [ref EXCEPT !.calls = @ \cup {n}, !.plain = IF Visible(n) = "none" THEN @ \cup {n} ELSE @]
    /\ UNCHANGED <<scopes, fns, emitted, phase>>

(* An assembler operand or instruction that names n.                       *)
AsmReference(n) ==
    /\ phase = "body" /\ Room(1) /\ ~Lost(n)
    /\ cc' = GetAsmSym(cc, n)
    /\ UNCHANGED <<scopes, fns, emitted, phase, env, ref>>

Goto(l) ==
    /\ phase = "body" /\ Room(1) /\ cc.label[l] = Null
    /\ cc' = LabelPush(cc, l, 1)
    /\ UNCHANGED <<scopes, fns, emitted, phase, env, ref>>

PlaceLabel(l) ==
    /\ phase = "body" /\ Room(1)
    /\ LET id    == cc.label[l]
           twice == id # Null /\ cc.sym[id].c = 2
       IN  /\ ref' = [ref EXCEPT !.wrong = l \in ref.placed, !.placed = @ \cup {l}]
           /\ IF twice THEN Refuse
              ELSE /\ cc' = IF id = Null THEN LabelPush(cc, l, 2) ELSE [cc EXCEPT !.sym[id].c = 2]
                   /\ UNCHANGED <<scopes, fns, emitted, phase, env>>

NewScope ==
    /\ phase = "body" /\ local_scope < MaxScope
    /\ scopes' = Append(scopes, Len(cc.lstack))
    /\ env' = Append(env, Nothing)
    /\ UNCHANGED <<cc, fns, emitted, phase, ref>>

(* The end of a block, or of a statement expression (is_expr).             *)
PrevScope(is_expr) ==
    /\ phase = "body" /\ local_scope > 1
    /\ cc' = SymPop(cc, "lstack", Last(scopes), is_expr)
    /\ scopes' = Front(scopes)
    /\ env' = Front(env)
    /\ UNCHANGED <<fns, emitted, phase, ref>>

(* The end of a function: its block, its parameters and its labels.        *)
EndFunction ==
    /\ phase = "body" /\ local_scope = 1
    /\ LET used == \E k \in DOMAIN cc.labels : cc.sym[cc.labels[k]].c = 1
           s1   == SymPop(SymPop(cc, "lstack", Last(scopes), FALSE), "lstack", 0, FALSE)
       IN  IF used THEN Refuse /\ ref' = [ref EXCEPT !.wrong = TRUE]
           ELSE /\ cc' = LabelPop(s1)
                /\ scopes' = <<>> /\ env' = <<env[1]>> /\ phase' = "file"
                /\ ref' = [ref EXCEPT !.placed = {}]
                /\ UNCHANGED <<fns, emitted>>

-----------------------------------------------------------------------------
(* gen_inline_functions(): passes over the recorded functions until one    *)
(* generates nothing.                                                      *)

EndOfFile == phase = "file" /\ phase' = "inline" /\ UNCHANGED <<cc, scopes, fns, emitted, env, ref>>

Wanted_Unforced(s, fn) == fn.sym # Null /\ s.sym[fn.sym].c # 0

(* A recorded function to generate: referred to, or not inline after all.  *)
Wanted(s, fn) == fn.sym # Null /\ (s.sym[fn.sym].c # 0 \/ "INLINE" \notin s.sym[fn.sym].t)

Generate(i) ==
    LET fn == fns[i]
    IN  /\ cc' = FoldSet(LAMBDA n, s : Reference(s, n), PutExternSym(cc, fn.sym, 2), fn.body)
        /\ fns' = [fns EXCEPT ![i].sym = Null]
        /\ ref' = [ref EXCEPT !.calls = @ \cup fn.body]
        /\ emitted' = Append(emitted, fn.v)

(* One function of a pass, and the end of the last pass.                   *)
GenInline ==
    /\ phase = "inline"
    /\ \/ \E i \in DOMAIN fns :
             /\ Wanted(cc, fns[i]) /\ Room(Cardinality(fns[i].body))
             /\ Generate(i)
             /\ UNCHANGED <<scopes, phase, env>>
       \/ /\ \A i \in DOMAIN fns : ~Wanted(cc, fns[i])
          /\ phase' = "done"
          /\ UNCHANGED <<cc, scopes, fns, emitted, env, ref>>

-----------------------------------------------------------------------------
FunctionFlags == {{}, {"STATIC"}, {"INLINE"}, {"STATIC", "INLINE"}}

Init ==
    /\ cc = [sym    |-> [i \in Ids |-> NoSym],
             pool   |-> [i \in Ids |-> i],
             lstack |-> <<>>, gstack |-> <<>>, labels |-> <<>>,
             ident  |-> [n \in Names |-> Null],
             tag    |-> [n \in Names |-> Null],
             label  |-> [l \in Labels |-> Null]]
    /\ scopes = <<>> /\ fns = <<>> /\ emitted = <<>> /\ phase = "file"
    /\ env = <<Nothing>>
    /\ ref = [defined |-> {}, static |-> {}, plain |-> {}, calls |-> {}, placed |-> {}, wrong |-> FALSE]

Next ==
    \/ \E n \in Names :
          \/ \E t \in FunctionFlags : DeclareFunction(n, t)
          \/ \E t \in FunctionFlags, p \in Objects, body \in SUBSET Names : DefineFunction(n, t, p, body)
          \/ Call(n)
    \/ \E n \in Objects :
          \/ \E how \in {"extern", "tentative", "initialised"} : DeclareGlobal(n, how)
          \/ \E t \in {{}, {"STATIC"}} : DeclareLocal(n, t)
          \/ DeclareExtern(n) \/ DeclareTypedef(n) \/ DeclareEnum(n)
          \/ AsmReference(n)
    \/ \E l \in Labels : Goto(l) \/ PlaceLabel(l)
    \/ NewScope \/ (\E is_expr \in BOOLEAN : PrevScope(is_expr))
    \/ EndFunction \/ EndOfFile \/ GenInline

Spec == Init /\ [][Next]_vars

-----------------------------------------------------------------------------
(* The depth at which a symbol was declared: its place on the local stack  *)
(* against the marks of the open blocks.                                   *)
Depth(id) ==
    LET at == {k \in DOMAIN cc.lstack : cc.lstack[k] = id}
    IN  IF at = {} THEN 1
        ELSE 1 + Cardinality({d \in DOMAIN scopes : d = 1 \/ \E k \in at : scopes[d] < k})

(* Between two declarations, looking an identifier up (sym_find()) yields  *)
(* the symbol of the innermost scope that declares it, whatever shadowed   *)
(* it before, and nothing when no open scope declares it: assembler names, *)
(* copies of "extern" declarations and symbols that statement expressions  *)
(* retain stay out of the way.                                             *)
LookupIsInnermost ==
    Working => \A n \in Names :
        LET id == SymFind(cc, n)
        IN  IF Innermost(n) = 0 THEN id = Null \/ cc.sym[id].kind = "asm"
            ELSE id # Null /\ cc.sym[id].kind # "asm" /\ Depth(id) = Innermost(n)

(* A program is refused exactly when one of its declarations conflicts     *)
(* with another of the same scope, defines a function, variable or label   *)
(* twice, or leaves a label undefined: "redeclaration of" (sym_push()) and *)
(* "redefinition of" (patch_type()) are never reported for a declaration   *)
(* that only hides an outer one.                                           *)
OnlyConflictsRefused == (phase = "error") = ref.wrong

(* When the compilation unit ends, a recorded inline function has code     *)
(* exactly when generated code refers to it or its declarations make it    *)
(* externally visible, and has it once, also when only another inline      *)
(* function refers to it (gen_inline_functions()).                         *)
InlineEmittedOnce ==
    phase = "done" => \A i \in DOMAIN fns :
        LET n == fns[i].v
        IN  Cardinality({k \in DOMAIN emitted : emitted[k] = n})
              = (IF n \in ref.calls \cup (ref.plain \ ref.static) THEN 1 ELSE 0)
=============================================================================
