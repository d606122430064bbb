------------------------------ MODULE Includes ------------------------------
(***************************************************************************)
(* Directives of compiler/tccpp.c: preprocess(), preprocess_skip() and the *)
(* end of an included file in next_nomacro1().  A file that an #ifndef     *)
(* encloses is not read again while its macro is defined; whether it is    *)
(* enclosed is worked out from flags that single tokens set and clear.     *)
(*                                                                         *)
(* A file is a sequence of lines [d, a]: a directive and its argument, or  *)
(* text.  A line is read in one step.  `edge' of an #include says that its *)
(* last character is the last one of a block, so that the rest of the file *)
(* starts at the start of the buffer.                                      *)
(***************************************************************************)
EXTENDS Integers, Sequences, FiniteSets, SequencesExt

CONSTANTS
    Programs,          \* functions from names of files to sequences of lines
    Main,              \* the file that is compiled
    INCLUDE_STACK_SIZE,
    IFDEF_STACK_SIZE

VARIABLES
    files,       \* the program
    open,        \* include_stack and `file': [name, pos, base, ifndef, saved, start]
    ifdef,       \* ifdef_stack
    defs,        \* the macros that define_find() finds
    cached,      \* cached_includes: [name, ifndef, once]
    flags,       \* tok_flags
    out,         \* the text that was read
    status

vars == <<files, open, ifdef, defs, cached, flags, out, status>>

None == "none"   \* no token

\* tcc_open()
Opened(name, depth) == [name |-> name, pos |-> 1, base |-> depth, ifndef |-> None,
                        saved |-> None, start |-> TRUE]

Init ==
    /\ files \in Programs
    /\ open = <<Opened(Main, 0)>>
    /\ ifdef = <<>>
    /\ defs = {}
    /\ cached = {}
    /\ flags = {"BOF"}
    /\ out = <<>>
    /\ status = "running"

file == open[Len(open)]
lines == files[file.name]
AtEnd == file.pos > Len(lines)
line == lines[file.pos]

Running == status = "running" /\ ~AtEnd
Directive(d) == Running /\ line.d = d

\* Line p is read next.
Goto(p) == [open EXCEPT ![Len(open)].pos = p, ![Len(open)].start = FALSE]

\* tcc_error()
Error == status' = "error" /\ UNCHANGED <<files, open, ifdef, defs, cached, flags, out>>

-----------------------------------------------------------------------------
Openers == {"if", "ifdef", "ifndef"}

\* preprocess_skip() from line p on: the #else, #elif or #endif that belongs
\* to the group it is in, 0 if the file ends first.
SkipTo(p) ==
    LET In(S, q) == Cardinality({k \in p .. q - 1 : lines[k].d \in S})
        Ends == {q \in p .. Len(lines) :
                   /\ lines[q].d \in {"else", "elif", "endif"}
                   /\ In(Openers, q) = In({"endif"}, q)}
    IN  IF Ends = {} THEN 0 ELSE CHOOSE q \in Ends : \A k \in Ends : q <= k

\* test_skip: go on in the group if the condition holds, after it otherwise.
TestSkip(c, stack) ==
    LET p == IF c THEN file.pos + 1 ELSE SkipTo(file.pos + 1) IN
    \/ p # 0 /\ ifdef' = stack /\ flags' = {} /\ UNCHANGED status
    \/ p = 0 /\ status' = "error" /\ UNCHANGED <<ifdef, flags>>

SkipPos(c) == IF c THEN file.pos + 1 ELSE SkipTo(file.pos + 1)

\* Text and directives clear the flags; a blank line, a comment and an empty
\* directive do not.
Text ==
    /\ Directive("text")
    /\ open' = Goto(file.pos + 1)
    /\ out' = Append(out, line.a)
    /\ flags' = {}
    /\ UNCHANGED <<files, ifdef, defs, cached, status>>

Blank ==
    /\ Directive("blank")
    /\ open' = Goto(file.pos + 1)
    /\ UNCHANGED <<files, ifdef, defs, cached, flags, out, status>>

Define ==
    /\ Directive("define") \/ Directive("undef")
    /\ open' = Goto(file.pos + 1)
    /\ defs' = IF line.d = "define" THEN defs \cup {line.a} ELSE defs \ {line.a}
    /\ flags' = {}
    /\ UNCHANGED <<files, ifdef, cached, out, status>>

\* #if defined(a), #ifdef a, #ifndef a
If ==
    LET c == (line.a \in defs) # (line.d = "ifndef")
        bof == line.d = "ifndef" /\ "BOF" \in flags
    IN
    /\ Running /\ line.d \in Openers
    /\ \/ Len(ifdef) >= IFDEF_STACK_SIZE /\ Error
       \/ /\ Len(ifdef) < IFDEF_STACK_SIZE
          /\ TestSkip(c, Append(ifdef, IF c THEN 1 ELSE 0))
          /\ open' = [Goto(SkipPos(c)) EXCEPT
                         ![Len(open)].ifndef = IF bof THEN line.a ELSE @]
          /\ UNCHANGED <<files, defs, cached, out>>

\* Mutant: the group still counts as enclosing the file.
NotEnclosed_Kept == file.ifndef

\* An #else or #elif of the group that began the file: it does not enclose it.
NotEnclosed == IF Len(ifdef) = file.base + 1 THEN None ELSE file.ifndef

\* ifdef_stack_ptr[-1]: 0 or 1, and 2 more after #else.  No group is as one
\* that has had its #else: another #else or #elif is an error.
Group == IF ifdef = <<>> THEN 2 ELSE Last(ifdef)

Else ==
    /\ Directive("else")
    /\ \/ Group >= 2 /\ Error
       \/ /\ Group < 2
          /\ TestSkip(Group = 0, [ifdef EXCEPT ![Len(ifdef)] = 3 - @])
          /\ open' = [Goto(SkipPos(Group = 0)) EXCEPT ![Len(open)].ifndef = NotEnclosed]
          /\ UNCHANGED <<files, defs, cached, out>>

Elif ==
    LET c == Group = 0 /\ line.a \in defs IN
    /\ Directive("elif")
    /\ \/ Group > 1 /\ Error
       \/ /\ Group <= 1
          /\ TestSkip(c, IF c THEN [ifdef EXCEPT ![Len(ifdef)] = 1] ELSE ifdef)
          /\ open' = [Goto(SkipPos(c)) EXCEPT ![Len(open)].ifndef = NotEnclosed]
          /\ UNCHANGED <<files, defs, cached, out>>

Endif ==
    LET guard == file.ifndef # None /\ Len(ifdef) - 1 = file.base IN
    /\ Directive("endif")
    /\ \/ Len(ifdef) <= file.base /\ Error
       \/ /\ Len(ifdef) > file.base
          /\ ifdef' = SubSeq(ifdef, 1, Len(ifdef) - 1)
          /\ flags' = IF guard THEN {"ENDIF"} ELSE {}
          /\ open' = IF guard
                     THEN [Goto(file.pos + 1) EXCEPT ![Len(open)].saved = file.ifndef,
                                                     ![Len(open)].ifndef = None]
                     ELSE Goto(file.pos + 1)
          /\ UNCHANGED <<files, defs, cached, out, status>>

-----------------------------------------------------------------------------
\* search_cached_include()
Entry(name) == {e \in cached : e.name = name}
CacheWith(name, ifndef, once) ==
    LET old == IF Entry(name) = {} THEN [name |-> name, ifndef |-> None, once |-> FALSE]
               ELSE CHOOSE e \in Entry(name) : TRUE
    IN  (cached \ {old}) \cup {[old EXCEPT !.ifndef = IF ifndef = None THEN @ ELSE ifndef,
                                            !.once = @ \/ once]}

\* No need to parse the include.
NoNeed(name) == \E e \in Entry(name) : e.once \/ e.ifndef \in defs

Include ==
    /\ Directive("include")
    /\ \/ Len(open) > INCLUDE_STACK_SIZE /\ Error
       \/ /\ Len(open) <= INCLUDE_STACK_SIZE
          /\ LET here == [Goto(file.pos + 1) EXCEPT ![Len(open)].start = line.edge] IN
             \/ /\ NoNeed(line.a)
                /\ open' = here
                /\ flags' = {}
             \/ /\ ~NoNeed(line.a)
                /\ open' = Append(here, Opened(line.a, Len(ifdef)))
                /\ flags' = {"BOF"}
          /\ UNCHANGED <<files, ifdef, defs, cached, out, status>>

PragmaOnce ==
    /\ Directive("once")
    /\ open' = Goto(file.pos + 1)
    /\ cached' = CacheWith(file.name, None, TRUE)
    /\ flags' = {}
    /\ UNCHANGED <<files, ifdef, defs, out, status>>

\* The macro that encloses the file is kept if the last thing was its #endif.
Remembered == IF "ENDIF" \in flags THEN CacheWith(file.name, file.saved, FALSE) ELSE cached

\* The end of a file.  The file that included it goes on, and is at its
\* beginning if it is at the start of its buffer.
EndOfFile ==
    LET outer == open[Len(open) - 1] IN
    /\ status = "running" /\ AtEnd
    /\ \/ Len(ifdef) # file.base /\ Error
       \/ /\ Len(ifdef) = file.base /\ Len(open) = 1
          /\ status' = "done"
          /\ UNCHANGED <<files, open, ifdef, defs, cached, flags, out>>
       \/ /\ Len(ifdef) = file.base /\ Len(open) > 1
          /\ cached' = Remembered
          /\ open' = SubSeq(open, 1, Len(open) - 1)
          /\ flags' = IF outer.start THEN {"BOF"} ELSE flags \ {"ENDIF"}
          /\ UNCHANGED <<files, ifdef, defs, out, status>>

Stopped == status # "running" /\ UNCHANGED vars

Next ==
    \/ Text \/ Blank \/ Define \/ If \/ Else \/ Elif \/ Endif
    \/ Include \/ PragmaOnce \/ EndOfFile \/ Stopped

Spec == Init /\ [][Next]_vars

-----------------------------------------------------------------------------
\* What the program means: the lines of an included file stand in the place
\* of the #include, always.  `conds' holds for each open group whether its
\* lines count, and whether one of its branches has been taken.
RECURSIVE Meaning(_, _, _, _, _)
Meaning(todo, conds, ds, once, fuel) ==
    LET l == Head(todo)
        rest == Tail(todo)
        on == \A k \in DOMAIN conds : conds[k].on
        front == SubSeq(conds, 1, Len(conds) - 1)
        top == conds[Len(conds)]
        Go(cs, d, o) == Meaning(rest, cs, d, o, fuel - 1)
        holds == (l.a \in ds) # (l.d = "ifndef")
    IN  CASE todo = <<>> \/ fuel = 0 -> <<>>
          [] l.d \in Openers -> Go(Append(conds, [on |-> holds, taken |-> holds]), ds, once)
          [] l.d = "else" -> Go(Append(front, [on |-> ~top.taken, taken |-> TRUE]), ds, once)
          [] l.d = "elif" -> Go(Append(front, [on |-> ~top.taken /\ l.a \in ds,
                                               taken |-> top.taken \/ l.a \in ds]), ds, once)
          [] l.d = "endif" -> Go(front, ds, once)
          [] l.d = "text" /\ on -> <<l.a>> \o Go(conds, ds, once)
          [] l.d = "define" /\ on -> Go(conds, ds \cup {l.a}, once)
          [] l.d = "undef" /\ on -> Go(conds, ds \ {l.a}, once)
          [] l.d = "once" /\ on -> Go(conds, ds, once \cup {l.file})
          [] l.d = "include" /\ on /\ l.a \notin once ->
                Meaning(files[l.a] \o rest, conds, ds, once, fuel - 1)
          [] OTHER -> Go(conds, ds, once)

\* "No need to parse the include" (tccpp.c:996): a file that is passed over
\* because its guard is defined, or because of #pragma once, would have added
\* nothing; the program that is read is the one that was written.
SkippedFilesAddNothing ==
    status = "done" => out = Meaning(files[Main], <<>>, {}, {}, 60)
=============================================================================
