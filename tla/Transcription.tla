---------------------------- MODULE Transcription ----------------------------
(***************************************************************************)
(* The tools that copy the text of a model as they walk its tree:          *)
(* murphi2murphi, a pipeline of stages that rewrite parts of the text, and *)
(* murphi2xml, which puts the text of every node into an element of XML.   *)
(*                                                                         *)
(* A node is as in Syntax, and has a location: begin is the place of its   *)
(* first token in the text, end the place behind its last.  A text is a    *)
(* sequence of tokens; what may delimit a comment or a string is a token   *)
(* of its own, everything else is as long as it may be.  A character that  *)
(* is not ASCII is given by its code point.                                *)
(***************************************************************************)
EXTENDS Syntax

LOCAL INSTANCE SequencesExt

CONSTANTS
    Sources,        \* pairs of a tree and its text
    Requests         \* what is asked for: sets of options, or {"xml"}

VARIABLES
    source,         \* the tree
    text,           \* its text
    options,
    agenda,         \* the instructions still to take
    cursor,         \* the next token of the text to read
    stages,         \* the members of the stages, and what the Printer wrote
    elements,       \* the XML elements that are open
    status          \* "running", "done" or "rejected"

vars == <<source, text, options, agenda, cursor, stages, elements, status>>

White == {" ", "\n"}

Sync(p) == <<[do |-> "sync", to |-> p]>>
Skip(p) == <<[do |-> "skip", to |-> p]>>
Write(toks) == <<[do |-> "write", toks |-> toks]>>
Dispatch(n) == <<[do |-> "visit", node |-> n]>>
Shift(stage) == <<[do |-> "shift", stage |-> stage]>>

\* How an expression is written out anew: with all brackets.
RECURSIVE to_string(_)
to_string(e) ==
    LET kids == VisitAll(e, RolesOf[e.class])
    IN  CASE e.class \in {"exprid", "number"} -> <<e.name>>
          [] e.class = "op" /\ Len(kids) = 1 -> <<"(", e.name>> \o to_string(kids[1].node) \o <<")">>
          [] e.class = "op" ->
               <<"(">> \o to_string(kids[1].node) \o <<e.name>> \o to_string(kids[2].node) \o <<")">>
          [] e.class = "element" ->
               to_string(kids[1].node) \o <<"[">> \o to_string(kids[2].node) \o <<"]">>

-----------------------------------------------------------------------------

(* The stages of murphi2murphi. *)

\* Printer: everything up to a node, its parts, and the rest of it.
Copy(n) ==
    LET kids == VisitAll(n, RolesOf[n.class])
    IN  Sync(n.begin)
            \o Join([i \in DOMAIN kids |-> Sync(kids[i].node.begin) \o Dispatch(kids[i].node)])
            \o Sync(n.end)

\* ExplicitSemicolons: after one of these a semicolon may be missing.
Terminated == {"aliasrule", "constdecl", "function", "propertyrule", "ruleset", "simplerule",
               "startstate", "typedecl", "vardecl"}
Semicolons(n) ==
    Copy(n) \o (IF "explicit-semicolons" \in options /\ n.class \in Terminated THEN Shift("semicolons") ELSE <<>>)

\* RemoveLiveness
IsLiveness(n) == n.class = "propertyrule" /\ "liveness" \in Only(n, "property").is
Liveness(n) ==
    IF "remove-liveness" \in options /\ IsLiveness(n)
    THEN Sync(n.begin) \o Skip(n.end) \o Shift("liveness") ELSE Semicolons(n)

\* SwitchToIf: a case is a comparison with each of its matches.
BugMatch(e, m, first, brackets) ==
    Write((IF first THEN <<>> ELSE <<"|">>) \o (IF brackets THEN <<"(">> ELSE <<>>) \o to_string(e) \o <<"=">>)
        \o Dispatch(m) \o Write(IF brackets THEN <<")">> ELSE <<>>)
Match(e, m, first, brackets) ==
    Write((IF first THEN <<>> ELSE <<"|">>) \o (IF brackets THEN <<"(">> ELSE <<>>) \o to_string(e) \o <<"=">>)
        \o Skip(m.begin) \o Dispatch(m) \o Write(IF brackets THEN <<")">> ELSE <<>>)
Case(n, i) ==
    LET c == Kids(n, "cases")[i]
        matches == Kids(c, "matches")
    IN  Skip(c.begin)
            \o (IF matches = <<>> THEN Write(<<IF i = 1 THEN "e" ELSE "else", "\n">>)
                ELSE Write(<<IF i = 1 THEN "if" ELSE "elsif">>)
                        \o Join([j \in DOMAIN matches |-> Match(Only(n, "expr"), matches[j], j = 1, Len(matches) > 1)])
                        \o Write(<<"then", "\n">>))
            \o (IF Has(c, "body") THEN Skip(Only(c, "body").begin) \o Visit(c, "body") \o Write(<<";">>) ELSE <<>>)
            \o Write(<<"\n">>)
SwitchToIf(n) ==
    IF "switch-to-if" \notin options \/ n.class # "switch" THEN Liveness(n)
    ELSE IF "impure" \in Only(n, "expr").is THEN Reject
    ELSE Sync(n.begin)
            \o Join([i \in DOMAIN Kids(n, "cases") |-> Case(n, i)])
            \o (IF Has(n, "cases") THEN Write(<<"endif">>) ELSE <<>>) \o Skip(n.end)

\* DecomposeComplexComparisons: a comparison of two records or arrays is one
\* of their parts, with new names for what ranges over an index type.
make_id(ids) == "i" \o ToString(CHOOSE k \in 0..Cardinality(ids) :
                    /\ "i" \o ToString(k) \notin ids
                    /\ \A j \in 0..(k - 1) : "i" \o ToString(j) \in ids)
find_ids(e) == {to_string(e)[i] : i \in DOMAIN to_string(e)}
RECURSIVE explode(_, _, _, _, _, _)
explode(ids, a, b, stem, t, eq) ==
    CASE t.class = "record" ->
           LET fields == Kids(t, "fields")
               joined[i \in 0..Len(fields)] ==
                   IF i = 0 THEN [toks |-> <<>>, ids |-> ids]
                   ELSE LET before == joined[i - 1]
                            f == fields[i]
                            one == explode(before.ids, a, b, stem \o <<".", f.name>>, Only(f, "type"), eq)
                        IN  [toks |-> before.toks \o (IF i = 1 THEN <<>> ELSE <<IF eq THEN "&" ELSE "|">>)
                                          \o <<"(">> \o one.toks \o <<")">>,
                             ids |-> one.ids]
           IN  joined[Len(fields)]
      [] t.class = "array" ->
           LET i == make_id(ids)
               each == explode(ids \union {i}, a, b, stem \o <<"[", i, "]">>, Only(t, "element_type"), eq)
               binder == IF eq THEN "forall" ELSE "exists"
           IN  [toks |-> <<binder, i, ":", Only(t, "index_type").name, "do">> \o each.toks
                             \o <<"end" \o binder>>,
                ids |-> each.ids]
      [] OTHER -> [toks |-> a \o stem \o <<IF eq THEN "=" ELSE "!=">> \o b \o stem, ids |-> ids]
IsComplex(n) == n.class = "op" /\ n.name \in {"=", "!="} /\ Has(n, "compared")
Decompose(n) ==
    IF "decompose" \notin options \/ ~IsComplex(n) THEN SwitchToIf(n)
    ELSE LET lhs == Kids(n, "operands")[1]
             rhs == Kids(n, "operands")[2]
         IN  IF "impure" \in lhs.is \union rhs.is THEN Reject
             ELSE Sync(n.begin) \o Skip(n.end)
                     \o Write(explode(find_ids(lhs) \union find_ids(rhs), to_string(lhs), to_string(rhs),
                                      <<>>, Only(n, "compared"), n.name = "=").toks)

-----------------------------------------------------------------------------

(* What goes down the pipeline: tokens [tok, at], where at is their place   *)
(* in the text, or 0.  A stage turns a token into some tokens for the next. *)

Inserted(x) == [tok |-> x, at |-> 0]

\* ToAscii
AsciiOf ==
    "U+2265" :> ">=" @@ "U+2192" :> "->" @@ "U+2264" :> "<=" @@ "U+2260" :> "!=" @@ "U+21D2" :> "==>"
    @@ "U+00AC" :> "!" @@ "U+2227" :> "&" @@ "U+2228" :> "|" @@ "U+2200" :> "forall" @@ "U+2203" :> "exists"
    @@ "U+00F7" :> "/" @@ "U+2212" :> "-" @@ "U+2215" :> "/" @@ "U+00D7" :> "*" @@ "U+2254" :> ":="
    @@ "U+201C" :> "\""
Idle == {"IDLE", "IDLE_DASH", "IDLE_SLASH"}
FromIdle(mode, c, s) ==
    CASE c = "-" -> IF mode = "IDLE_DASH" THEN "IN_LINE_COMMENT" ELSE "IDLE_DASH"
      [] c = "*" /\ mode = "IDLE_SLASH" -> "IN_MULTILINE_COMMENT"
      [] c = "/" -> "IDLE_SLASH"
      [] s = "\"" -> "IN_STRING"
      [] OTHER -> "IDLE"
BugFromText(mode, s) ==
    CASE mode = "IN_STRING" /\ s \in {"\"", "U+201D"} -> "IDLE"
      [] mode = "IN_LINE_COMMENT" /\ s = "\n" -> "IDLE"
      [] mode = "IN_MULTILINE_COMMENT" /\ s = "*" -> "IN_MULTILINE_COMMENT_STAR"
      [] mode = "IN_MULTILINE_COMMENT_STAR" /\ s = "/" -> "IDLE"
      [] OTHER -> mode
FromText(mode, s) ==
    CASE mode = "IN_STRING" /\ s \in {"\"", "U+201D"} -> "IDLE"
      [] mode = "IN_STRING" /\ s = "\\" -> "IN_STRING_SLASH"
      [] mode = "IN_STRING_SLASH" -> "IN_STRING"
      [] mode = "IN_LINE_COMMENT" /\ s = "\n" -> "IDLE"
      [] mode = "IN_MULTILINE_COMMENT" /\ s = "*" -> "IN_MULTILINE_COMMENT_STAR"
      [] mode = "IN_MULTILINE_COMMENT_STAR" /\ s = "/" -> "IDLE"
      [] OTHER -> mode
NextMode(mode, c, s) == IF mode \in Idle THEN FromIdle(mode, c, s) ELSE FromText(mode, s)
ToAscii(st, t) ==
    LET s == IF st.mode \in Idle /\ t.tok \in DOMAIN AsciiOf THEN AsciiOf[t.tok] ELSE t.tok
        shown == IF st.mode = "IN_STRING" /\ s = "U+201D" THEN "\"" ELSE s
    IN  IF "to-ascii" \notin options THEN [st |-> st, toks |-> <<t>>]
        ELSE [st |-> [st EXCEPT !.mode = NextMode(@, t.tok, s),
                                !.pending_space = st.mode \in Idle /\ t.tok \in {"U+2200", "U+2203"}],
              toks |-> (IF st.pending_space /\ t.tok \notin White THEN <<Inserted(" ")>> ELSE <<>>)
                           \o <<[t EXCEPT !.tok = shown]>>]

\* RemoveLiveness: the semicolon of a property that was left out goes too.
BugHuntSemi(st, t) ==
    IF st.swallow_semi /\ t.tok \notin White
    THEN [st |-> st, toks |-> IF t.tok = ";" THEN <<>> ELSE <<t>>]
    ELSE [st |-> st, toks |-> <<t>>]
HuntSemi(st, t) ==
    IF st.swallow_semi /\ t.tok \notin White
    THEN [st |-> [st EXCEPT !.swallow_semi = FALSE], toks |-> IF t.tok = ";" THEN <<>> ELSE <<t>>]
    ELSE [st |-> st, toks |-> <<t>>]

\* ExplicitSemicolons: white space is held back until it is known whether a
\* semicolon follows.
BugAddSemi(st, t) ==
    IF ~st.pending_semi THEN [st |-> st, toks |-> <<t>>]
    ELSE [st |-> [st EXCEPT !.pending_semi = FALSE],
          toks |-> (IF t.tok = ";" \/ t.tok \in White THEN <<>> ELSE <<Inserted(";")>>) \o <<t>>]
AddSemi(st, t) ==
    IF ~st.pending_semi THEN [st |-> st, toks |-> <<t>>]
    ELSE IF t.tok \in White THEN [st |-> [st EXCEPT !.pending = Append(@, t)], toks |-> <<>>]
    ELSE [st |-> [st EXCEPT !.pending_semi = FALSE, !.pending = <<>>],
          toks |-> (IF t.tok = ";" THEN <<>> ELSE <<Inserted(";")>>) \o st.pending \o <<t>>]

\* Tokens through a stage, and through all of them to the Printer.
Through(stage(_, _), st, toks) ==
    FoldLeft(LAMBDA done, t : LET one == stage(done.st, t)
                              IN  [st |-> one.st, toks |-> done.toks \o one.toks],
             [st |-> st, toks |-> <<>>], toks)
Pipe(st, toks) ==
    LET ascii == Through(ToAscii, st, toks)
        hunted == Through(HuntSemi, ascii.st, ascii.toks)
        added == Through(AddSemi, hunted.st, hunted.toks)
    IN  [added.st EXCEPT !.out = @ \o added.toks]

\* finalise, when all of the text is through.
Finalised(st) ==
    [st EXCEPT !.out = @ \o (IF st.pending_semi THEN <<Inserted(";")>> ELSE <<>>) \o st.pending,
               !.pending_semi = FALSE, !.pending = <<>>]

-----------------------------------------------------------------------------

(* murphi2xml. *)

Tag(kind, tag, n) == <<[do |-> kind, tag |-> tag, id |-> n.id]>>
Enclosed(tag, n, inner) == Tag("open", tag, n) \o inner \o Tag("close", tag, n)

\* The elements around all parts of one role, around each of them, or none.
Lists == {"aliases", "rules", "body", "decls", "parameters", "quantifiers", "cases", "matches"}
IsBare(n, role) ==
    \/ role \in {"fields", "children", "clauses", "property", "call"}
    \/ n.class = "for" /\ role = "quantifier"
    \/ n.class \in {"clear", "undefine", "put", "return"} \/ n.class = "union"
TagOf(n, role, i) ==
    CASE role = "operands" -> LET names == IF Len(Kids(n, role)) = 3 THEN <<"condition", "lhs", "rhs">> ELSE <<"lhs", "rhs">>
                              IN  IF Len(Kids(n, role)) = 1 THEN "rhs" ELSE names[i]
      [] role \in {"record", "array"} -> "lhs"
      [] role = "index" -> "rhs"
      [] role = "members" -> "member"
      [] role = "arguments" -> "argument"
      [] role = "peg" -> "arg0"
      [] role = "hole" -> "arg1"
      [] role = "quantifier" -> "quan"
      [] role = "index_type" -> "indextype"
      [] role = "element_type" -> "elementtype"
      [] role = "return_type" -> "returntype"
      [] OTHER -> role

\* The members of an enum are no nodes.
XMLPart(n, role, i) ==
    LET kid == Kids(n, role)[i]
        inner == IF n.class = "enum" THEN Sync(kid.end) ELSE Dispatch(kid)
    IN  Sync(kid.begin) \o (IF IsBare(n, role) \/ role \in Lists THEN inner ELSE Enclosed(TagOf(n, role, i), n, inner))

\* The element of a list starts at its first part.
XMLParts(n, role) ==
    LET each == Join([i \in DOMAIN Kids(n, role) |-> XMLPart(n, role, i)])
    IN  IF role \in Lists /\ Has(n, role) THEN Sync(Kids(n, role)[1].begin) \o Enclosed(role, n, each) ELSE each
XMLRoles(n) == IF n.class = "enum" THEN <<"members">> ELSE RolesOf[n.class]

\* The name of a field has no location of its own.
BugXML(n) ==
    Sync(n.begin) \o Enclosed(n.class, n, Join([i \in DOMAIN XMLRoles(n) |-> XMLParts(n, XMLRoles(n)[i])])) \o Sync(n.end)
XML(n) ==
    (IF n.class = "model" THEN <<>> ELSE Sync(n.begin))
        \o Enclosed(n.class, n,
               Join([i \in DOMAIN XMLRoles(n) |-> XMLParts(n, XMLRoles(n)[i])])
                   \o (IF n.class = "field" THEN Enclosed("rhs", n, Enclosed("string", n, Sync(n.end))) ELSE Sync(n.end)))

-----------------------------------------------------------------------------

Now == Head(agenda)
Rest == Tail(agenda)
Taking(what) == status = "running" /\ agenda # <<>> /\ Now.do = what

VisitNode ==
    /\ Taking("visit")
    /\ agenda' = (IF "xml" \in options THEN XML(Now.node) ELSE Decompose(Now.node)) \o Rest
    /\ UNCHANGED <<source, text, options, cursor, stages, elements, status>>

\* sync_to copies the text up to a place, and never goes back.
SyncTo ==
    /\ Taking("sync")
    /\ IF cursor >= Now.to THEN agenda' = Rest /\ UNCHANGED <<cursor, stages>>
       ELSE /\ stages' = Pipe(stages, <<[tok |-> text[cursor], at |-> cursor]>>)
            /\ cursor' = cursor + 1
            /\ UNCHANGED agenda
    /\ UNCHANGED <<source, text, options, elements, status>>

SkipTo ==
    /\ Taking("skip")
    /\ cursor' = (IF cursor >= Now.to THEN cursor ELSE Now.to)
    /\ agenda' = Rest
    /\ UNCHANGED <<source, text, options, stages, elements, status>>

WriteText ==
    /\ Taking("write")
    /\ IF Now.toks = <<>> THEN agenda' = Rest /\ UNCHANGED stages
       ELSE /\ stages' = Pipe(stages, <<Inserted(Head(Now.toks))>>)
            /\ agenda' = Write(Tail(Now.toks)) \o Rest
    /\ UNCHANGED <<source, text, options, cursor, elements, status>>

\* A stage's message to itself arrives when all before it has.
ShiftState ==
    /\ Taking("shift")
    /\ stages' = (IF Now.stage = "semicolons" THEN [stages EXCEPT !.pending_semi = TRUE]
                  ELSE [stages EXCEPT !.swallow_semi = TRUE])
    /\ agenda' = Rest
    /\ UNCHANGED <<source, text, options, cursor, elements, status>>

OpenTag ==
    /\ Taking("open")
    /\ elements' = Append(elements, [tag |-> Now.tag, id |-> Now.id])
    /\ agenda' = Rest
    /\ UNCHANGED <<source, text, options, cursor, stages, status>>

CloseTag ==
    /\ Taking("close")
    /\ elements' = SubSeq(elements, 1, Len(elements) - 1)
    /\ agenda' = Rest
    /\ UNCHANGED <<source, text, options, cursor, stages, status>>

RejectModel ==
    /\ Taking("reject")
    /\ status' = "rejected"
    /\ UNCHANGED <<source, text, options, agenda, cursor, stages, elements>>

Finish ==
    /\ status = "running" /\ agenda = <<>>
    /\ IF cursor <= Len(text) THEN agenda' = Sync(Len(text) + 1) /\ UNCHANGED <<stages, status>>
       ELSE stages' = Finalised(stages) /\ status' = "done" /\ UNCHANGED agenda
    /\ UNCHANGED <<source, text, options, cursor, elements>>

Init ==
    /\ \E s \in Sources : source = Indexed(s.tree, 1).node /\ text = s.text
    /\ options \in Requests
    /\ agenda = Dispatch(source)
    /\ cursor = 1
    /\ stages = [mode |-> "IDLE", pending_space |-> FALSE, swallow_semi |-> FALSE,
                 pending_semi |-> FALSE, pending |-> <<>>, out |-> <<>>]
    /\ elements = <<>>
    /\ status = "running"

Next ==
    \/ VisitNode \/ SyncTo \/ SkipTo \/ WriteText \/ ShiftState
    \/ OpenTag \/ CloseTag \/ RejectModel \/ Finish

Spec == Init /\ [][Next]_vars

-----------------------------------------------------------------------------

(* What is meant. *)

\* The scanner (librumur/src/lexer.l): whether a token is in a comment, in a
\* string or neither.  A string is as long as it can be.
ClassAt(s, i) ==
    CASE s[i] = "-" /\ i < Len(s) /\ s[i + 1] = "-" -> "line comment"
      [] s[i] = "/" /\ i < Len(s) /\ s[i + 1] = "*" -> "comment"
      [] s[i] \in {"\"", "U+201C"} -> "string"
      [] OTHER -> "code"
RECURSIVE LexedFrom(_, _)
LexedFrom(s, i) ==
    LET class == ClassAt(s, i)
        Escaped(j) == \E k \in (i + 1)..(j - 1) : /\ \A l \in k..(j - 1) : s[l] = "\\"
                                                  /\ s[k - 1] # "\\" /\ (j - k) % 2 = 1
        ends ==
            CASE class = "line comment" -> {j \in i..Len(s) : s[j] = "\n" \/ j = Len(s)}
              [] class = "comment" -> {j \in (i + 3)..Len(s) : s[j - 1] = "*" /\ s[j] = "/"}
              [] class = "string" ->
                   {j \in (i + 1)..Len(s) : /\ s[j] \in {"\"", "U+201D"} /\ ~Escaped(j)
                                            /\ \A k \in (i + 1)..(j - 1) : s[k] = "\"" => Escaped(k)}
              [] class = "code" -> {j \in i..Len(s) : j = Len(s) \/ ClassAt(s, j + 1) # "code"}
        end == IF class = "string" THEN CHOOSE j \in ends : \A k \in ends : k <= j
               ELSE CHOOSE j \in ends : \A k \in ends : j <= k
    IN  IF i > Len(s) THEN <<>> ELSE [k \in i..end |-> class] @@ LexedFrom(s, end + 1)

\* How tightly an operator binds (librumur/src/parser.yy).
Prec == "->" :> 2 @@ "U+2192" :> 2 @@ "||" :> 3 @@ "U+2228" :> 3 @@ "&&" :> 4 @@ "U+2227" :> 4
        @@ "|" :> 5 @@ "&" :> 7 @@ [x \in {"=", "!=", "<", "<=", "U+2260", "U+2264"} |-> 9]
        @@ "+" :> 11 @@ "-" :> 11 @@ "U+2212" :> 11
Canonical(x) == IF x = "U+2227" \/ x = "&&" THEN "&" ELSE IF x = "U+2228" \/ x = "||" THEN "|"
                ELSE IF x \in DOMAIN AsciiOf THEN AsciiOf[x] ELSE x
Opening == {"(", "[", "forall", "exists"}
Closing == {")", "]", "endforall", "endexists"}

\* An operator with its operands; those of a chain of one are all together.
Joined(op, a, b) ==
    LET Chain(e) == IF op \in {"&", "|"} /\ e[1] = op THEN Tail(e) ELSE <<e>>
    IN  <<op>> \o Chain(a) \o Chain(b)

Number(bound) == "#" \o ToString(bound)
\* The tree of an expression: nested sequences, an operator first.  A
\* bound name is replaced by a number, which says what binds it.
RECURSIVE Parsed(_, _)
Parsed(s, bound) ==
    LET Depth(i) == Cardinality({j \in 1..(i - 1) : s[j] \in Opening})
                        - Cardinality({j \in 1..i : s[j] \in Closing})
        negated == s[1] \in {"!", "U+00AC"}
        operators == {i \in 2..(Len(s) - 1) : s[i] \in DOMAIN Prec /\ Depth(i) = 0 /\ (negated => Prec[s[i]] < 8)}
        at == CHOOSE i \in operators : \A j \in operators :
                  Prec[s[i]] < Prec[s[j]] \/ (Prec[s[i]] = Prec[s[j]] /\ j <= i)
    IN  IF operators # {}
        THEN Joined(Canonical(s[at]), Parsed(SubSeq(s, 1, at - 1), bound), Parsed(SubSeq(s, at + 1, Len(s)), bound))
        ELSE IF negated THEN <<"!", Parsed(Tail(s), bound)>>
        ELSE IF s[1] = "(" /\ s[Len(s)] = ")" THEN Parsed(SubSeq(s, 2, Len(s) - 1), bound)
        ELSE IF s[1] \in {"forall", "exists"}
        THEN LET body == [i \in DOMAIN s |-> IF s[i] = s[2] THEN Number(bound) ELSE s[i]]
             IN  <<s[1], s[4], Parsed(SubSeq(body, 6, Len(s) - 1), bound + 1)>>
        ELSE <<"atom">> \o s

\* What an expression of the model should have become.
RECURSIVE Elementwise(_, _, _, _, _)
Elementwise(a, b, t, eq, bound) ==
    CASE t.class = "record" ->
           LET fields == Kids(t, "fields")
               part(x, f) == x \o <<".", f.name>>
               each[i \in DOMAIN fields] ==
                   Elementwise(part(a, fields[i]), part(b, fields[i]), Only(fields[i], "type"), eq, bound)
               all[i \in DOMAIN fields] ==
                   IF i = 1 THEN each[1] ELSE Joined(IF eq THEN "&" ELSE "|", all[i - 1], each[i])
           IN  all[Len(fields)]
      [] t.class = "array" ->
           LET at(x) == x \o <<"[", Number(bound), "]">>
           IN  <<IF eq THEN "forall" ELSE "exists", Only(t, "index_type").name,
                 Elementwise(at(a), at(b), Only(t, "element_type"), eq, bound + 1)>>
      [] OTHER -> <<IF eq THEN "=" ELSE "!=", <<"atom">> \o a, <<"atom">> \o b>>
RECURSIVE Intended(_)
Intended(e) ==
    LET kids == VisitAll(e, RolesOf[e.class])
    IN  IF "decompose" \in options /\ IsComplex(e)
        THEN Elementwise(to_string(kids[1].node), to_string(kids[2].node), Only(e, "compared"), e.name = "=", 0)
        ELSE IF e.class = "op" /\ Len(kids) = 1 THEN <<"!", Intended(kids[1].node)>>
        ELSE IF e.class = "op" THEN Joined(e.name, Intended(kids[1].node), Intended(kids[2].node))
        ELSE <<"atom">> \o to_string(e)

\* The conditions of rules, ifs and, where they become ifs, switches, in order.
RECURSIVE Conditions(_)
Conditions(n) ==
    LET kids == VisitAll(n, RolesOf[n.class])
        inner == Join([i \in DOMAIN kids |-> Conditions(kids[i].node)])
        Compared(matches) ==
            LET one(m) == <<"=", Parsed(to_string(Only(n, "expr")), 0), Intended(m)>>
                any[j \in DOMAIN matches] ==
                    IF j = 1 THEN one(matches[1]) ELSE Joined("|", any[j - 1], one(matches[j]))
            IN  IF matches = <<>> THEN <<>> ELSE <<any[Len(matches)]>>
    IN  CASE n.class = "simplerule" /\ Has(n, "guard") -> <<Intended(Only(n, "guard"))>> \o inner
          [] n.class = "ifclause" /\ Has(n, "condition") -> <<Intended(Only(n, "condition"))>> \o inner
          [] n.class = "switch" /\ "switch-to-if" \in options ->
               Join([i \in DOMAIN Kids(n, "cases") |->
                        Compared(Kids(Kids(n, "cases")[i], "matches")) \o Conditions(Kids(n, "cases")[i])])
          [] OTHER -> inner

Out == [i \in DOMAIN stages.out |-> stages.out[i].tok]
CodeOf(s) ==
    LET lexed == LexedFrom(s, 1)
        marked == [i \in DOMAIN s |-> IF lexed[i] = "code" THEN s[i] ELSE " "]
    IN  SelectSeq(marked, LAMBDA x : x \notin White)

\* What is written between rule and ==>, and between if and then.
Written ==
    LET s == CodeOf(Out)
        starts == SelectSeq([i \in DOMAIN s |-> i], LAMBDA i : s[i] \in {"rule", "if", "elsif"})
        End(i) == CHOOSE j \in i..Len(s) : /\ s[j] \in {"==>", "U+21D2", "then"}
                                           /\ \A k \in i..(j - 1) : s[k] \notin {"==>", "U+21D2", "then"}
    IN  [i \in DOMAIN starts |-> Parsed(SubSeq(s, starts[i] + 1, End(starts[i]) - 1), 0)]

Rewritten == status = "done" /\ "xml" \notin options

\* Whatever of the text is kept stays what it was, code, comment or string:
\* nothing that is written makes a comment or a string begin or end elsewhere.
LexedAlike ==
    Rewritten =>
        LET now == LexedFrom(Out, 1)
            before == LexedFrom(text, 1)
        IN  \A i \in DOMAIN stages.out :
                stages.out[i].at # 0 /\ stages.out[i].tok \notin White => now[i] = before[stages.out[i].at]

\* Every condition means what it meant: a rewritten comparison or switch has
\* the operands it should have where it ended up, and none got new ones.
SameConditions == Rewritten => Written = Conditions(source)

RECURSIVE Reached(_)
Reached(n) == {n} \union UNION {Reached(VisitAll(n, RolesOf[n.class])[i].node) :
                                   i \in DOMAIN VisitAll(n, RolesOf[n.class])}
Removed == {n \in Reached(source) : "remove-liveness" \in options /\ IsLiveness(n)}
NextToken(i) == {j \in i..Len(text) : text[j] \notin White /\ \A k \in i..(j - 1) : text[k] \in White}

\* Without the options that rewrite expressions and statements, the text comes
\* out in its order, and complete but for the liveness properties and the
\* semicolon right behind each.
NothingElseLost ==
    Rewritten /\ options \cap {"switch-to-if", "decompose"} = {} =>
        /\ \A i, j \in DOMAIN stages.out :
               i < j /\ stages.out[i].at # 0 /\ stages.out[j].at # 0 => stages.out[i].at < stages.out[j].at
        /\ LET gone == UNION {n.begin..(n.end - 1) : n \in Removed}
                           \union UNION {{j \in NextToken(n.end) : text[j] = ";"} : n \in Removed}
           IN  {stages.out[i].at : i \in DOMAIN stages.out} \ {0} = (1..Len(text)) \ gone

\* A semicolon follows every declaration and rule, whatever is between it and
\* what comes next and whatever else was left out there.
Semicoloned ==
    Rewritten /\ "explicit-semicolons" \in options =>
        \A n \in {k \in Reached(source) : k.class \in Terminated} \ Removed :
            LET behind == {i \in DOMAIN stages.out : stages.out[i].at >= n.end}
                first == IF behind = {} THEN Len(stages.out) + 1 ELSE CHOOSE i \in behind : \A j \in behind : i <= j
                before == {i \in 1..(first - 1) : Out[i] \notin White}
                after == {i \in first..Len(Out) : Out[i] \notin White}
            IN  \/ Out[CHOOSE i \in before : \A j \in before : j <= i] = ";"
                \/ after # {} /\ Out[CHOOSE i \in after : \A j \in after : i <= j] = ";"

\* murphi2xml: a token of the text is in the element of the smallest node it
\* is part of.
InOwnElement ==
    "xml" \in options /\ Taking("sync") /\ cursor < Now.to /\ source.begin <= cursor /\ cursor < source.end =>
        LET around == {n \in Reached(source) : n.begin <= cursor /\ cursor < n.end}
            owners == {n \in around : elements # <<>> /\ n.id = elements[Len(elements)].id}
        IN  \E n \in owners : \A k \in around : n.end - n.begin <= k.end - k.begin

=============================================================================
