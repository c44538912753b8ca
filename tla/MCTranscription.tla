--------------------------- MODULE MCTranscription ---------------------------
\* Small models as they are written, laid out token by token.
EXTENDS Transcription

LOCAL INSTANCE SequencesExt

\* What a node is made of: tokens, parts, and one more part in the place of
\* the last one of its role, under another name.
W(toks) == [i \in DOMAIN toks |-> <<"token", toks[i]>>]
K(role, n) == <<<<"part", role, n>>>>
Again(role, x) == <<<<"again", role, x>>>>
Node(class, name, items) == [class |-> class, name |-> name, is |-> {}, items |-> items, aside |-> <<>>]
Marked(n, as) == [n EXCEPT !.is = @ \union as]

\* A list of parts, with these tokens between them.
List(role, ns, between) ==
    Join([i \in DOMAIN ns |-> (IF i = 1 THEN <<>> ELSE W(between)) \o K(role, ns[i])])

RECURSIVE Laid(_, _)
Laid(n, at) ==
    LET step(done, item) ==
            IF item[1] = "token" THEN [done EXCEPT !.toks = Append(@, item[2])]
            ELSE LET role == item[2]
                     known == IF role \in DOMAIN done.parts THEN done.parts[role] ELSE <<>>
                     one == IF item[1] = "again" THEN [node |-> [Last(known) EXCEPT !.name = item[3]], toks |-> <<>>]
                            ELSE Laid(item[3], at + Len(done.toks))
                 IN  [toks |-> done.toks \o one.toks, parts |-> (role :> Append(known, one.node)) @@ done.parts]
        all == FoldLeft(step, [toks |-> <<>>, parts |-> n.aside], n.items)
    IN  [node |-> [class |-> n.class, name |-> n.name, is |-> n.is, id |-> 0, parts |-> all.parts,
                   members |-> IF n.class = "enum" THEN [i \in DOMAIN all.parts.members |-> all.parts.members[i].name] ELSE <<>>,
                   begin |-> at, end |-> at + Len(all.toks)],
         toks |-> all.toks]

Source(n) == LET all == Laid(n, 1) IN [tree |-> all.node, text |-> all.toks]

Id(x) == Node("exprid", x, W(<<x>>))
Op(x, shown, a, b) == Node("op", x, K("operands", a) \o W(<<" ", shown, " ">>) \o K("operands", b))
Eq(a, b) == Op("=", "=", a, b)
Not(shown, a) == Node("op", "!", W(<<shown>>) \o K("operands", a))
In(a) == [a EXCEPT !.items = W(<<"(">>) \o @ \o W(<<")">>)]
\* A comparison of records or arrays of that type.
Whole(x, shown, a, b, t) == [Op(x, shown, a, b) EXCEPT !.aside = ("compared" :> <<t>>)]
At(a, i) == Node("element", "", K("array", a) \o W(<<"[">>) \o K("index", i) \o W(<<"]">>))

Simple(x) == [class |-> "typeexprid", name |-> x, is |-> {}, parts |-> <<>>]
Field(x, t) == [class |-> "vardecl", name |-> x, is |-> {}, parts |-> [type |-> <<t>>]]
RecordOf(fs) == [class |-> "record", name |-> "", is |-> {}, parts |-> [fields |-> fs]]
ArrayOf(i, t) == [class |-> "array", name |-> "", is |-> {}, parts |-> [index_type |-> <<i>>, element_type |-> <<t>>]]
Pair == RecordOf(<<Field("f", Simple("t")), Field("g", Simple("t"))>>)
Row == ArrayOf(Simple("t"), Simple("t"))
Table == ArrayOf(Simple("t"), RecordOf(<<Field("f", Row), Field("g", Row)>>))

Named(t) == Node("typeexprid", t, W(<<t>>))
Var(x, t) == Node("vardecl", x, W(<<x, ":", " ">>) \o K("type", Named(t)))
Type(x, t) == Node("typedecl", x, W(<<x, ":", " ">>) \o K("value", Named(t)))
Const(x, e) == Node("constdecl", x, W(<<x, ":", " ">>) \o K("value", e))
Record(fs) == Node("record", "", W(<<"record", " ">>) \o List("fields", fs, <<" ">>) \o W(<<" ", "end">>))
Assign(x, e) == Node("assignment", "", K("lhs", Id(x)) \o W(<<" ", ":=", " ">>) \o K("rhs", Id(e)))
SwitchCase(ms, body) ==
    Node("switchcase", "", W(<<" ", "case", " ">>) \o List("matches", ms, <<",", " ">>) \o W(<<":", " ">>)
        \o List("body", body, <<";", " ">>))
Default(body) == Node("switchcase", "", W(<<" ", "else", " ">>) \o List("body", body, <<";", " ">>))
Switch(e, cases) ==
    Node("switch", "", W(<<"switch", " ">>) \o K("expr", e) \o List("cases", cases, <<>>) \o W(<<" ", "end">>))
If(e, body) ==
    Node("if", "", K("clauses", Node("ifclause", "", W(<<"if", " ">>) \o K("condition", e) \o W(<<" ", "then", " ">>)
        \o List("body", body, <<";", " ">>))) \o W(<<" ", "end">>))
Rule(guard, body) ==
    Node("simplerule", "", W(<<"rule", " ">>) \o K("guard", guard) \o W(<<" ", "==>", " ">>)
        \o List("body", body, <<";", "\n">>) \o W(<<" ", "end">>))
StartState(decls, body) ==
    Node("startstate", "", W(<<"startstate", " ">>) \o decls \o List("body", body, <<";", " ">>) \o W(<<" ", "end">>))
Property(kind, e) ==
    Node("propertyrule", kind, W(<<kind, " ", "\"", "p", "\"", " ">>)
        \o K("property", Marked(Node("property", "", K("expr", e)), {kind})))
Ruleset(q, rules) ==
    Node("ruleset", "", W(<<"ruleset", " ">>)
        \o K("quantifiers", Node("quantifier", "q", W(<<"q", ":", " ">>) \o K("type", Named("t"))))
        \o W(<<" ", "do", " ">>) \o rules \o W(<<" ", "end">>))
Function(x, params, body) ==
    Node("function", x, W(<<"function", " ", x, "(">>) \o List("parameters", params, <<"; ">>) \o W(<<")", ":", " ">>)
        \o K("return_type", Named("t")) \o W(<<";", " ">>) \o List("body", body, <<";", " ">>) \o W(<<" ", "end", ";">>))
Return(e) == Node("return", "", W(<<"return", " ">>) \o K("expr", e))
Program(items) == Node("model", "", items)
Child(n) == K("children", n)

\* Semicolons here and there, two variables of one type, and liveness
\* properties first, last, in between and in a ruleset.
Sparse ==
    Program(W(<<"const", " ">>) \o Child(Const("n", Id("7"))) \o W(<<"\n", "type", " ">>) \o Child(Type("t", "u"))
        \o W(<<" ", ";", "\n", "var", " ">>)
        \o Child(Node("vardecl", "x", W(<<"x", ",", " ", "y", ":", " ">>) \o K("type", Record(<<Var("f", "t"), Var("g", "t")>>))))
        \o Again("children", "y")
        \o W(<<"\n", " ">>) \o Child(Property("liveness", Id("p"))) \o W(<<";", " ">>)
        \o Child(Function("h", <<Var("a", "t")>>, <<Return(Id("a"))>>))
        \o W(<<"\n">>) \o Child(StartState(W(<<"var", " ">>) \o K("decls", Var("z", "t")) \o W(<<" ", "begin", " ">>),
                                          <<Assign("z", "n")>>))
        \o W(<<" ", "-", "-", "c", ";", "\n">>) \o Child(Property("liveness", Id("q"))) \o W(<<"\n">>)
        \o Child(Ruleset("q", K("rules", Rule(Id("p"), <<Assign("x", "y")>>)) \o W(<<" ">>)
                                 \o K("rules", Property("liveness", Id("r"))) \o W(<<" ", ";">>)
                                 \o K("rules", Property("invariant", Id("r")))))
        \o W(<<"\n">>) \o Child(Property("liveness", Id("s"))) \o W(<<" ", ";", "\n">>))

\* Switches, one in another.
Switching ==
    Program(Child(Rule(Eq(Id("p"), Id("q")),
        <<Switch(Op("+", "+", Id("e"), Id("1")),
                 <<SwitchCase(<<Id("a")>>, <<Assign("x", "a"), Assign("y", "b")>>),
                   SwitchCase(<<Op("+", "+", Id("b"), Id("1")), In(Op("|", "|", Id("c"), Id("d")))>>,
                              <<If(Id("p"), <<Assign("x", "b")>>),
                                Switch(Id("f"), <<SwitchCase(<<Id("g")>>, <<>>)>>)>>),
                   Default(<<Assign("x", "c")>>)>>)>>)))
Impure == Program(Child(Rule(Id("p"), <<Switch(Marked(Id("e"), {"impure"}), <<SwitchCase(<<Id("a")>>, <<>>)>>)>>)))

\* Comparisons of records and arrays, next to operators that bind less.
Comparing ==
    Program(Child(Rule(Op("&", "&", Id("p"), Whole("=", "=", Id("r"), Id("s"), Pair)),
                       <<If(Op("|", "|", Whole("!=", "!=", Id("r"), Id("s"), Pair), Id("q")), <<Assign("x", "y")>>)>>))
        \o W(<<"\n">>)
        \o Child(Rule(Op("->", "->", Not("!", In(Whole("=", "=", Id("i0"), Id("v"), Row))),
                         Whole("=", "=", At(Id("m"), Id("i1")), Id("w"), Table)), <<Assign("x", "y")>>)))

\* Operators, strings and comments that are not ASCII.
Unicode ==
    Program(Child(Rule(Op("&", "U+2227", Op("!=", "U+2260", Id("a"), Id("b")), Not("U+00AC", Id("c"))), <<Assign("x", "y")>>))
        \o W(<<"-", "-", " ", "U+2260", " ", "\"", "\n", "/", "*", " ", "U+2264", "\"", "*", "/">>)
        \o Child(Node("propertyrule", "", W(<<"invariant", " ", "U+201C", "U+2264", "\\", "\"", "U+201C", "-", "-", "U+201D", " ">>)
             \o K("property", Node("property", "", K("expr", Op("<=", "U+2264", Id("a"), Op("-", "U+2212", Id("b"), Id("c"))))))))
        \o W(<<";", "/", "-", "-", "U+2212">>))

\* A bit of everything, for its elements.
Member(x) == Node("member", x, W(<<x>>))
Sorts ==
    Program(W(<<"type", " ">>) \o Child(Node("typedecl", "t", W(<<"t", ":", " ">>)
            \o K("value", Node("enum", "", W(<<"enum", " ">>) \o List("members", <<Member("A"), Member("B")>>, <<",">>) \o W(<<" ", "end">>)))))
        \o W(<<"\n">>)
        \o Child(Node("typedecl", "u", W(<<"u", ":", " ">>)
            \o K("value", Node("array", "", W(<<"array", " ">>) \o K("index_type", Named("t")) \o W(<<" ", "of", " ">>)
                     \o K("element_type", Node("range", "", K("min", Id("0")) \o W(<<"..">>) \o K("max", Id("1"))))))))
        \o W(<<" ", "-", "-", "c", "\n">>)
        \o Child(Property("invariant",
              Node("exists", "", W(<<"exists", " ">>)
                           \o K("quantifier", Node("quantifier", "i", W(<<"i", ":", " ">>) \o K("type", Named("t"))))
                           \o W(<<" ", "do", " ">>) \o K("expr", Eq(At(Id("x"), Id("i")), Not("!", Id("y")))) \o W(<<" ", "end">>))))
        \o W(<<";", "\n">>)
        \o Child(Rule(Id("p"),
              <<Node("for", "", W(<<"for", " ">>)
                     \o K("quantifier", Node("quantifier", "j", W(<<"j", " ", ":=", " ">>) \o K("from", Id("0"))
                              \o W(<<" ", "to", " ">>) \o K("to", Id("1"))))
                     \o W(<<" ", "do", " ">>) \o K("body", Assign("x", "j")) \o W(<<" ", "end">>)),
                Node("procedurecall", "", K("call", Node("functioncall", "h", W(<<"h", "(">>)
                     \o List("arguments", <<Id("j"), Node("field", "f", K("record", Id("r")) \o W(<<".", "f">>))>>, <<",">>) \o W(<<")">>)))),
                Node("put", "", W(<<"put", " ">>)
                     \o K("expr", Node("op", "?", K("operands", Id("p")) \o W(<<" ", "?", " ">>) \o K("operands", Id("x"))
                              \o W(<<" ", ":", " ">>) \o K("operands", Id("y"))))),
                Node("clear", "", W(<<"clear", " ">>) \o K("rhs", Id("x")))>>)))

\* What the rewriting of an expression does to the operator next to it.
Breaking ==
    Program(Child(Rule(Op("&", "&", Id("p"), In(Whole("!=", "!=", Id("r"), Id("s"), Pair))), <<Assign("x", "y")>>)))

MCSources == {Source(n) : n \in {Sparse, Switching, Impure, Comparing, Unicode, Sorts}}
BreakingSources == {Source(Breaking)}
MCRequests ==
    {{}, {"explicit-semicolons"}, {"remove-liveness"}, {"explicit-semicolons", "remove-liveness"},
     {"switch-to-if"}, {"decompose"}, {"to-ascii"},
     {"explicit-semicolons", "remove-liveness", "switch-to-if", "to-ascii", "decompose"}, {"xml"}}

=============================================================================
