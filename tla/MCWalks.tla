------------------------------- MODULE MCWalks -------------------------------
\* Small models that declare, shadow and use names in every construct.
EXTENDS Walks

Node(class, name, parts) == [class |-> class, name |-> name, is |-> {}, id |-> 0, parts |-> parts]
NoParts == <<>>

Id(x) == Node("exprid", x, NoParts)
Num == Node("number", "", NoParts)
Op(a, b) == Node("op", "+", [operands |-> <<a, b>>])
Div(a, b) == Node("op", "/", [operands |-> <<a, b>>])
Eq(a, b) == [Node("op", "=", [operands |-> <<a, b>>]) EXCEPT !.is = {"boolean"}]
Boolean(x) == [Id(x) EXCEPT !.is = {"boolean"}]
Undefined(e) == Node("isundefined", "", [rhs |-> <<e>>])
Marked(n, as) == [n EXCEPT !.is = @ \union as]
Call(f, args) == Node("functioncall", f, [arguments |-> args])
Quantified(q, e) == [class |-> "exists", name |-> "", is |-> {"boolean"}, id |-> 0,
                     parts |-> [quantifier |-> <<q>>, expr |-> <<e>>]]
Every(q, e) == [Quantified(q, e) EXCEPT !.class = "forall"]

NumRange == Node("range", "", [min |-> <<Num>>, max |-> <<Num>>])
Between(a, b) == Node("range", "", [min |-> <<a>>, max |-> <<b>>])
Named(t) == Node("typeexprid", t, NoParts)
Enumeration(ms) == [class |-> "enum", name |-> "", is |-> {}, id |-> 0, members |-> ms, parts |-> NoParts]

Var(x, t) == Node("vardecl", x, [type |-> <<t>>])
Type(x, t) == Node("typedecl", x, [value |-> <<t>>])
Record(fields) == Node("record", "", [fields |-> fields])
Const(x, e) == Node("constdecl", x, [value |-> <<e>>])
Alias(x, e) == Node("aliasdecl", x, [value |-> <<e>>])

\* A quantifier over a type, and one from a to b.
Over(x, t) == Node("quantifier", x, [type |-> <<t>>, decl |-> <<Var(x, t)>>])
From(x, a, b) == Node("quantifier", x, [from |-> <<a>>, to |-> <<b>>, decl |-> <<Var(x, NumRange)>>])

Assign(x, e) == Node("assignment", "", [lhs |-> <<x>>, rhs |-> <<e>>])
For(q, body) == Node("for", "", [quantifier |-> <<q>>, body |-> body])
While(e, body) == Node("while", "", [condition |-> <<e>>, body |-> body])
If(e, body, rest) ==
    Node("if", "", [clauses |-> <<Node("ifclause", "", [condition |-> <<e>>, body |-> body]),
                                  Node("ifclause", "", [body |-> rest])>>])
Switch(e, m, body, rest) ==
    Node("switch", "", [expr |-> <<e>>,
        cases |-> <<Node("switchcase", "", [matches |-> <<m>>, body |-> body]),
                    Node("switchcase", "", [body |-> rest])>>])
With(aliases, body) == Node("aliasstmt", "", [aliases |-> aliases, body |-> body])
Do(f, args) == Node("procedurecall", "", [call |-> <<Call(f, args)>>])
Clear(e) == Node("clear", "", [rhs |-> <<e>>])
Undefine(e) == Node("undefine", "", [rhs |-> <<e>>])
Return(e) == Node("return", "", [expr |-> <<e>>])
Put(e) == Node("put", "", [expr |-> <<e>>])
Claim(e) == Node("propertystmt", "", [property |-> <<Node("property", "", [expr |-> <<e>>])>>])

Function(f, params, result, decls, body) ==
    Node("function", f, [parameters |-> params, return_type |-> result, decls |-> decls, body |-> body])
Rule(guard, decls, body) ==
    Node("simplerule", "r", [guard |-> <<guard>>, decls |-> decls, body |-> body])
StartState(decls, body) == Node("startstate", "s", [decls |-> decls, body |-> body])
Invariant(e) == Node("propertyrule", "p", [property |-> <<Node("property", "", [expr |-> <<e>>])>>])
Liveness(e) ==
    Node("propertyrule", "l", [property |-> <<Marked(Node("property", "", [expr |-> <<e>>]), {"liveness"})>>])
Ruleset(qs, rules) == Node("ruleset", "", [quantifiers |-> qs, rules |-> rules])
AliasRule(aliases, rules) == Node("aliasrule", "", [aliases |-> aliases, rules |-> rules])
Program(children) == Node("model", "", [children |-> children])

\* Locals that shadow globals, after the globals were used.
Shadowing ==
    Program(<<Const("n", Num), Type("t", Between(Num, Id("n"))), Var("x", Named("t")),
              StartState(<<>>, <<Assign(Id("x"), Id("n"))>>),
              Rule(Eq(Id("x"), Id("n")), <<>>, <<Assign(Id("x"), Op(Id("x"), Id("n")))>>),
              Function("f", <<Var("x", Named("t")), Var("m", NumRange)>>, <<Named("t")>>, <<Var("y", NumRange)>>,
                       <<Assign(Id("y"), Id("x")), For(Over("x", Named("t")), <<Assign(Id("y"), Id("x"))>>),
                         For(From("y", Id("m"), Op(Id("x"), Num)), <<While(Eq(Id("y"), Id("m")), <<Clear(Id("y"))>>)>>),
                         Return(Op(Id("y"), Id("m")))>>)>>)

\* The function comes first, and writes to a parameter.
Calls ==
    Program(<<Type("t", NumRange), Var("x", NumRange),
              Function("f", <<Marked(Var("p", NumRange), {"writable"}), Var("q", NumRange)>>, <<Named("t")>>, <<>>,
                       <<If(Eq(Id("p"), Id("q")), <<Return(Id("q"))>>, <<Return(Id("p"))>>)>>),
              Function("g", <<Marked(Var("p", NumRange), {"writable"})>>, <<>>, <<>>,
                       <<Assign(Id("p"), Id("x")), Do("f", <<Id("p"), Num>>)>>),
              StartState(<<>>, <<Do("g", <<Id("x")>>)>>),
              Ruleset(<<Over("q", NumRange)>>,
                  <<Rule(Eq(Id("x"), Id("q")), <<Var("z", NumRange)>>,
                         <<Assign(Id("z"), Call("f", <<Id("x"), Id("q")>>)), Undefine(Id("x")),
                           Switch(Call("f", <<Id("x"), Num>>), Num, <<Clear(Id("z"))>>, <<>>)>>),
                    Invariant(Quantified(From("r", Id("q"), Num), Eq(Id("r"), Id("x"))))>>)>>)

\* A return that is not the last statement of its function.
EarlyReturn ==
    Program(<<Var("x", NumRange),
              Function("f", <<>>, <<NumRange>>, <<>>,
                       <<If(Eq(Id("x"), Num), <<Return(Num)>>, <<Assign(Id("x"), Num)>>), Return(Id("x"))>>),
              StartState(<<>>, <<Assign(Id("x"), Call("f", <<>>))>>)>>)

\* Enums, declared in line and by name, and names of Booleans.
Enums ==
    Program(<<Type("e", Enumeration(<<"A", "B">>)), Type("d", Named("e")), Var("v", Named("d")),
              Var("w", Enumeration(<<"C", "D">>)), Var("b", Named("boolean")),
              Rule(Every(Over("k", Named("e")), Eq(Id("k"), Id("A"))), <<>>,
                   <<Marked(Switch(Id("v"), Id("A"), <<Assign(Id("v"), Id("B"))>>, <<Claim(Boolean("true"))>>), {"pure"}),
                     Clear(Id("v")), Clear(Id("b"))>>),
              StartState(<<Var("u", Record(<<Var("h", Named("e"))>>))>>,
                         <<For(Over("i", Named("e")), <<Assign(Id("v"), Id("i"))>>),
                           For(Over("j", Enumeration(<<"F", "G">>)),
                               <<If(Eq(Id("j"), Id("F")), <<Assign(Id("w"), Id("C"))>>, <<Assign(Id("b"), Boolean("b"))>>)>>)>>)>>)

\* Aliases, of rules and of statements.
Aliases ==
    Program(<<Type("e", Enumeration(<<"A", "B">>)), Const("k", Id("A")), Var("x", NumRange), Var("y", NumRange),
              StartState(<<Var("y", NumRange)>>, <<Assign(Id("y"), Num), Assign(Id("x"), Id("y"))>>),
              AliasRule(<<Alias("a", Id("x")), Alias("b", Id("a"))>>,
                  <<Ruleset(<<Over("q", NumRange)>>,
                       <<Rule(Eq(Id("a"), Id("q")), <<>>,
                              <<With(<<Alias("c", Id("b"))>>, <<Assign(Id("c"), Id("q"))>>),
                                With(<<Alias("c", Id("y"))>>, <<Assign(Id("c"), Id("a"))>>)>>),
                         Invariant(Eq(Id("b"), Id("q")))>>)>>)>>)

\* What some tool does not support; a loop of another step; two properties.
Rare ==
    Program(<<Var("x", NumRange),
              StartState(<<>>, <<For(Marked(From("i", Num, Num), {"strided"}), <<Put(Id("i"))>>),
                                 Assign(Id("x"), Div(Id("x"), Num))>>),
              Rule(Undefined(Id("x")), <<>>, <<Assign(Id("x"), Num)>>),
              Invariant(Boolean("true"))>>)
Striding ==
    Program(<<Var("x", NumRange), Const("n", Num), Type("t", Between(Num, Id("n"))),
              Ruleset(<<Over("q", Named("t"))>>,
                  <<Rule(Quantified(Over("k", Named("t")), Eq(Id("q"), Id("k"))), <<>>, <<Clear(Id("x"))>>)>>),
              StartState(<<>>, <<For(Marked(From("i", Num, Num), {"strided"}), <<Assign(Id("x"), Id("i"))>>)>>),
              Liveness(Eq(Id("x"), Num))>>)

\* Names that are not declared, or declared twice.
Undeclared == Program(<<StartState(<<>>, <<Assign(Id("x"), Num)>>)>>)
Twice == Program(<<Var("x", NumRange), Var("x", NumRange)>>)

\* A division under a quantifier, and a quantifier that counts down.
Dividing ==
    Program(<<Var("x", NumRange), StartState(<<>>, <<Assign(Id("x"), Num)>>),
              Invariant(Quantified(From("i", Num, Num), Eq(Id("x"), Div(Id("i"), Num))))>>)
Descending ==
    Program(<<Var("x", NumRange), StartState(<<>>, <<Assign(Id("x"), Num)>>),
              Rule(Quantified(Marked(From("i", Num, Num), {"strided", "descending"}), Eq(Id("x"), Id("i"))), <<>>,
                   <<Assign(Id("x"), Num)>>)>>)
\* A loop up to a variable that is called as its counter is.
Capturing ==
    Program(<<Var("x", NumRange), StartState(<<>>, <<For(From("x", Num, Id("x")), <<Assign(Id("x"), Num)>>)>>)>>)
\* A property that is called as a variable is; a constant that is the member of an
\* enum.  Either tool takes one of them for two declarations of a name.
Namesake ==
    Program(<<Var("p", NumRange), StartState(<<>>, <<Assign(Id("p"), Num)>>), Invariant(Eq(Id("p"), Num))>>)
EnumConstant ==
    Program(<<Type("e", Enumeration(<<"A", "B">>)), Const("k", Id("A")), Var("x", Named("e")),
              StartState(<<>>, <<Assign(Id("x"), Id("k"))>>)>>)
MCNamesake == {Namesake}
MCEnumConstant == {EnumConstant}
MCCapturing == {Capturing}
MCC == {<<"c check", "c">>}
MCDividing == {Dividing}
MCDescending == {Descending}
MCUclid == {<<"uclid check", "uclid">>}
MCSimplify == {<<"simplify">>}

\* Every way to choose between two names for what is declared inside.
Choice(a, b, c, d, e, g) ==
    Program(<<Var("x", NumRange), Var("y", NumRange),
              StartState(<<>>, <<Assign(Id("x"), Num), Assign(Id("y"), Id("x"))>>),
              Rule(Quantified(Over(a, NumRange), Eq(Id("x"), Id("y"))), <<Var(b, NumRange)>>,
                   <<Assign(Id("x"), Id("y")), For(From(c, Num, Num), <<Assign(Id("y"), Id("x"))>>)>>),
              Function("f", <<Var(d, NumRange)>>, <<NumRange>>, <<Var(e, NumRange)>>,
                       <<With(<<Alias(g, Id("y"))>>, <<Assign(Id("x"), Id("y"))>>),
                         Return(Op(Id("x"), Id("y")))>>)>>)
\* The same for murphi2uclid, which has no aliases and no locals of a procedure
\* before another procedure.
Plain(a, c, d, e) ==
    Program(<<Var("x", NumRange), Var("y", NumRange),
              StartState(<<>>, <<Assign(Id("x"), Num), For(Over(c, NumRange), <<Assign(Id("y"), Id("x"))>>)>>),
              Ruleset(<<Over(d, NumRange)>>,
                  <<Rule(Quantified(Over(a, NumRange), Eq(Id("x"), Id("y"))), <<>>,
                         <<Assign(Id("x"), Id("y")), For(From(c, Num, Num), <<Assign(Id("y"), Id("x"))>>)>>),
                    Invariant(Quantified(From(a, Num, Num), Eq(Id("x"), Id("y"))))>>),
              Function("f", <<Var(d, NumRange)>>, <<NumRange>>, <<Var(e, NumRange)>>,
                       <<Assign(Id("x"), Id("y")), Return(Op(Id("x"), Id("y")))>>)>>)
Choices ==
    {Choice(n[1], n[2], n[3], n[4], n[5], n[6]) : n \in [1..6 -> {"x", "y"}]}
        \union {Plain(n[1], n[2], n[3], n[4]) : n \in [1..4 -> {"x", "y"}]}

MCSources == Choices \union {Shadowing, Calls, EarlyReturn, Enums, Aliases, Rare, Striding, Undeclared, Twice}

MCPlans == {<<"c check", "c">>, <<"uclid check", "uclid">>, <<"smv">>, <<"simplify">>}

=============================================================================
