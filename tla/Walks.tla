-------------------------------- MODULE Walks --------------------------------
(***************************************************************************)
(* The tools at work on a model: its names are resolved, then a tool walks *)
(* the tree, to check it or to write it out in its own language, where a   *)
(* name means what the scopes of that language make of it.  One step takes *)
(* one instruction of the scripts.                                         *)
(***************************************************************************)
EXTENDS Resolver, CTranslation, UclidTranslation, SMVTranslation, Simplification

CONSTANTS
    Sources,        \* the models, as they were parsed
    Plans           \* what is done with a model once its names are resolved:
                    \* sequences of tools

VARIABLES
    model,          \* the model, numbered
    plan,           \* the tools still to run, the present one first
    agenda,         \* the instructions still to take
    scopes,         \* the declarations in scope, innermost scope last
    macros,         \* the macros defined: name -> alias
    bound,          \* what each name was resolved to: its use -> declaration
    kept,           \* the members of the present tool's visitor
    written,        \* the nodes visited by the present tool
    verdict         \* "running", "done", "rejected" or "crashed"

walkVars == <<model, plan, agenda, scopes, macros, bound, kept, written, verdict>>

Range_(s) == {s[i] : i \in DOMAIN s}

\* boolean, false and true
Builtins ==
    {[name |-> "boolean", id |-> -2, kind |-> "type",
      node |-> [class |-> "typedecl", parts |-> [value |-> <<[class |-> "enum", id |-> -5,
                members |-> <<"false", "true">>, parts |-> <<>>]>>]]],
     [name |-> "false", id |-> -4, kind |-> "expr", node |-> <<>>],
     [name |-> "true", id |-> -3, kind |-> "expr", node |-> <<>>]}

Nowhere == [name |-> "", id |-> -9, kind |-> "none", node |-> <<>>]

\* What a name means here: the declaration of it in the innermost scope that
\* has one.
Visible(name) ==
    LET levels == {i \in DOMAIN scopes : \E e \in scopes[i] : e.name = name}
    IN  IF levels = {} THEN Nowhere
        ELSE LET deepest == CHOOSE i \in levels : \A j \in levels : j <= i
             IN  CHOOSE e \in scopes[deepest] : e.name = name

Tool == IF plan = <<>> THEN "none" ELSE Head(plan)
Writers == {"c", "uclid"}
Resolved == plan = <<"resolve">> /\ verdict = "running" /\ agenda = <<>>
Now == Head(agenda)
Rest == Tail(agenda)
Taking(what) == verdict = "running" /\ agenda # <<>> /\ Now.do = what

Script(n) ==
    CASE Tool = "resolve" -> ResolveScript(n)
      [] Tool = "c check" -> CCheck(n)
      [] Tool = "c" -> CScript(n, kept)
      [] Tool = "uclid check" -> UCheck(n, kept)
      [] Tool = "uclid" -> UScript(n, kept)
      [] Tool = "smv" -> SScript(n, kept)
      [] Tool = "simplify" -> SimplifyScript(n)

\* A visitor as it is made.
Fresh ==
    [tail |-> FALSE, params |-> <<>>, vars |-> <<>>, to_return |-> <<>>, in_rule |-> FALSE,
     typedecls |-> <<>>, watermark |-> 0, enum_typedefs |-> <<>>]

VisitNode ==
    /\ Taking("visit")
    /\ agenda' = Script(Now.node) \o Rest
    /\ written' = written \union {Now.node.id}
    /\ UNCHANGED <<model, plan, scopes, macros, bound, kept, verdict>>

OpenScope ==
    /\ Taking("open")
    /\ scopes' = Append(scopes, {})
    /\ agenda' = Rest
    /\ UNCHANGED <<model, plan, macros, bound, kept, written, verdict>>

CloseScope ==
    /\ Taking("close")
    /\ scopes' = SubSeq(scopes, 1, Len(scopes) - 1)
    /\ agenda' = Rest
    /\ UNCHANGED <<model, plan, macros, bound, kept, written, verdict>>

Entry(i) == [name |-> i.name, id |-> i.id, kind |-> i.kind, node |-> i.node]

\* declare: a second declaration of a name in a scope is an error.
DeclareName ==
    /\ Taking("declare")
    /\ IF \E e \in scopes[Len(scopes)] : e.name = Now.name
       THEN verdict' = (IF Tool = "resolve" THEN "rejected" ELSE "crashed") /\ UNCHANGED <<scopes, agenda>>
       ELSE /\ scopes' = [scopes EXCEPT ![Len(scopes)] = @ \union {Entry(Now)}]
            /\ agenda' = Rest
            /\ UNCHANGED verdict
    /\ UNCHANGED <<model, plan, macros, bound, kept, written>>

\* The resolver looks a name up, and fails when it finds none of the kind.
ResolveName ==
    /\ Taking("use")
    /\ Tool = "resolve"
    /\ IF Visible(Now.name).kind # Now.kind
       THEN verdict' = "rejected" /\ UNCHANGED <<bound, agenda>>
       ELSE /\ bound' = (Now.id :> Visible(Now.name)) @@ bound
            /\ agenda' = Rest
            /\ UNCHANGED verdict
    /\ UNCHANGED <<model, plan, scopes, macros, kept, written>>

\* A name in what a tool writes, an assignment, or a question to the solver.
WriteName ==
    /\ Taking("use") \/ Taking("mention") \/ Taking("means") \/ Taking("assign") \/ Taking("claim")
    /\ Tool # "resolve"
    /\ agenda' = Rest
    /\ UNCHANGED <<model, plan, scopes, macros, bound, kept, written, verdict>>

IsAlias(e) == e.node # <<>> /\ e.node.class = "aliasdecl"

\* The preprocessor replaces the macro of an alias by its text.
ExpandName ==
    /\ Taking("expand")
    /\ agenda' = (IF IsAlias(bound[Now.id]) /\ Now.name \in DOMAIN macros
                  THEN Visit(macros[Now.name], "value") ELSE <<>>) \o Rest
    /\ UNCHANGED <<model, plan, scopes, macros, bound, kept, written, verdict>>

DefineMacro ==
    /\ Taking("define")
    /\ macros' = (Now.name :> Now.node) @@ macros
    /\ agenda' = Rest
    /\ UNCHANGED <<model, plan, scopes, bound, kept, written, verdict>>

UndefMacro ==
    /\ Taking("undef")
    /\ macros' = [x \in DOMAIN macros \ {Now.name} |-> macros[x]]
    /\ agenda' = Rest
    /\ UNCHANGED <<model, plan, scopes, bound, kept, written, verdict>>

\* The bounds of a type, through the names of types.
WriteBounds ==
    /\ Taking("bounds")
    /\ agenda' = (IF Now.node.class = "typeexprid"
                  THEN <<[do |-> "bounds", node |-> Only(bound[Now.node.id].node, "value")]>>
                  ELSE IF Tool = "simplify" THEN SMTBounds(Now.node) ELSE CBounds(Now.node)) \o Rest
    /\ UNCHANGED <<model, plan, scopes, macros, bound, kept, written, verdict>>

\* The type an expression has (Expr::type), and what a type's name stands for
\* (TypeExpr::resolve), as far as there are names in it: not for numbers and
\* what is computed from them.
NoType == [class |-> "range", id |-> 0, parts |-> <<>>]
RECURSIVE ResolvedType(_)
ResolvedType(t) ==
    IF t.class = "typeexprid" THEN ResolvedType(Only(bound[t.id].node, "value")) ELSE t
RECURSIVE TypeOf(_)
TypeOf(e) ==
    LET d == bound[e.id].node
    IN  CASE e.class = "exprid" /\ d = <<>> -> NoType
          [] e.class = "exprid" /\ d.class = "enum" -> d
          [] e.class = "exprid" /\ d.class = "vardecl" -> Only(d, "type")
          [] e.class = "exprid" -> TypeOf(Only(d, "value"))
          [] e.class = "functioncall" -> Only(d, "return_type")
          [] e.class = "element" -> Only(ResolvedType(TypeOf(Only(e, "array"))), "element_type")
          [] e.class = "field" ->
                 LET fields == Kids(ResolvedType(TypeOf(Only(e, "record"))), "fields")
                 IN  Only(CHOOSE f \in Range_(fields) : f.name = e.name, "type")
          [] OTHER -> NoType

WriteType ==
    /\ Taking("typeof")
    /\ LET t == TypeOf(Now.node)
       IN  agenda' = (IF Tool = "c" THEN CTypeText(Now.node, t, kept)
                      ELSE UTypeText(Now.how, IF Now.how = "clear" THEN ResolvedType(t) ELSE t)) \o Rest
    /\ UNCHANGED <<model, plan, scopes, macros, bound, kept, written, verdict>>

\* A call, of a function with var parameters or a result.
WriteCall ==
    /\ Taking("call")
    /\ LET f == bound[Now.node.id].node
       IN  agenda' = (IF Now.ignored THEN UIgnored(Now.node, f) ELSE UCallTo(Now.node, f)) \o Rest
    /\ UNCHANGED <<model, plan, scopes, macros, bound, kept, written, verdict>>

KeepMember ==
    /\ Taking("keep")
    /\ kept' = [kept EXCEPT ![Now.field] = Now.value]
    /\ agenda' = Rest
    /\ UNCHANGED <<model, plan, scopes, macros, bound, written, verdict>>

\* The bounds of a variable; no value is between them when they descend.
Contradiction == [name |-> "", id |-> -8, kind |-> "contradiction", node |-> <<>>]
AssertBounds ==
    /\ Taking("assert")
    /\ scopes' = (IF Now.possible THEN scopes
                  ELSE [scopes EXCEPT ![Len(scopes)] = @ \union {Contradiction}])
    /\ agenda' = Rest
    /\ UNCHANGED <<model, plan, macros, bound, kept, written, verdict>>

\* throw Unsupported(): what was simplified stays so, the rest is left.
GiveUp ==
    /\ Taking("unsupported")
    /\ agenda' = <<>>
    /\ UNCHANGED <<model, plan, scopes, macros, bound, kept, written, verdict>>

\* throw Error(), or assert(!"unreachable")
Stop ==
    /\ Taking("reject") \/ Taking("unreachable")
    /\ verdict' = (IF Now.do = "reject" THEN "rejected" ELSE "crashed")
    /\ UNCHANGED <<model, plan, agenda, scopes, macros, bound, kept, written>>

Start == <<[do |-> "visit", node |-> model]>>

\* A tool is done; the next one begins.  After the resolver, any plan.
Finish ==
    /\ verdict = "running" /\ agenda = <<>>
    /\ plan' \in (IF plan = <<"resolve">> THEN Plans ELSE {Tail(plan)})
    /\ IF plan' = <<>> THEN verdict' = "done" /\ UNCHANGED <<agenda, written>>
       ELSE agenda' = Start /\ written' = {} /\ UNCHANGED verdict
    /\ scopes' = <<Builtins>>
    /\ UNCHANGED <<model, macros, bound, kept>>

WalkInit ==
    /\ model \in {Indexed(m, 1).node : m \in Sources}
    /\ plan = <<"resolve">>
    /\ agenda = Start
    /\ scopes = <<Builtins>>
    /\ macros = <<>>
    /\ bound = <<>>
    /\ kept = Fresh
    /\ written = {}
    /\ verdict = "running"

WalkNext ==
    \/ VisitNode \/ OpenScope \/ CloseScope \/ DeclareName \/ ResolveName \/ WriteName
    \/ ExpandName \/ DefineMacro \/ UndefMacro \/ WriteBounds \/ WriteType \/ WriteCall \/ KeepMember
    \/ AssertBounds \/ GiveUp \/ Stop \/ Finish

WalkSpec == WalkInit /\ [][WalkNext]_walkVars

-----------------------------------------------------------------------------

\* All the nodes of a tree.
RECURSIVE NodesOf(_)
NodesOf(n) ==
    {n} \union UNION {NodesOf(k) : k \in UNION {Range_(n.parts[r]) : r \in DOMAIN n.parts}}

\* The number of the last node of a tree, the members of its enums included.
LastOf(n) ==
    LET ids == {k.id + (IF k.class = "enum" THEN Len(k.members) ELSE 0) : k \in NodesOf(n)}
    IN  CHOOSE i \in ids : \A j \in ids : j <= i

ScopeNodes(n) ==
    {k \in NodesOf(n) : k.class \in {"model", "function", "aliasrule", "aliasstmt", "ruleset",
                                     "simplerule", "startstate", "exists", "forall", "for"}}
Within(k, n) == n.id < k.id /\ k.id <= LastOf(n)
ScopeOf(k) ==
    LET around == {s \in ScopeNodes(model) : Within(k, s)}
    IN  CHOOSE s \in around : \A t \in around : t.id <= s.id

\* Where the body of a function begins.
BodyOf(f) ==
    LET before == {f.id} \union {LastOf(k) : k \in Range_(Kids(f, "parameters"))
                                              \union Range_(Kids(f, "return_type"))}
    IN  1 + CHOOSE i \in before : \A j \in before : j <= i

\* The declarations of a model: a name, whose declaration it is, and the
\* numbers of the nodes where it is in scope.
Declarations ==
    LET nodes == NodesOf(model)
        functions == {n \in nodes : n.class = "function"}
        quantifiers == {n \in nodes : n.class = "quantifier"}
        parameters == UNION {Range_(Kids(f, "parameters")) : f \in functions}
        fields == UNION {Range_(Kids(n, "fields")) : n \in nodes}
        variables == {Only(q, "decl") : q \in quantifiers}
        hidden == UNION {NodesOf(k) : k \in UNION {Range_(Kids(q, "type")) : q \in quantifiers}}
    IN  {[name |-> d.name, id |-> d.id, from |-> LastOf(d) + 1, to |-> LastOf(ScopeOf(d))] :
            d \in {n \in nodes : n.class \in Decls} \ (parameters \union fields \union variables)}
        \union UNION {{[name |-> p.name, id |-> p.id, from |-> BodyOf(f), to |-> LastOf(f)] :
            p \in Range_(Kids(f, "parameters"))} : f \in functions}
        \union {[name |-> f.name, id |-> f.id, from |-> BodyOf(f), to |-> LastOf(model)] : f \in functions}
        \union {[name |-> q.name, id |-> Only(q, "decl").id, from |-> LastOf(q) + 1, to |-> LastOf(ScopeOf(q))] :
            q \in quantifiers}
        \union UNION {{[name |-> e.members[i], id |-> e.id + i, from |-> e.id + Len(e.members) + 1,
                        to |-> LastOf(ScopeOf(e))] : i \in DOMAIN e.members} :
            e \in {n \in nodes : n.class = "enum"} \ hidden}

\* The declaration a name at node u means: of those in scope, the latest.
Denoted(u, name) ==
    LET all == {d \in Declarations \union
                      {[name |-> b.name, id |-> b.id, from |-> 0, to |-> LastOf(model)] : b \in Builtins} :
                   d.name = name /\ d.from <= u /\ u <= d.to}
    IN  (CHOOSE d \in all : \A e \in all : e.from <= d.from).id

\* Symbol resolution finds the declarations that the layout of the text says:
\* a declaration counts from its end to the end of what it is declared in,
\* the variable of a quantifier from the end of the quantifier, parameters
\* and the name of a function in its body.
Lexical ==
    Resolved => \A u \in DOMAIN bound : bound[u].id = Denoted(u, bound[u].name)

\* In what a tool writes, every name means, where it is written and in the
\* language it is written in, what it meant in the model; none is declared
\* twice in a scope, and no macro defined twice.
NamesMean ==
    /\ Tool \in Writers /\ Taking("use") => Visible(Now.name).id = bound[Now.id].id
    /\ Tool \in Writers /\ Taking("mention") => Visible(Now.name).id = Now.id
    /\ Tool \in Writers /\ Taking("expand") =>
           IF IsAlias(bound[Now.id])
           THEN Now.name \in DOMAIN macros /\ macros[Now.name].id = bound[Now.id].id
           ELSE Visible(Now.name).id = bound[Now.id].id
    /\ Taking("define") => Now.name \notin DOMAIN macros
    /\ Tool \in Writers /\ Taking("declare") =>
           ~\E e \in scopes[Len(scopes)] : e.name = Now.name
    /\ Taking("means") => Now.to = bound[Now.id].id

\* The solver was told of every name in what it is asked.
KnownToSolver ==
    Tool = "simplify" /\ Taking("use") =>
        \E i \in DOMAIN scopes : \E e \in scopes[i] : e.id = bound[Now.id].id

\* What the solver was told has a model: it would call anything true of a
\* variable that has no value.
Satisfiable ==
    Tool = "simplify" /\ Taking("claim") => \A i \in DOMAIN scopes : Contradiction \notin scopes[i]

\* murphi2smv: init for what a start state assigns, next for what a rule
\* assigns.
InitOrNext ==
    Taking("assign") =>
        LET rules == {n \in NodesOf(model) : n.class \in {"simplerule", "startstate"} /\ Within(Now, n)}
        IN  \A r \in rules : Now.rule <=> r.class = "simplerule"

\* A return that murphi2uclid lets through ends its procedure in Uclid too,
\* where a return does not: nothing of the procedure comes after it.
RECURSIVE EndsOnly(_)
EndsOnly(body) ==
    \A i \in DOMAIN body :
        LET s == body[i]
            branches == Range_(Kids(s, "clauses")) \union Range_(Kids(s, "cases"))
        IN  \/ \A k \in NodesOf(s) : k.class # "return"
            \/ i = Len(body) /\ s.class = "return"
            \/ i = Len(body) /\ s.class \in {"if", "switch"} /\ \A b \in branches : EndsOnly(Kids(b, "body"))
ReturnsLast == Tool = "uclid" => \A f \in NodesOf(model) : f.class = "function" => EndsOnly(Kids(f, "body"))

\* A model that a tool's check lets through never runs into a handler that
\* relies on the check.
RejectedFirst == verdict # "crashed"

\* What the bodies of rules and functions do is all written: no statement and
\* no expression of theirs is left out.
Doing ==
    LET bodies == {n \in NodesOf(model) : n.class \in {"function", "simplerule", "startstate"}}
        statements == UNION {Range_(Kids(b, "body")) \union Range_(Kids(b, "guard")) : b \in bodies}
        done == UNION {NodesOf(s) : s \in statements}
        aside == UNION {NodesOf(n) : n \in {k \in done : k.class \in Types \union {"aliasdecl", "vardecl"}}}
    IN  {n.id : n \in {k \in done : k.class \in Stmts \union Exprs} \ aside}
AllWritten == Tool \in Writers /\ verdict = "running" /\ agenda = <<>> => Doing \subseteq written

\* What a translator writes does what the model does: all of it, to the values
\* of the right state, and a procedure ends where it ended.
Translated == AllWritten /\ InitOrNext /\ ReturnsLast

=============================================================================
