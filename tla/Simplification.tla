--------------------------- MODULE Simplification ---------------------------
(***************************************************************************)
(* The simplification of Boolean expressions by an SMT solver              *)
(* (rumur/src/smt): the walk over the model (simplify.cc), what it tells   *)
(* the solver of types and names (define-enum-members.cc,                  *)
(* define-records.cc), and the claims it puts to it (translate.cc).  A     *)
(* name goes to the solver as one made of the number of its declaration.   *)
(***************************************************************************)
EXTENDS Syntax

LOCAL INSTANCE SequencesExt

mangle(name, id) == IF name \in {"boolean", "true", "false"} THEN name ELSE "s" \o ToString(id)

Mangled(d) == [Declare(d)[1] EXCEPT !.name = mangle(d.name, d.id)]
Unsupported_ == <<[do |-> "unsupported"]>>

RECURSIVE Within_(_, _)
\* Whether a tree has a node of one of these classes.
Within_(n, classes) ==
    n.class \in classes \/ \E r \in DOMAIN n.parts : \E i \in DOMAIN n.parts[r] : Within_(n.parts[r][i], classes)

\* define_enum_members: the members are numbered after their enum.
RECURSIVE define_enum_members(_)
define_enum_members(t) ==
    CASE t.class = "enum" ->
           [i \in DOMAIN t.members |-> [Members(t)[i] EXCEPT !.name = mangle(t.members[i], t.id + i)]]
      [] t.class \in {"array", "union", "record", "vardecl"} ->
           Join([i \in DOMAIN VisitAll(t, RolesOf[t.class]) |->
                    define_enum_members(VisitAll(t, RolesOf[t.class])[i].node)])
      [] OTHER -> <<>>

\* define_records: the records in a record come before it; the name of the
\* type of a record without a name is that of its number.
RECURSIVE define_records(_)
define_records(t) ==
    LET inner == Join([i \in DOMAIN VisitAll(t, RolesOf[t.class]) |->
                          define_records(VisitAll(t, RolesOf[t.class])[i].node)])
    IN  CASE t.class = "record" -> inner \o <<[Declare(t)[1] EXCEPT !.name = mangle("", t.id)]>>
          [] t.class \in {"array", "union", "vardecl"} -> inner
          [] OTHER -> <<>>

\* declare_var and the rest of declare_decl.  The solver knows the numbers
\* that a range or an enum has; a quantifier without a type has its own.
declare_var(d) ==
    define_enum_members(Only(d, "type")) \o define_records(Only(d, "type"))
        \o (IF Within_(Only(d, "type"), {"union"}) THEN Unsupported_ ELSE <<Mangled(d)>>)
declare_decl(d) ==
    CASE d.class = "vardecl" -> declare_var(d)
      [] d.class = "constdecl" /\ ~Has(d, "type") -> <<Mangled(d)>>
      [] d.class = "typedecl" ->
           define_enum_members(Only(d, "value")) \o define_records(Only(d, "value"))
               \o (IF Within_(Only(d, "value"), {"union"}) THEN Unsupported_ ELSE <<Mangled(d)>>)
      [] OTHER -> Unsupported_
declare_func(f) == Unsupported_

\* Every part in turn, told to the solver once it has been visited.
Tell(n, role) ==
    Join([i \in DOMAIN Kids(n, role) |->
             <<[do |-> "visit", node |-> Kids(n, role)[i]]>> \o declare_decl(Kids(n, role)[i])])

-----------------------------------------------------------------------------

\* translate: the names in a claim.
NotTranslated == {"functioncall", "ismember", "isundefined"}
RECURSIVE translate(_)
translate(e) ==
    LET Parts(n, roles) ==
            Join([i \in DOMAIN VisitAll(n, roles) |-> translate(VisitAll(n, roles)[i].node)])
        \* A quantifier binds its variable, which is between the bounds of
        \* its type or its own.
        translate_quantified ==
            LET q == Only(e, "quantifier")
            IN  Open \o <<Mangled([Only(q, "decl") EXCEPT !.name = q.name])>>
                    \o (IF Has(q, "type") THEN <<[do |-> "bounds", node |-> Only(q, "type")]>>
                        ELSE Parts(q, <<"from", "to", "step">>))
                    \o Parts(e, <<"expr">>) \o Close
    IN  CASE e.class = "exprid" -> Use(e, "expr")
          [] e.class \in {"exists", "forall"} -> translate_quantified
          [] OTHER -> Parts(e, RolesOf[e.class])

\* The bounds of a type in a claim: numbers, but for a range or scalarset.
SMTBounds(t) ==
    Join([i \in DOMAIN VisitAll(t, <<"min", "max", "bound">>) |->
             translate(VisitAll(t, <<"min", "max", "bound">>)[i].node)])

\* simplify: two questions to the solver, whether the expression is always
\* true or always false given what it was told.
simplify(e) ==
    IF "boolean" \notin e.is \/ (e.class = "exprid" /\ e.name \in {"true", "false"})
           \/ Within_(e, NotTranslated)
    THEN <<>> ELSE <<[do |-> "claim", id |-> e.id]>> \o translate(e)
SimplifyAll(n, roles) ==
    Join([i \in DOMAIN VisitAll(n, roles) |-> simplify(VisitAll(n, roles)[i].node)])

\* The parts of a node that are simplified, after all of it was visited.
Simplified ==
    [c \in {"aliasdecl", "constdecl"} |-> <<"value">>]
    @@ [c \in {"assignment", "clear", "isundefined"} |-> <<"rhs">>]
    @@ "op" :> <<"operands">> @@ "element" :> <<"array", "index">> @@ "field" :> <<"record">>
    @@ "functioncall" :> <<"arguments">> @@ "ismember" :> <<"peg">>
    @@ "range" :> <<"min", "max">> @@ "scalarset" :> <<"bound">>
    @@ "return" :> <<"expr">> @@ "ifclause" :> <<"condition">>
SimplifyParts(n) ==
    VisitAll(n, RolesOf[n.class]) \o SimplifyAll(n, IF n.class \in DOMAIN Simplified THEN Simplified[n.class] ELSE <<>>)

\* These are simplified before the rest of the node is visited.
SimplifyWhile(n) == Visit(n, "condition") \o SimplifyAll(n, <<"condition">>) \o Visit(n, "body")
SimplifySwitch(n) == Visit(n, "expr") \o SimplifyAll(n, <<"expr">>) \o Visit(n, "cases")
SimplifySwitchCase(n) ==
    Join([i \in DOMAIN Kids(n, "matches") |->
             <<[do |-> "visit", node |-> Kids(n, "matches")[i]]>> \o simplify(Kids(n, "matches")[i])])
        \o Visit(n, "body")

\* The scopes are those of the resolver.
SimplifyAliases(n, rest) == Open \o Tell(n, "aliases") \o Visit(n, rest) \o Close
SimplifyQuantified(n) ==
    Open \o VisitAll(n, <<"quantifier", "expr">>) \o SimplifyAll(n, <<"expr">>) \o Close
SimplifyFor(n) == Open \o VisitAll(n, <<"quantifier", "body">>) \o Close
SimplifyFunction(n) ==
    Open \o Tell(n, "parameters") \o Visit(n, "return_type") \o Tell(n, "decls") \o Visit(n, "body") \o Close
BugSimplifyRuleset(n) ==
    Open \o VisitAll(n, <<"quantifiers", "aliases">>) \o Close \o Visit(n, "rules")
SimplifyRuleset(n) == Open \o VisitAll(n, <<"quantifiers", "aliases", "rules">>) \o Close
SimplifyRule(n) ==
    Open \o VisitAll(n, <<"quantifiers", "aliases", "guard">>) \o SimplifyAll(n, <<"guard">>)
        \o Tell(n, "decls") \o Visit(n, "body") \o Close
SimplifyPropertyRule(n) == VisitAll(n, <<"quantifiers", "aliases", "property">>)

\* A quantifier without a type also asserts its constant bounds.
SimplifyQuantifier(q) ==
    LET variable == [Only(q, "decl") EXCEPT !.name = q.name]
    IN  IF Has(q, "type") THEN Visit(q, "type") \o declare_decl(variable)
        ELSE VisitAll(q, <<"from", "to", "step">>) \o SimplifyAll(q, <<"from", "to", "step">>)
                \o declare_decl(variable) \o <<[do |-> "assert", possible |-> "descending" \notin q.is]>>

\* A scope is opened at the end where one should be closed.
SimplifyModel(n) ==
    Open \o Join([i \in DOMAIN Kids(n, "children") |->
        LET c == Kids(n, "children")[i]
        IN  <<[do |-> "visit", node |-> c]>>
                \o (IF c.class \in Decls THEN declare_decl(c)
                    ELSE IF c.class = "function" THEN declare_func(c) ELSE <<>>)]) \o Open

\* What the simplifier does at a node.
SimplifyScript(n) ==
    CASE n.class \in {"property", "put", "enum"} -> <<>>
      [] n.class = "while" -> SimplifyWhile(n)
      [] n.class = "switch" -> SimplifySwitch(n)
      [] n.class = "switchcase" -> SimplifySwitchCase(n)
      [] n.class = "aliasrule" -> SimplifyAliases(n, "rules")
      [] n.class = "aliasstmt" -> SimplifyAliases(n, "body")
      [] n.class \in {"exists", "forall"} -> SimplifyQuantified(n)
      [] n.class = "for" -> SimplifyFor(n)
      [] n.class = "function" -> SimplifyFunction(n)
      [] n.class = "ruleset" -> SimplifyRuleset(n)
      [] n.class \in {"simplerule", "startstate"} -> SimplifyRule(n)
      [] n.class = "propertyrule" -> SimplifyPropertyRule(n)
      [] n.class = "quantifier" -> SimplifyQuantifier(n)
      [] n.class = "model" -> SimplifyModel(n)
      [] OTHER -> SimplifyParts(n)

=============================================================================
