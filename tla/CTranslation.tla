---------------------------- MODULE CTranslation ----------------------------
(***************************************************************************)
(* murphi2c: its check of a model (murphi2c/src/check.cc) and the C it     *)
(* writes (murphi2c/src/CLikeGenerator.cc and generate_c.cc), as far as    *)
(* C's scopes and the preprocessor see it.  An alias becomes a macro,      *)
(* which C expands at every use.  The generator keeps the declarations of  *)
(* enums it has seen.                                                      *)
(***************************************************************************)
EXTENDS Syntax

\* Check: what the generator does not support.
BugCCheck(n) == IF n.class = "union" THEN Reject ELSE ConstTraversal(n)
CCheck(n) == IF n.class \in {"ismember", "isundefined", "union"} THEN Reject ELSE ConstTraversal(n)

-----------------------------------------------------------------------------

\* #define a() value, and #undef a
Define(n, role) ==
    [i \in DOMAIN Kids(n, role) |->
        [do |-> "define", name |-> Kids(n, role)[i].name, node |-> Kids(n, role)[i]]]
Undef(n, role) ==
    [i \in DOMAIN Kids(n, role) |-> [do |-> "undef", name |-> Kids(n, role)[i].name]]

\* The aliases and the others of a list of declarations.
CDecls(n) ==
    Join([i \in DOMAIN Kids(n, "decls") |->
        LET d == Kids(n, "decls")[i]
        IN  IF d.class = "aliasdecl" THEN <<[do |-> "define", name |-> d.name, node |-> d]>>
            ELSE <<[do |-> "visit", node |-> d]>> \o Declare(d)])
CUndefDecls(n) ==
    Join([i \in DOMAIN Kids(n, "decls") |->
        LET d == Kids(n, "decls")[i]
        IN  IF d.class = "aliasdecl" THEN <<[do |-> "undef", name |-> d.name]>> ELSE <<>>])

BugCAliasStmt(n) == Define(n, "aliases") \o Visit(n, "body")
CAliasStmt(n) == Define(n, "aliases") \o Visit(n, "body") \o Undef(n, "aliases")

\* An array is a struct, with the members of an index type that is an enum.
CArray(n) ==
    Visit(n, "element_type")
        \o (IF Only(n, "index_type").class = "enum" THEN Visit(n, "index_type") ELSE <<>>)
CEnum(n) == Members(n)
CRecord(n) == Visit(n, "fields")

CExprID(n) == <<[do |-> "expand", name |-> n.name, id |-> n.id, kind |-> "expr"]>>
CFunctionCall(n) == Use(n, "function") \o Visit(n, "arguments")
CTypeExprID(n) == Use(n, "type")

\* The type of a quantifier is copied to its variable, and the members of an
\* enum in it are those of the copy.
TypeCopy(q) == Only(Only(q, "decl"), "type")
InlineEnum(n) ==
    LET q == Only(n, "quantifier")
    IN  IF Has(q, "type") /\ TypeCopy(q).class = "enum" THEN Visit(Only(q, "decl"), "type") ELSE <<>>

\* A for statement and a quantified expression: for (...) { ... } in a scope.
CFor(n) ==
    Open \o InlineEnum(n) \o Open \o Visit(n, "quantifier") \o Open \o Visit(n, "body")
         \o Close \o Close \o Close
Result == <<[do |-> "declare", name |-> "res_", id |-> -1, kind |-> "expr", node |-> <<>>]>>
CForall(n) ==
    Open \o InlineEnum(n) \o Result \o Open \o Visit(n, "quantifier") \o Open \o Visit(n, "expr")
         \o Close \o Close \o Close
CExists(n) ==
    Open \o Result \o Open \o Visit(n, "quantifier") \o Open \o Visit(n, "expr")
         \o Close \o Close \o Close

\* The head of the C loop: its variable is in scope in its own bounds.  Of a
\* type, the bounds are written out: the first and last member of an enum, or
\* the parts of a range or scalarset.  Decl is the variable references bind to.
CDecl(n) == Declare([Only(n, "decl") EXCEPT !.name = n.name])
CBounds(t) ==
    IF t.class = "enum"
    THEN Join([i \in DOMAIN t.members |->
             IF i \in {1, Len(t.members)}
             THEN <<[do |-> "mention", name |-> t.members[i], id |-> t.id + i]>> ELSE <<>>])
    ELSE VisitAll(t, <<"min", "max", "bound">>)
CQuantifier(n) ==
    CDecl(n) \o (IF Has(n, "type") THEN <<[do |-> "bounds", node |-> TypeCopy(n)]>>
                 ELSE VisitAll(n, <<"from", "to", "step">>))

CIf(n) == Visit(n, "clauses")
CIfClause(n) == Visit(n, "condition") \o Open \o Visit(n, "body") \o Close

\* A switch becomes an if, on a temporary.
CSwitch(n) == Open \o Visit(n, "expr") \o Result \o Visit(n, "cases") \o Close
CSwitchCase(n) == Visit(n, "matches") \o Open \o Visit(n, "body") \o Close
CWhile(n) == Visit(n, "condition") \o Open \o Visit(n, "body") \o Close

\* The parameters and the property of these are written by whoever has them.
CProperty(n) == Unreachable
CPropertyStmt(n) == Visit(Only(n, "property"), "expr")

CIsMember(n) == Unreachable
CIsUndefined(n) == Unreachable
CUnion(n) == Unreachable
CAliasRule(n) == Unreachable
CRuleset(n) == Unreachable

CModel(n) ==
    Join([i \in DOMAIN FlatChildren(n) |->
        LET c == FlatChildren(n)[i]
        IN  CASE c.class = "aliasdecl" -> <<[do |-> "define", name |-> c.name, node |-> c]>>
              [] c.class \in Decls \ {"aliasdecl"} -> <<[do |-> "visit", node |-> c]>> \o Declare(c)
              [] OTHER -> <<[do |-> "visit", node |-> c]>>])

-----------------------------------------------------------------------------

\* CGenerator.  A constant without a type has that of its value: an enum by the
\* name it was given, as enum_typedefs knows, or what the compiler makes of it.
CTypeDecl(n, kept) ==
    (IF Only(n, "value").class = "enum" THEN Keep("enum_typedefs", Append(kept.enum_typedefs, n)) ELSE <<>>)
        \o Visit(n, "value")
CTypeText(expr, t, kept) ==
    LET named == SelectSeq(kept.enum_typedefs, LAMBDA d : t.class = "enum" /\ Only(d, "value").id = t.id)
    IN  IF named = <<>> THEN <<[do |-> "visit", node |-> expr]>> ELSE Mention(named[1].name, named[1].id)
CConstDecl(n) ==
    (IF Has(n, "type") THEN Visit(n, "type") ELSE TypeOfExpr(Kids(n, "value"), "name")) \o Visit(n, "value")

\* The name of a function is declared before its body; the names of its
\* parameters as each is.
CFunction(n) ==
    Visit(n, "return_type") \o Declare(n) \o Open \o Introduce(n, "parameters")
        \o CDecls(n) \o Visit(n, "body") \o Close

\* The parameters of a rule: of a named type, or of the numeric one.
CParameters(n) ==
    Join([i \in DOMAIN Kids(n, "quantifiers") |->
        LET q == Kids(n, "quantifiers")[i]
        IN  (IF Has(q, "type") /\ Only(q, "type").class = "typeexprid" THEN Visit(q, "type") ELSE <<>>)
                \o CDecl(q)])

\* Rules are C functions: the names of these are those of variables as well.
CPropertyRule(n) ==
    DeclareAs(n, "") \o Open \o CParameters(n) \o Define(n, "aliases") \o Visit(Only(n, "property"), "expr")
         \o Undef(n, "aliases") \o Close
CRuleBody(n, prefix) ==
    DeclareAs(n, prefix) \o Open \o CParameters(n) \o Define(n, "aliases") \o CDecls(n) \o Visit(n, "body")
         \o CUndefDecls(n) \o Undef(n, "aliases") \o Close
CStartState(n) == CRuleBody(n, "startstate_")
CSimpleRule(n) ==
    DeclareAs(n, "guard_") \o Open \o CParameters(n) \o Define(n, "aliases") \o Visit(n, "guard") \o Undef(n, "aliases")
         \o Close \o CRuleBody(n, "rule_")

\* What murphi2c writes for a node.
CScript(n, kept) ==
    CASE n.class = "aliasstmt" -> CAliasStmt(n)
      [] n.class = "array" -> CArray(n)
      [] n.class = "enum" -> CEnum(n)
      [] n.class = "record" -> CRecord(n)
      [] n.class \in {"range", "scalarset"} -> <<>>
      [] n.class = "exprid" -> CExprID(n)
      [] n.class = "functioncall" -> CFunctionCall(n)
      [] n.class = "typeexprid" -> CTypeExprID(n)
      [] n.class = "for" -> CFor(n)
      [] n.class = "forall" -> CForall(n)
      [] n.class = "exists" -> CExists(n)
      [] n.class = "quantifier" -> CQuantifier(n)
      [] n.class = "if" -> CIf(n)
      [] n.class = "ifclause" -> CIfClause(n)
      [] n.class = "switch" -> CSwitch(n)
      [] n.class = "switchcase" -> CSwitchCase(n)
      [] n.class = "while" -> CWhile(n)
      [] n.class = "property" -> CProperty(n)
      [] n.class = "propertystmt" -> CPropertyStmt(n)
      [] n.class = "ismember" -> CIsMember(n)
      [] n.class = "isundefined" -> CIsUndefined(n)
      [] n.class = "union" -> CUnion(n)
      [] n.class = "aliasrule" -> CAliasRule(n)
      [] n.class = "ruleset" -> CRuleset(n)
      [] n.class = "model" -> CModel(n)
      [] n.class = "constdecl" -> CConstDecl(n)
      [] n.class = "typedecl" -> CTypeDecl(n, kept)
      [] n.class = "function" -> CFunction(n)
      [] n.class = "propertyrule" -> CPropertyRule(n)
      [] n.class = "startstate" -> CStartState(n)
      [] n.class = "simplerule" -> CSimpleRule(n)
      [] OTHER -> ConstTraversal(n)

=============================================================================
