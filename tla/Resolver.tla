------------------------------ MODULE Resolver ------------------------------
(***************************************************************************)
(* The resolution of names (librumur/src/resolve-symbols.cc), handler by   *)
(* handler, over the scopes of librumur/include/rumur/Symtab.h.  Handlers  *)
(* that only resolve the parts of a node in order are the default ones.    *)
(***************************************************************************)
EXTENDS Syntax

ResolveAliases(n, rest) == Open \o Introduce(n, "aliases") \o Visit(n, rest) \o Close
ResolveAliasRule(n) == ResolveAliases(n, "rules")
ResolveAliasStmt(n) == ResolveAliases(n, "body")

ResolveEnum(n) == Members(n)

ResolveQuantified(n, rest) == Open \o Visit(n, "quantifier") \o Visit(n, rest) \o Close
ResolveExists(n) == ResolveQuantified(n, "expr")
ResolveForall(n) == ResolveQuantified(n, "expr")
ResolveFor(n) == ResolveQuantified(n, "body")

\* A function's parameters and what it returns do not see its name or each
\* other; its body does.
ResolveFunction(n) ==
    Open \o Visit(n, "parameters") \o Visit(n, "return_type")
         \o Declare(n) \o DeclareAll(n, "parameters")
         \o Introduce(n, "decls") \o Visit(n, "body") \o Close

ResolveExprID(n) == Use(n, "expr")
ResolveFunctionCall(n) == Use(n, "function") \o Visit(n, "arguments")
ResolveTypeExprID(n) == Use(n, "type")

\* Rules have names too, which are not declared.
ResolveModel(n) ==
    Join([i \in DOMAIN Kids(n, "children") |->
        LET c == Kids(n, "children")[i]
        IN  <<[do |-> "visit", node |-> c]>>
                \o (IF c.class \in Decls \union {"function"} THEN Declare(c) ELSE <<>>)])

\* The type is resolved once for itself, its enum members hidden, and once
\* for the variable.
ResolveQuantifier(n) ==
    (IF Has(n, "type") THEN Open \o Visit(n, "type") \o Close ELSE <<>>)
        \o VisitAll(n, <<"from", "to", "step">>)
        \o Visit(n, "decl") \o Declare([Only(n, "decl") EXCEPT !.name = n.name])

ResolveRuleset(n) == Open \o VisitAll(n, <<"quantifiers", "rules">>) \o Close
BugResolveRule(n) ==
    Open \o VisitAll(n, <<"quantifiers", "guard">>) \o Introduce(n, "decls") \o Visit(n, "body")
ResolveRule(n) ==
    Open \o VisitAll(n, <<"quantifiers", "guard">>) \o Introduce(n, "decls") \o Visit(n, "body")
         \o Close

ResolveOthers(n) == Traversal(n)

\* What the resolver does at a node.
ResolveScript(n) ==
    CASE n.class = "aliasrule" -> ResolveAliasRule(n)
      [] n.class = "aliasstmt" -> ResolveAliasStmt(n)
      [] n.class = "enum" -> ResolveEnum(n)
      [] n.class = "exists" -> ResolveExists(n)
      [] n.class = "forall" -> ResolveForall(n)
      [] n.class = "for" -> ResolveFor(n)
      [] n.class = "function" -> ResolveFunction(n)
      [] n.class = "exprid" -> ResolveExprID(n)
      [] n.class = "functioncall" -> ResolveFunctionCall(n)
      [] n.class = "typeexprid" -> ResolveTypeExprID(n)
      [] n.class = "model" -> ResolveModel(n)
      [] n.class = "quantifier" -> ResolveQuantifier(n)
      [] n.class = "ruleset" -> ResolveRuleset(n)
      [] n.class \in {"simplerule", "startstate"} -> ResolveRule(n)
      [] OTHER -> ResolveOthers(n)

=============================================================================
