--------------------------- MODULE SMVTranslation ---------------------------
(***************************************************************************)
(* murphi2smv (murphi2smv/src/codegen.cc): the SMV it writes, with the     *)
(* rest of the model in comments.  It keeps whether it is in a rule that   *)
(* is not a start state, the type declarations it has seen, and how many   *)
(* of them may be looked at: a type's name is replaced by the type.        *)
(***************************************************************************)
EXTENDS Syntax

\* What has no equivalent and is left out; of a statement or a rule that has
\* none, its body stays, and as a comment what it is about.
SOmitted(n) == <<>>
SBody(n) == VisitAll(n, <<"body", "rules">>)
SFunction(n) == VisitAll(n, <<"decls", "body">>)

\* init(x) := e in a start state, next(x) := e in a rule.
SAssignment(n, kept) ==
    <<[do |-> "assign", rule |-> kept.in_rule, id |-> n.id]>> \o VisitAll(n, <<"lhs", "rhs">>)
BugSSimpleRule(n, kept) ==
    Visit(n, "guard") \o Visit(n, "decls") \o Keep("in_rule", TRUE) \o Visit(n, "body")
SSimpleRule(n, kept) ==
    Visit(n, "guard") \o Visit(n, "decls") \o Keep("in_rule", TRUE) \o Visit(n, "body")
        \o Keep("in_rule", kept.in_rule)
SStartState(n) == VisitAll(n, <<"decls", "body">>)

\* typedecls and typedecls_watermark.  A name that none of them has is left.
STypeDecl(n, kept) ==
    Keep("typedecls", Append(kept.typedecls, n)) \o Keep("watermark", kept.watermark + 1)
STypeExprID(n, kept) ==
    LET seen == {i \in 1..kept.watermark : kept.typedecls[i].name = n.name}
        last == CHOOSE i \in seen : \A j \in seen : j <= i
    IN  IF seen = {} THEN Use(n, "type")
        ELSE <<[do |-> "means", id |-> n.id, to |-> kept.typedecls[last].id]>>
                \o Keep("watermark", last - 1) \o Visit(kept.typedecls[last], "value")
                \o Keep("watermark", kept.watermark)

\* What murphi2smv writes for a node.
SScript(n, kept) ==
    CASE n.class \in {"aliasdecl", "clear", "errorstmt", "exists", "forall", "functioncall",
                      "procedurecall", "propertystmt", "quantifier"} -> SOmitted(n)
      [] n.class \in {"aliasrule", "aliasstmt", "for", "ruleset"} -> SBody(n)
      [] n.class = "function" -> SFunction(n)
      [] n.class = "assignment" -> SAssignment(n, kept)
      [] n.class = "simplerule" -> SSimpleRule(n, kept)
      [] n.class = "startstate" -> SStartState(n)
      [] n.class = "typedecl" -> STypeDecl(n, kept)
      [] n.class = "typeexprid" -> STypeExprID(n, kept)
      [] OTHER -> ConstTraversal(n)

=============================================================================
