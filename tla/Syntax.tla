------------------------------- MODULE Syntax -------------------------------
(***************************************************************************)
(* The syntax tree of a model (librumur/include/rumur), the default        *)
(* traversals of it (librumur/src/traverse.cc), its numbering              *)
(* (librumur/src/indexer.cc) and the flattening of nested rules            *)
(* (librumur/src/Rule.cc).                                                 *)
(*                                                                         *)
(* A node is [class, name, is, parts]: "is" holds what else is known of    *)
(* it, parts maps a role to the sequence of the nodes in it.  All the      *)
(* operators are of class "op".  Indexed adds unique_id, as id.            *)
(*                                                                         *)
(* A visitor of the tree is a script for every node: the sequence of the   *)
(* visits and of the effects on names it makes, in order.  An instruction  *)
(* is a record with a field "do".                                          *)
(***************************************************************************)
EXTENDS Integers, Sequences, FiniteSets, TLC
LOCAL INSTANCE SequencesExt

Kids(n, role) == IF role \in DOMAIN n.parts THEN n.parts[role] ELSE <<>>
Has(n, role) == Kids(n, role) # <<>>
Only(n, role) == Kids(n, role)[1]
Join(seqs) == FlattenSeq(seqs)

Decls == {"aliasdecl", "constdecl", "typedecl", "vardecl"}
Types == {"range", "scalarset", "enum", "record", "array", "typeexprid", "union"}
Exprs == {"op", "number", "exprid", "field", "element", "functioncall", "exists", "forall",
          "ismember", "isundefined"}
Stmts == {"aliasstmt", "assignment", "clear", "errorstmt", "for", "if", "procedurecall",
          "propertystmt", "put", "return", "switch", "undefine", "while"}
Rules == {"aliasrule", "ruleset", "simplerule", "startstate", "propertyrule"}

\* The parts the default traversal visits, in that order.  It leaves out the
\* variable of a quantifier, and the aliases of a rule that is not an aliasrule.
RolesOf ==
    [c \in {"aliasdecl", "constdecl", "typedecl"} |-> <<"value">>]
    @@ "vardecl" :> <<"type">>
    @@ "range" :> <<"min", "max">> @@ "scalarset" :> <<"bound">> @@ "enum" :> <<>>
    @@ "record" :> <<"fields">> @@ "array" :> <<"index_type", "element_type">>
    @@ "typeexprid" :> <<>> @@ "union" :> <<"members">>
    @@ "op" :> <<"operands">> @@ "number" :> <<>> @@ "exprid" :> <<>>
    @@ "field" :> <<"record">> @@ "element" :> <<"array", "index">>
    @@ "functioncall" :> <<"arguments">>
    @@ [c \in {"exists", "forall"} |-> <<"quantifier", "expr">>]
    @@ "ismember" :> <<"peg", "hole">> @@ "isundefined" :> <<"rhs">>
    @@ "quantifier" :> <<"type", "from", "to", "step">>
    @@ "aliasstmt" :> <<"aliases", "body">> @@ "assignment" :> <<"lhs", "rhs">>
    @@ [c \in {"clear", "undefine"} |-> <<"rhs">>] @@ "errorstmt" :> <<>>
    @@ "for" :> <<"quantifier", "body">> @@ "if" :> <<"clauses">>
    @@ "ifclause" :> <<"condition", "body">> @@ "procedurecall" :> <<"call">>
    @@ "property" :> <<"expr">> @@ "propertystmt" :> <<"property">>
    @@ [c \in {"put", "return"} |-> <<"expr">>]
    @@ "switch" :> <<"expr", "cases">> @@ "switchcase" :> <<"matches", "body">>
    @@ "while" :> <<"condition", "body">>
    @@ "aliasrule" :> <<"aliases", "rules">> @@ "ruleset" :> <<"quantifiers", "rules">>
    @@ "simplerule" :> <<"quantifiers", "guard", "decls", "body">>
    @@ "startstate" :> <<"quantifiers", "decls", "body">>
    @@ "propertyrule" :> <<"quantifiers", "property">>
    @@ "function" :> <<"parameters", "return_type", "decls", "body">>
    @@ "model" :> <<"children">>

-----------------------------------------------------------------------------

(* Instructions. *)

Visit(n, role) == [i \in DOMAIN Kids(n, role) |-> [do |-> "visit", node |-> Kids(n, role)[i]]]
VisitAll(n, roles) == Join([i \in DOMAIN roles |-> Visit(n, roles[i])])

KindOf(n) == CASE n.class = "typedecl" -> "type" [] n.class = "function" -> "function" [] OTHER -> "expr"
Declare(n) == <<[do |-> "declare", name |-> n.name, id |-> n.id, kind |-> KindOf(n), node |-> n]>>
DeclareAll(n, role) == Join([i \in DOMAIN Kids(n, role) |-> Declare(Kids(n, role)[i])])

\* Of a rule: what is written for it has its name with something before it.  No
\* two rules of a model have the same name by then (sanitise_rule_names).
DeclareAs(n, prefix) == Declare([n EXCEPT !.name = prefix \o @])

\* Every part in turn, declared once it has been visited.
Introduce(n, role) ==
    Join([i \in DOMAIN Kids(n, role) |->
             <<[do |-> "visit", node |-> Kids(n, role)[i]]>> \o Declare(Kids(n, role)[i])])

\* A use of a name by node n.
Use(n, kind) == <<[do |-> "use", name |-> n.name, id |-> n.id, kind |-> kind]>>

Mention(name, id) == <<[do |-> "mention", name |-> name, id |-> id]>>

\* Something about the type of an expression is written.
TypeOfExpr(expr, how) == [i \in DOMAIN expr |-> [do |-> "typeof", node |-> expr[i], how |-> how]]

Members(n) ==
    [i \in DOMAIN n.members |->
        [do |-> "declare", name |-> n.members[i], id |-> n.id + i, kind |-> "expr", node |-> n]]

Open == <<[do |-> "open"]>>
Close == <<[do |-> "close"]>>
Reject == <<[do |-> "reject"]>>
Unreachable == <<[do |-> "unreachable"]>>

\* A member of the visitor gets a value.
Keep(field, value) == <<[do |-> "keep", field |-> field, value |-> value]>>

-----------------------------------------------------------------------------

\* Traversal and ConstTraversal: all the parts of every node.
Traversal(n) == VisitAll(n, RolesOf[n.class])
ConstTraversal(n) == VisitAll(n, RolesOf[n.class])

\* The traversals that leave one kind of nodes to whoever extends them.
ConstExprTraversal(n) == IF n.class \in Exprs THEN Unreachable ELSE ConstTraversal(n)
ConstStmtTraversal(n) == IF n.class \in Stmts THEN Unreachable ELSE ConstTraversal(n)
ConstTypeTraversal(n) == IF n.class \in Types THEN Unreachable ELSE ConstTraversal(n)

\* Indexer: a node is numbered before its parts, and an enum leaves room for
\* its members.
RECURSIVE Indexed(_, _)
Indexed(n, next) ==
    LET roles == RolesOf[n.class] \o (IF n.class = "quantifier" THEN <<"decl">> ELSE <<>>)
        present == SelectSeq(roles, LAMBDA r : Has(n, r))
        children == Join([i \in DOMAIN present |->
                        [j \in DOMAIN Kids(n, present[i]) |-> <<present[i], j>>]])
        start == next + 1 + (IF n.class = "enum" THEN Len(n.members) ELSE 0)
        numbered[i \in 0..Len(children)] ==
            IF i = 0 THEN [node |-> [n EXCEPT !.id = next], next |-> start]
            ELSE LET before == numbered[i - 1]
                     role == children[i][1]
                     at == children[i][2]
                     child == Indexed(n.parts[role][at], before.next)
                 IN  [node |-> [before.node EXCEPT !.parts[role][at] = child.node],
                      next |-> child.next]
    IN  numbered[Len(children)]

\* flatten: the simple rules of a nested rule.  The aliases around a rule end
\* up outermost first, the quantifiers innermost first.
Around(n, rule) ==
    [rule EXCEPT
        !.parts = [r \in DOMAIN rule.parts \union {"aliases", "quantifiers"} |->
            IF r = "aliases" THEN (IF n.class = "aliasrule" THEN Kids(n, r) ELSE <<>>) \o Kids(rule, r)
            ELSE IF r = "quantifiers"
            THEN Kids(rule, r) \o (IF n.class = "ruleset" THEN Kids(n, r) ELSE <<>>)
            ELSE rule.parts[r]]]
RECURSIVE flatten(_)
flatten(n) ==
    IF n.class \notin {"aliasrule", "ruleset"} THEN <<n>>
    ELSE LET inner == Join([i \in DOMAIN Kids(n, "rules") |-> flatten(Kids(n, "rules")[i])])
         IN  [i \in DOMAIN inner |-> Around(n, inner[i])]

\* The children of a model, its rules flattened.
FlatChildren(m) ==
    Join([i \in DOMAIN Kids(m, "children") |->
             LET c == Kids(m, "children")[i] IN IF c.class \in Rules THEN flatten(c) ELSE <<c>>])

=============================================================================
