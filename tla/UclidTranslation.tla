-------------------------- MODULE UclidTranslation --------------------------
(***************************************************************************)
(* murphi2uclid: its check of a model (murphi2uclid/src/check.cc) and the  *)
(* Uclid5 it writes (murphi2uclid/src/codegen.cc).  What the two visitors  *)
(* keep to themselves is "kept": the check the ruleset parameters around a *)
(* rule and whether a statement is the last of its procedure, the          *)
(* generator the parameters, all variables so far, and the parameters of   *)
(* the present function that are to be handed back.                        *)
(***************************************************************************)
EXTENDS Syntax

LOCAL INSTANCE SequencesExt

Is(n, what) == what \in n.is
OneStep(q) == Has(q, "type") \/ ~Is(q, "strided")
Category(n) == Only(n, "property").is

\* The statements of a body; only the last may be the last of the procedure.
TailBody(n, tail, after) ==
    LET body == Visit(n, "body")
    IN  Keep("tail", FALSE)
            \o Join([i \in DOMAIN body |->
                       (IF i = Len(body) THEN Keep("tail", tail) ELSE <<>>) \o <<body[i]>>])
            \o Keep("tail", after)

UCheckQuantified(n) == IF OneStep(Only(n, "quantifier")) THEN <<>> ELSE Reject
UCheckClear(n) == IF Is(n, "complex") THEN Reject ELSE <<>>
UCheckProcedure(n) ==
    VisitAll(n, <<"parameters", "return_type", "quantifiers", "aliases", "guard", "decls">>)
        \o TailBody(n, TRUE, FALSE)
UCheckLoop(n, kept) == VisitAll(n, <<"quantifier", "condition">>) \o TailBody(n, kept.tail, kept.tail)
BugUCheckBranch(n, kept) == VisitAll(n, <<"condition", "matches">>) \o TailBody(n, TRUE, kept.tail)
UCheckBranch(n, kept) == VisitAll(n, <<"condition", "matches">>) \o TailBody(n, kept.tail, kept.tail)
UCheckReturn(n, kept) == IF kept.tail THEN Visit(n, "expr") ELSE Reject
UCheckPropertyRule(n, kept) ==
    IF \/ "cover" \in Category(n)
       \/ "liveness" \in Category(n) /\ kept.params # <<>>
       \/ \E i \in DOMAIN kept.params : ~OneStep(kept.params[i])
    THEN Reject ELSE Visit(n, "property")
UCheckPropertyStmt(n) ==
    IF Category(n) \cap {"cover", "liveness"} # {} THEN Reject ELSE Visit(n, "property")
URuleset(n, kept) ==
    Keep("params", kept.params \o Kids(n, "quantifiers")) \o Visit(n, "rules") \o Keep("params", kept.params)

Unsupported(n) ==
    \/ n.class \in {"aliasdecl", "aliasrule", "aliasstmt", "isundefined", "ismember", "put", "union"}
    \/ n.class = "op" /\ n.name \in {"/", "%", "<<", ">>"}

\* What the check does at a node.
UCheck(n, kept) ==
    CASE Unsupported(n) -> Reject
      [] n.class = "clear" -> UCheckClear(n)
      [] n.class \in {"exists", "forall"} -> UCheckQuantified(n)
      [] n.class \in {"function", "simplerule", "startstate"} -> UCheckProcedure(n)
      [] n.class \in {"for", "while"} -> UCheckLoop(n, kept)
      [] n.class \in {"ifclause", "switchcase"} -> UCheckBranch(n, kept)
      [] n.class = "return" -> UCheckReturn(n, kept)
      [] n.class = "propertyrule" -> UCheckPropertyRule(n, kept)
      [] n.class = "propertystmt" -> UCheckPropertyStmt(n)
      [] n.class = "ruleset" -> Visit(n, "quantifiers") \o URuleset(n, kept)
      [] OTHER -> ConstTraversal(n)

-----------------------------------------------------------------------------

(* The generator. *)

UMention(d) == Mention(d.name, d.id)
UMentions(ds) == Join([i \in DOMAIN ds |-> UMention(ds[i])])

\* A typed name in a list; the variable of a quantifier, and its type, which
\* is numeric when it has none.
Typed(d) == Visit(d, "type") \o Declare(d)
TypedAll(ds) == Join([i \in DOMAIN ds |-> Typed(ds[i])])
UVariable(q) == [Only(q, "decl") EXCEPT !.name = q.name]
UType(q) == IF Has(q, "type") THEN Visit(UVariable(q), "type") ELSE <<>>
EmitParams(kept) == Join([i \in DOMAIN kept.params |-> UType(kept.params[i]) \o Declare(UVariable(kept.params[i]))])

\* A call is an assignment to its result and its var arguments, which are
\* written once there and once in the call.
Writable(f) == SelectSeq(Kids(f, "parameters"), LAMBDA p : Is(p, "writable"))
UCallTo(call, f) ==
    Join([i \in DOMAIN Kids(call, "arguments") |->
             IF Is(Kids(f, "parameters")[i], "writable")
             THEN <<[do |-> "visit", node |-> Kids(call, "arguments")[i]]>> ELSE <<>>])
        \o <<[do |-> "visit", node |-> call]>>
UIgnored(call, f) ==
    IF Has(f, "return_type") THEN Open \o Visit(f, "return_type") \o UCallTo(call, f) \o Close
    ELSE UCallTo(call, f)

UAssignment(n) ==
    IF Only(n, "rhs").class = "functioncall"
    THEN Visit(n, "lhs") \o <<[do |-> "call", node |-> Only(n, "rhs"), ignored |-> FALSE]>>
    ELSE VisitAll(n, <<"lhs", "rhs">>)
UProcedureCall(n) == <<[do |-> "call", node |-> Only(n, "call"), ignored |-> TRUE]>>
UFunctionCall(n) == Use(n, "function") \o Visit(n, "arguments")

\* The type of an expression is written out, with the members of an enum; a clear
\* of an enum is an assignment of its first member.
UTypeText(how, t) ==
    IF how = "write" THEN <<[do |-> "visit", node |-> t]>>
    ELSE IF t.class = "enum" THEN Mention(t.members[1], t.id + 1) ELSE <<>>
UClear(n) ==
    IF Is(n, "complex") THEN Unreachable
    ELSE Visit(n, "rhs") \o TypeOfExpr(Kids(n, "rhs"), "clear")
UConstDecl(n) ==
    (IF Has(n, "type") THEN Visit(n, "type") ELSE TypeOfExpr(Kids(n, "value"), "write"))
        \o Declare(n) \o UMention(n) \o Visit(n, "value")
UTypeDecl(n) == Visit(n, "value") \o Declare(n)
UVarDecl(n, kept) == Typed(n) \o Keep("vars", Append(kept.vars, n))
URecord(n) == Join([i \in DOMAIN Kids(n, "fields") |-> Visit(Kids(n, "fields")[i], "type")])
UEnum(n) == Members(n)
UExprID(n) == Use(n, "expr")
UTypeExprID(n) == Use(n, "type")

\* (exists (x : t) :: ...): the limits of x are part of what it binds.
UQuantified(n) ==
    LET q == Only(n, "quantifier")
    IN  IF ~OneStep(q) THEN Unreachable
        ELSE UType(q) \o Open \o Declare(UVariable(q)) \o VisitAll(q, <<"from", "to">>)
                \o Visit(n, "expr") \o Close

UQuantifier(q) ==
    IF ~OneStep(q) THEN Unreachable
    ELSE UType(q) \o (IF Has(q, "type") THEN <<[do |-> "bounds", node |-> Only(UVariable(q), "type")]>>
                      ELSE VisitAll(q, <<"from", "to">>))
            \o Declare(UVariable(q))

\* for x in range(...), or a while loop over a variable declared ahead of it.
UFor(n) ==
    LET q == Only(n, "quantifier")
    IN  IF OneStep(q) THEN Open \o Visit(n, "quantifier") \o Visit(n, "body") \o Close
        ELSE Open \o Declare(UVariable(q)) \o VisitAll(q, <<"from", "to">>)
                \o Open \o Visit(n, "body") \o Close \o Visit(q, "step") \o Close

\* A procedure "modifies" variables of the module.  The end of a function, and
\* a return, copy its var parameters out.
UFunction(n, kept) ==
    Declare(n) \o UMentions(kept.vars) \o Open \o TypedAll(Kids(n, "parameters")) \o Visit(n, "return_type")
        \o Join([i \in DOMAIN Writable(n) |-> Visit(Writable(n)[i], "type")])
        \o Keep("to_return", Writable(n))
        \o VisitAll(n, <<"decls", "body">>) \o UMentions(Writable(n)) \o Keep("to_return", <<>>) \o Close
UReturn(n, kept) == UMentions(kept.to_return) \o Visit(n, "expr")

UIfClause(n) == Visit(n, "condition") \o Open \o Visit(n, "body") \o Close
USwitchCase(n) == Open \o Visit(n, "body") \o Close
USwitch(n) ==
    LET Compared(c) ==
            Join([i \in DOMAIN Kids(c, "matches") |->
                    (IF Is(n, "pure") THEN Visit(n, "expr") ELSE <<>>)
                        \o <<[do |-> "visit", node |-> Kids(c, "matches")[i]]>>])
    IN  Open \o (IF Is(n, "pure") THEN <<>>
                 ELSE TypeOfExpr(Kids(n, "expr"), "write") \o Visit(n, "expr"))
            \o Join([i \in DOMAIN Kids(n, "cases") |->
                       Compared(Kids(n, "cases")[i]) \o <<[do |-> "visit", node |-> Kids(n, "cases")[i]]>>])
            \o Close
UWhile(n) == Visit(n, "condition") \o Open \o Visit(n, "body") \o Close

\* Rules and start states are procedures that may modify any variable.
URuleProcedure(n, prefix, kept) ==
    DeclareAs(n, prefix) \o UMentions(kept.vars) \o Open \o EmitParams(kept)
        \o VisitAll(n, <<"decls", "body">>) \o Close
UStartState(n, kept) == URuleProcedure(n, "startstate_", kept)
USimpleRule(n, kept) ==
    (IF Has(n, "guard")
     THEN DeclareAs(n, "guard_") \o Open \o EmitParams(kept) \o Visit(n, "guard") \o Close ELSE <<>>)
        \o URuleProcedure(n, "rule_", kept)

UPropertyRule(n, kept) ==
    LET Around_(q) == UType(q) \o Open \o Declare(UVariable(q))
                        \o (IF OneStep(q) THEN VisitAll(q, <<"from", "to">>) ELSE Unreachable)
    IN  IF "cover" \in Category(n) THEN Unreachable
        ELSE Join([i \in DOMAIN kept.params |-> Around_(kept.params[i])])
                \o Visit(Only(n, "property"), "expr") \o Join([i \in DOMAIN kept.params |-> Close])
UPropertyStmt(n) ==
    IF Category(n) \cap {"cover", "liveness"} # {} THEN Unreachable ELSE Visit(Only(n, "property"), "expr")

\* What murphi2uclid writes for a node.
UScript(n, kept) ==
    CASE Unsupported(n) \/ n.class = "property" -> Unreachable
      [] n.class = "assignment" -> UAssignment(n)
      [] n.class = "procedurecall" -> UProcedureCall(n)
      [] n.class = "functioncall" -> UFunctionCall(n)
      [] n.class = "clear" -> UClear(n)
      [] n.class = "constdecl" -> UConstDecl(n)
      [] n.class = "typedecl" -> UTypeDecl(n)
      [] n.class = "vardecl" -> UVarDecl(n, kept)
      [] n.class = "record" -> URecord(n)
      [] n.class = "enum" -> UEnum(n)
      [] n.class \in {"range", "scalarset"} -> <<>>
      [] n.class = "exprid" -> UExprID(n)
      [] n.class = "typeexprid" -> UTypeExprID(n)
      [] n.class \in {"exists", "forall"} -> UQuantified(n)
      [] n.class = "quantifier" -> UQuantifier(n)
      [] n.class = "for" -> UFor(n)
      [] n.class = "function" -> UFunction(n, kept)
      [] n.class = "return" -> UReturn(n, kept)
      [] n.class = "ifclause" -> UIfClause(n)
      [] n.class = "switch" -> USwitch(n)
      [] n.class = "switchcase" -> USwitchCase(n)
      [] n.class = "while" -> UWhile(n)
      [] n.class = "ruleset" -> URuleset(n, kept)
      [] n.class = "startstate" -> UStartState(n, kept)
      [] n.class = "simplerule" -> USimpleRule(n, kept)
      [] n.class = "propertyrule" -> UPropertyRule(n, kept)
      [] n.class = "propertystmt" -> UPropertyStmt(n)
      [] OTHER -> ConstTraversal(n)

=============================================================================
