--------------------------- MODULE AbstractStore ---------------------------
(***************************************************************************)
(* What a model's statements mean: every simple part of a variable holds   *)
(* a number of its type or nothing, numbers are the integers, and a        *)
(* statement either does what it says or ends in an error.                 *)
(***************************************************************************)
EXTENDS Integers, FiniteSets

CONSTANTS
    Nothing,                                      \* the value of an undefined part
    Overflow, ByZero, BadIndex, Undefined, OutOfRange,
    Width(_),           \* of a model: the bits of its numbers, for shifts,
    Signed(_),          \* and whether one of them is a sign
    PartOf(_, _),       \* of a model: the part a designator names, if any,
    PartsOf(_, _),      \* the parts of a variable,
    TypeAt(_, _)        \* and the type of a designator

VARIABLES model, store, statement, outcome

Least == IF Signed(model) THEN -(2^(Width(model) - 1)) ELSE 0
Representable(n) == n \in Least..Least + 2^Width(model) - 1
Wrapped(n) == ((n - Least) % 2^Width(model)) + Least

\* The integer an operation on integers yields, or the error it is.
Result(op, a, b) ==
    LET towardsZero == LET q == (IF a < 0 THEN -a ELSE a) \div (IF b < 0 THEN -b ELSE b)
                       IN  IF (a < 0) = (b < 0) THEN q ELSE -q
        exact(n) == IF Representable(n) THEN n ELSE Overflow
        shift(n) == IF n >= Width(model) \/ n <= -Width(model) THEN 0
                    ELSE IF n >= 0 THEN Wrapped(a * 2^n) ELSE a \div 2^(-n)
    IN  CASE op = "+" -> exact(a + b)
          [] op = "-" -> exact(a - b)
          [] op = "*" -> exact(a * b)
          [] op = "/" -> IF b = 0 THEN ByZero ELSE exact(towardsZero)
          [] op = "%" -> IF b = 0 THEN ByZero ELSE a - b * towardsZero
          [] op = "neg" -> IF Representable(-1) THEN exact(-a) ELSE Wrapped(-a)
          [] op = "<<" -> shift(b)
          [] op = ">>" -> shift(-b)
          [] op = "~" -> Wrapped(-a - 1)
          [] op = "id" -> a

Errors == {Overflow, ByZero, BadIndex, Undefined, OutOfRange}

Value(x) ==
    IF x.kind = "literal" THEN x.at
    ELSE IF PartOf(model, x) = Nothing THEN BadIndex
    ELSE IF store[PartOf(model, x)] = Nothing THEN Undefined ELSE store[PartOf(model, x)]

\* The first of the errors of a statement, in the order it evaluates.
Assigned(s) ==
    IF PartOf(model, s.lhs) = Nothing THEN BadIndex
    ELSE IF Value(s.a) \in Errors THEN Value(s.a)
    ELSE IF Value(s.b) \in Errors THEN Value(s.b)
    ELSE LET r == Result(s.op, Value(s.a), Value(s.b))
         IN  IF r \in Errors THEN r
             ELSE IF r \notin TypeAt(model, s.lhs).lower..TypeAt(model, s.lhs).upper THEN OutOfRange ELSE r

Become(parts, value(_), result) ==
    /\ store' = [p \in DOMAIN store |-> IF p \in parts THEN value(p) ELSE store[p]]
    /\ outcome' = result

SamePart(p, v) == [p EXCEPT !.var = v]

Do(s) ==
    \/ /\ s.do = "assign"
       /\ IF Assigned(s) \in Errors THEN Become({}, LAMBDA p : Nothing, Assigned(s))
          ELSE Become({PartOf(model, s.lhs)}, LAMBDA p : Assigned(s), "ok")
    \/ /\ s.do = "copy"
       /\ Become(PartsOf(model, s.lhs.var), LAMBDA p : store[SamePart(p, s.a.var)], "ok")
    \/ /\ s.do = "compare"
       /\ Become({}, LAMBDA p : Nothing,
                 IF \A p \in PartsOf(model, s.lhs.var) : store[p] = store[SamePart(p, s.a.var)]
                 THEN "equal" ELSE "different")
    \/ /\ s.do = "isundefined"
       /\ Become({}, LAMBDA p : Nothing,
                 IF PartOf(model, s.a) = Nothing THEN BadIndex
                 ELSE IF store[PartOf(model, s.a)] = Nothing THEN "true" ELSE "false")
    \/ /\ s.do = "undefine"
       /\ IF PartOf(model, s.lhs) = Nothing /\ s.lhs.kind = "element"
          THEN Become({}, LAMBDA p : Nothing, BadIndex)
          ELSE Become(IF s.lhs.kind = "var" THEN PartsOf(model, s.lhs.var) ELSE {PartOf(model, s.lhs)},
                      LAMBDA p : Nothing, "ok")
    \/ /\ s.do = "clear"
       /\ Become(PartsOf(model, s.lhs.var), LAMBDA p : TypeAt(model, p).lower, "ok")
    \/ /\ s.do = "pass"
       /\ Become({}, LAMBDA p : Nothing,
                 IF Value(s.a) = BadIndex THEN BadIndex
                 ELSE IF Value(s.a) = Undefined THEN Nothing
                 ELSE IF Value(s.a) \notin s.type.lower..s.type.upper THEN OutOfRange
                 ELSE Value(s.a) - s.type.lower + 1)

StoreInit == \A p \in DOMAIN store : store[p] = Nothing

StoreNext ==
    /\ statement' \in model.statements
    /\ Do(statement')
    /\ UNCHANGED model

StoreSpec == StoreInit /\ [][StoreNext]_<<model, store, statement, outcome>>

=============================================================================
