-------------------------------- MODULE Loops --------------------------------
(***************************************************************************)
(* The loop the generator writes for a quantifier: of a for statement, of  *)
(* forall and exists, and of a ruleset (generate_quantifier_header and     *)
(* generate_quantifier_footer in rumur/src/generate-quantifier.cc).  It    *)
(* counts in raw_value_t, in which the smallest value of the quantifier's  *)
(* type is 1, with what C makes of each expression: a raw_value_t narrower *)
(* than an int is an int inside of an expression.                          *)
(***************************************************************************)
EXTENDS Types

CONSTANTS
    INT_BITS,   \* bits of a C int
    LONGEST,    \* how many values are kept of a loop that does not end
    Loops       \* the loops: the bounds of the quantifier's type, the bounds
                \* and step evaluated, whether a step is given, and the C types

VARIABLES
    loop,       \* the loop that runs
    counter,    \* _ru1_x, the raw_value_t that counts
    visited,    \* the values x had in the body, so far
    at          \* "enter", "test", "body", "footer", "done" or "error"

loopVars == <<loop, counter, visited, at>>

RawBits == loop.ctype.raw.bits
Raw(n) == n % 2^RawBits
ToValue(n) ==
    LET b == loop.ctype.value.bits
        m == n % 2^b
    IN  IF loop.ctype.value.signed /\ m >= 2^(b - 1) THEN m - 2^b ELSE m

\* What an expression over raw_value_t's comes to before it is converted.
Arithmetic(n) == IF RawBits < INT_BITS THEN n ELSE Raw(n)

\* V_TO_RV and RV_TO_V
V_TO_RV(v) == Raw(Raw(Raw(v) + 1) - Raw(loop.lower))
BugRV_TO_V(r) == ToValue(Arithmetic(r + Raw(loop.lower)))
RV_TO_V(r) == ToValue(Arithmetic(r - 1 + Raw(loop.lower)))

\* The step of a quantifier without one.
Step == Raw(IF loop.stepped THEN loop.step ELSE IF loop.ub >= loop.lb THEN 1 ELSE -1)
SignedStep == ToValue(Step)

WrongDirection ==
    \/ loop.ub > loop.lb /\ SignedStep < 0
    \/ loop.ub < loop.lb /\ SignedStep > 0

\* Evaluate the bounds and the step, and start the counter.
Enter ==
    /\ at = "enter"
    /\ IF Step = 0 \/ WrongDirection
       THEN at' = "error" /\ UNCHANGED counter
       ELSE at' = "test" /\ counter' = V_TO_RV(loop.lb)
    /\ UNCHANGED <<loop, visited>>

Continues ==
    \/ counter = V_TO_RV(loop.lb)
    \/ loop.lb < loop.ub /\ RV_TO_V(counter) <= loop.ub
    \/ loop.lb > loop.ub /\ RV_TO_V(counter) >= loop.ub

\* The loop's condition, then the handle the body reads x through.
Test ==
    /\ at = "test"
    /\ at' = IF Continues THEN "body" ELSE "done"
    /\ UNCHANGED <<loop, counter, visited>>

\* The value the body reads: the counter as it is kept, decoded.
Body ==
    /\ at = "body"
    /\ visited' = IF Len(visited) = LONGEST THEN visited
                  ELSE Append(visited, (counter % 2^loop.width) - 1 + loop.lower)
    /\ at' = "footer"
    /\ UNCHANGED <<loop, counter>>

\* Whether this is the last value an upward, or a downward, loop reaches
\* before its counter would wrap around.
RAW_VALUE_MAX == 2^RawBits - 1
BugLastUp == FALSE
LastUp ==
    /\ loop.ub >= loop.lb /\ SignedStep > 0
    /\ RV_TO_V(RAW_VALUE_MAX - Step) < loop.ub
    /\ counter > RAW_VALUE_MAX - Step
BugLastDown == FALSE
LastDown ==
    /\ loop.ub <= loop.lb /\ SignedStep < 0
    /\ RV_TO_V(Arithmetic(-Step)) > loop.ub
    /\ RV_TO_V(counter) < RV_TO_V(Arithmetic(-Step))

Footer ==
    /\ at = "footer"
    /\ IF LastUp \/ LastDown
       THEN at' = "done" /\ UNCHANGED counter
       ELSE at' = "test" /\ counter' = Raw(counter + Step)
    /\ UNCHANGED <<loop, visited>>

LoopInit ==
    /\ loop \in Loops
    /\ counter = 0
    /\ visited = <<>>
    /\ at = "enter"

LoopNext == Enter \/ Test \/ Body \/ Footer

LoopSpec == LoopInit /\ [][LoopNext]_loopVars /\ WF_loopVars(LoopNext)

-----------------------------------------------------------------------------

\* The values from lb to ub, by the step.
StepOf == IF loop.stepped THEN loop.step ELSE IF loop.ub >= loop.lb THEN 1 ELSE -1
Expected ==
    LET n == (loop.ub - loop.lb) \div StepOf
    IN  [i \in 1..n + 1 |-> loop.lb + (i - 1) * StepOf]

\* A loop runs its body for every value from its first bound to its last by
\* its step, in that order, and for no other: none is missed when the counter
\* nears the end of its type and none comes again after it has wrapped.  A
\* loop that could not end is an error, and no other one is.
VisitsAll ==
    /\ at = "done" => visited = Expected
    /\ at = "error" =>
           \/ StepOf = 0
           \/ loop.ub > loop.lb /\ StepOf < 0
           \/ loop.ub < loop.lb /\ StepOf > 0
    /\ at \in {"body", "footer"} => Len(visited) <= Len(Expected)

\* Every loop ends.
LoopEnds == <>(at \in {"done", "error"})

=============================================================================
