------------------------------- MODULE MCLoops -------------------------------
\* Loops over numbers of C types of 3 to 6 bits in the place of 8 to 64.
EXTENDS Loops

CType(name, signed, nominal, fast) ==
    [name |-> name, signed |-> signed, bits |-> fast,
     min |-> IF signed THEN -(2^(nominal - 1)) ELSE 0,
     max |-> IF signed THEN 2^(nominal - 1) - 1 ELSE 2^nominal - 1]

MCTypes == <<CType("uint8_t", FALSE, 3, 3), CType("int8_t", TRUE, 3, 3),
             CType("uint16_t", FALSE, 4, 6), CType("int16_t", TRUE, 4, 6),
             CType("uint32_t", FALSE, 5, 6), CType("int32_t", TRUE, 5, 6),
             CType("uint64_t", FALSE, 6, 6), CType("int64_t", TRUE, 6, 6)>>

Steps == {-7, -3, -2, -1, 0, 1, 2, 3, 5, 7}

Loop(lb, ub, stepped, step, type, ctype) ==
    [lb |-> lb, ub |-> ub, stepped |-> stepped, step |-> step,
     lower |-> type.lower, width |-> type.width, ctype |-> ctype]

\* Constant bounds, which validation has looked at: the type of x is their range.
Constant(lb, ub, stepped, step) ==
    LET type == IF lb <= ub THEN RangeType(lb, ub) ELSE RangeType(ub, lb)
        literals == type.literals \union (IF stepped THEN {step, -step} ELSE {})
    IN  Loop(lb, ub, stepped, step, type, get_value_type("auto", literals))

\* Bounds evaluated as the loop is entered: x may have any value.
Evaluated(lb, ub, stepped, step) ==
    Loop(lb, ub, stepped, step, RangeType(-31, 31), get_value_type("auto", {-31, 31}))

AllLoops ==
    {Constant(lb, ub, TRUE, step) : lb \in -8..7, ub \in -8..7, step \in Steps}
    \union {Constant(lb, ub, FALSE, 0) : lb \in -8..7, ub \in -8..7}
    \union {Evaluated(lb, ub, stepped, step) :
        lb \in {-31, -30, -2, 0, 29, 31}, ub \in {-31, -29, 0, 1, 30, 31},
        stepped \in BOOLEAN, step \in {-31, -20, -1, 0, 1, 16, 31}}

\* Quantifier::validate
Accepted(l) ==
    LET step == IF l.stepped THEN l.step ELSE 1
    IN  l.lower = -31 \/ (step # 0 /\ ~(l.lb < l.ub /\ step < 0) /\ ~(l.lb > l.ub /\ step > 0))

Usable == {l \in AllLoops : Accepted(l) /\ ~l.ctype.error}

\* The loops that go wrong: they count in a type narrower than that of their
\* values, or step up past the greatest value there is while the counter does
\* not wrap around, or count down to the least.
VALUE_MAX(l) == IF l.ctype.value.signed THEN 2^(l.ctype.value.bits - 1) - 1
                ELSE 2^l.ctype.value.bits - 1
VALUE_MIN(l) == IF l.ctype.value.signed THEN -(2^(l.ctype.value.bits - 1)) ELSE 0
NarrowLoops == {l \in Usable : l.ctype.raw.bits < l.ctype.value.bits}
By(l) == IF l.stepped THEN l.step ELSE 1
Beyond(l) == l.lb + By(l) * (((l.ub - l.lb) \div By(l)) + 1)
TopLoops == {l \in Usable : /\ l.lb < l.ub /\ By(l) > 0
                            /\ Beyond(l) > VALUE_MAX(l)
                            /\ Beyond(l) + 1 - l.lower < 2^l.ctype.raw.bits}
LowestLoops == {l \in Usable : l.lower = VALUE_MIN(l) /\ l.ub < l.lb}
OtherLoops == Usable \ (NarrowLoops \union TopLoops \union LowestLoops)

=============================================================================
