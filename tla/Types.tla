------------------------------- MODULE Types -------------------------------
(***************************************************************************)
(* The types of a Murphi model (librumur/src/TypeExpr.cc), the C types the *)
(* verifier keeps their values in (rumur/src/ValueType.cc) and the order   *)
(* its state lays variables out in (rumur/src/optimise-field-ordering.cc). *)
(*                                                                         *)
(* A type is the record of what its methods answer:                        *)
(*    count    its values, the undefined one included                      *)
(*    width    the bits a state needs for it                               *)
(*    simple   is_simple                                                   *)
(*    lower, upper   its bounds, of a simple type                          *)
(*    leaves   the types other than unions it is made of                   *)
(*    literals what BoundsFinder reads in it                               *)
(* and the parts "equal" compares.  A TypeExprID answers as its referent,  *)
(* so it is that type.                                                     *)
(***************************************************************************)
EXTENDS Integers, Sequences, FiniteSets
LOCAL INSTANCE FiniteSetsExt
LOCAL INSTANCE SequencesExt

CONSTANT CTypes   \* the C types by estimated expense: min, max, and the bits
                  \* and signedness of their fast equivalent

SmallestOf(S) == Min(S)
LargestOf(S) == Max(S)
Total(s) == FoldLeft(LAMBDA a, b : a + b, 0, s)
Product(s) == FoldLeft(LAMBDA a, b : a * b, 1, s)

-----------------------------------------------------------------------------

\* The bits that represent the largest of c values.
Bits(c) == IF c <= 1 THEN 0 ELSE CHOOSE b \in 1..c : 2^(b-1) < c /\ c <= 2^b

\* A type that is not a union.
Leaf(t) == [t EXCEPT !.leaves = {[t EXCEPT !.leaves = {}]}]

RangeType(min, max) ==
    Leaf([kind |-> "range", count |-> max - min + 2, width |-> Bits(max - min + 2),
          simple |-> TRUE, lower |-> min, upper |-> max,
          literals |-> {min, max}, leaves |-> {}])

ScalarsetType(bound) ==
    Leaf([kind |-> "scalarset", count |-> bound + 1, width |-> Bits(bound + 1),
          simple |-> TRUE, lower |-> 0, upper |-> bound - 1,
          literals |-> {bound}, leaves |-> {}])

EnumType(members) ==
    Leaf([kind |-> "enum", members |-> members,
          count |-> Len(members) + 1, width |-> Bits(Len(members) + 1),
          simple |-> TRUE, lower |-> 0, upper |-> LargestOf({0, Len(members) - 1}),
          literals |-> {Len(members)}, leaves |-> {}])

\* fields: a sequence of records of a name and a type.
RecordType(fields) ==
    Leaf([kind |-> "record", fields |-> fields,
          count |-> Product([i \in DOMAIN fields |-> fields[i].type.count]),
          width |-> Total([i \in DOMAIN fields |-> fields[i].type.width]),
          simple |-> FALSE,
          literals |-> UNION {fields[i].type.literals : i \in DOMAIN fields},
          leaves |-> {}])

ArrayType(index, element) ==
    Leaf([kind |-> "array", index |-> index, element |-> element,
          count |-> IF index.count = 1 THEN 0 ELSE element.count ^ (index.count - 1),
          width |-> (index.count - 1) * element.width,
          simple |-> FALSE, literals |-> index.literals \union element.literals,
          leaves |-> {}])

\* The bits of a union.
BugUnionWidth(members) == Total([i \in DOMAIN members |-> members[i].width])
UnionWidth(members) == LargestOf({0} \union {members[i].width : i \in DOMAIN members})

UnionType(members) ==
    LET all == {members[i] : i \in DOMAIN members}
        simple == \A t \in all : t.simple
    IN  [kind |-> "union", members |-> members,
         count |-> 1 + Total([i \in DOMAIN members |-> members[i].count]),
         width |-> UnionWidth(members),
         simple |-> simple,
         lower |-> IF ~simple \/ all = {} THEN 0 ELSE SmallestOf({t.lower : t \in all}),
         upper |-> IF ~simple \/ all = {} THEN 0 ELSE LargestOf({t.upper : t \in all}),
         literals |-> UNION {t.literals : t \in all},
         leaves |-> UNION {t.leaves : t \in all}]

\* Two resolved types are equal when they were built alike.
Equal(t, u) == t = u

CoercesTo(t, u) ==
    \E x \in t.leaves, y \in u.leaves :
        (x.kind = "range" /\ y.kind = "range") \/ Equal(x, y)

-----------------------------------------------------------------------------

\* BoundsFinder: the least and the greatest number a model mentions, the
\* literals of its types and those of its expressions.
Least(literals) == SmallestOf({0} \union literals)
Greatest(literals) == LargestOf({0} \union literals)

\* The first unsigned type for a range shifted to start from 1, if there is one.
BugRawLimit(min, max) == max - min
RawLimit(min, max) == max - min + 1
raw_type(min, max) ==
    SelectSeq(CTypes, LAMBDA c : c.min = 0 /\ c.max >= RawLimit(min, max))

\* What --value-type auto considers.
Suitable(literals) ==
    SelectSeq(CTypes, LAMBDA c : c.min <= Least(literals) /\ c.max >= Greatest(literals))

NoType == [error |-> TRUE]

\* get_value_type: value_t and raw_value_t, or an error.
get_value_type(name, literals) ==
    LET values == IF name = "auto" THEN Suitable(literals)
                  ELSE SelectSeq(CTypes, LAMBDA c : c.name = name)
        min == IF name = "auto" THEN Least(literals) ELSE values[1].min
        max == IF name = "auto" THEN Greatest(literals) ELSE values[1].max
    IN  IF values = <<>> \/ raw_type(min, max) = <<>> THEN NoType
        ELSE [error |-> FALSE, value |-> values[1], raw |-> raw_type(min, max)[1]]

-----------------------------------------------------------------------------

OneHot(n) == \E b \in 0..n : n = 2^b

\* comp: whether a field of width a must come before one of width b.
Before(a, b) ==
    \/ a = 0
    \/ b # 0 /\ OneHot(a) /\ ~OneHot(b)
    \/ b # 0 /\ OneHot(a) = OneHot(b) /\ a > b

\* std::sort: any order of the variables no later one of which must come
\* before an earlier one, as far as comp is an order.
Sorted(order, width) ==
    \A i, j \in DOMAIN order :
        i < j => ~Before(width[order[j]], width[order[i]]) \/ width[order[i]] = 0

\* Reorderer: the offset of each variable in a state.
Offset(order, width, v) ==
    LET at == CHOOSE i \in DOMAIN order : order[i] = v
    IN  Total([i \in 1..at - 1 |-> width[order[i]]])

=============================================================================
