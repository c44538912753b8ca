------------------------------ MODULE MCValues ------------------------------
\* Small models: bytes of two bits, words of two bytes, and C types of 3 to 6
\* bits in the place of 8 to 64.
EXTENDS Values

CType(name, signed, nominal, fast) ==
    [name |-> name, signed |-> signed, bits |-> fast,
     min |-> IF signed THEN -(2^(nominal - 1)) ELSE 0,
     max |-> IF signed THEN 2^(nominal - 1) - 1 ELSE 2^nominal - 1]

MCTypes == <<CType("uint8_t", FALSE, 3, 3), CType("int8_t", TRUE, 3, 3),
             CType("uint16_t", FALSE, 4, 6), CType("int16_t", TRUE, 4, 6),
             CType("uint32_t", FALSE, 5, 6), CType("int32_t", TRUE, 5, 6),
             CType("uint64_t", FALSE, 6, 6), CType("int64_t", TRUE, 6, 6)>>

Var(v) == [kind |-> "var", var |-> v, at |-> 0]
Element(v, i) == [kind |-> "element", var |-> v, at |-> i]
Field(v, i) == [kind |-> "field", var |-> v, at |-> i]
Literal(n) == [kind |-> "literal", at |-> n]
At(n, t) == [name |-> n, type |-> t]

LiteralsOf(types) == UNION {types[v].literals : v \in DOMAIN types}

\* Assignments to the parts of a number, or of what an operation makes of a
\* first operand and a number.  A number stands for the subexpression it is the
\* value of, so any number of the C type may be one.
Assignments(parts, first, numbers) ==
    {[do |-> "assign", lhs |-> x, op |-> o, a |-> a, b |-> Literal(b)] :
        x \in parts, o \in {"+", "-", "*", "/", "%", "<<", ">>", "neg", "~", "id"},
        a \in first, b \in numbers}

\* The other statements over those parts and over alike complex variables.
Statements(parts, complex) ==
    {[do |-> "undefine", lhs |-> x] : x \in parts \union complex}
    \union {[do |-> "isundefined", a |-> x] : x \in parts}
    \union {[do |-> "pass", a |-> x, type |-> RangeType(0, 1)] : x \in parts}
    \union {[do |-> d, lhs |-> x, a |-> y] : d \in {"copy", "compare"}, x \in complex, y \in complex}
    \union {[do |-> "clear", lhs |-> x] : x \in complex}

Model(types, order, parts, numbers, complex) ==
    [types |-> types, order |-> order, literals |-> LiteralsOf(types), int128 |-> TRUE,
     statements |-> Statements(parts, complex)
         \union {s \in Assignments(parts, {Literal(n) : n \in numbers}, {0}) : s.op = "id"}
         \union Assignments(parts, parts, {1})]

\* One variable and every pair of numbers a C type of three bits has.
Arithmetic(lower, upper, numbers) ==
    LET types == [x |-> RangeType(lower, upper)]
    IN  [types |-> types, order |-> <<"x">>, literals |-> LiteralsOf(types), int128 |-> TRUE,
         statements |-> Assignments({Var("x")}, {Literal(n) : n \in numbers}, numbers)]

\* A field of four bits, aligned and, with the fields in the order of their
\* declaration, across two words.
Straddling ==
    LET types == [x |-> RangeType(-1, 1), y |-> RangeType(-2, 8), z |-> EnumType(<<"p">>)]
        width == [v \in DOMAIN types |-> types[v].width]
        m(o) == Model(types, o, {Var("x"), Var("y"), Var("z")}, {-2, 3, 8, 9}, {})
    IN  {m(o) : o \in {p \in {<<"y", "x", "z">>, <<"x", "y", "z">>} : Sorted(p, width)}}
        \union {[m(<<"z", "y", "x">>) EXCEPT !.int128 = b] : b \in BOOLEAN}

\* Two records that are copied and compared, around a field of one bit.
Complex ==
    LET r == RecordType(<<At("f", RangeType(-4, -2)), At("g", ScalarsetType(1))>>)
        types == [r |-> r, b |-> RangeType(3, 3), s |-> r]
    IN  {Model(types, <<"b", "r", "s">>,
               {Field(v, i) : v \in {"r", "s"}, i \in 1..2} \union {Var("b")}, {-4, -1, 3}, {Var("r"), Var("s")})}

\* Two arrays indexed inside and outside their bounds, unsigned.
Arrays ==
    LET a == ArrayType(RangeType(1, 2), EnumType(<<"p", "q">>))
        types == [a |-> a, u |-> RangeType(5, 7), c |-> a]
    IN  {Model(types, <<"u", "a", "c">>,
               {Element("a", i) : i \in 0..3} \union {Element("c", 1), Var("u")}, {0, 1, 7}, {Var("a"), Var("c")})}

MCModels ==
    {Arithmetic(-4, 3, -4..3), Arithmetic(0, 7, 0..7),
     Arithmetic(-8, 7, {-32, -31, -8, -6, -5, -1, 0, 1, 2, 5, 6, 30, 31})}
    \union Straddling \union Complex \union Arrays

\* A variable whose least value is negative and whose span is just below
\* that of a type of eight bits.
NarrowModels ==
    {Model([x |-> RangeType(-1, 5)], <<"x">>, {Var("x")}, {-1, 0, 1}, {})}

\* A union of two ranges that are apart.
UnionModels ==
    {Model([x |-> UnionType(<<RangeType(0, 1), RangeType(5, 6)>>)], <<"x">>, {Var("x")}, {0, 6}, {})}

TheStatementsDoNotMatter == <<model, data>>

=============================================================================
