------------------------------- MODULE Values -------------------------------
(***************************************************************************)
(* How the verifier keeps a model's variables: the handles that locate     *)
(* them in a bit-packed state, reads and writes through handles, and the   *)
(* arithmetic on what is read (rumur/resources/header.c).                  *)
(*                                                                         *)
(* A word and a byte are the set of their bits that are one.  One step     *)
(* runs one assignment, clear or undefine of a rule; an error abandons it. *)
(***************************************************************************)
EXTENDS Types
LOCAL INSTANCE SequencesExt

CONSTANTS
    CHAR_BIT,      \* bits of a byte
    WORD,          \* bytes of a uint64_t
    INT_BITS,      \* bits of a C int
    Nothing,       \* what an undefined part holds
    Overflow, ByZero, BadIndex, Undefined, OutOfRange,   \* the errors
    Models         \* the models: the variables' types, their order in a
                   \* state, the statements, the numbers they mention, and
                   \* whether the compiler has a type of two words

Errors == {Overflow, ByZero, BadIndex, Undefined, OutOfRange}

VARIABLES
    model,         \* the model that is verified
    data,          \* the bytes of the state worked on
    statement,     \* the last statement run
    outcome        \* "ok", a Boolean it computed, or the error it ended with

valuesVars == <<model, data, statement, outcome>>

Low(w, n) == {i \in w : i < n}
Left(w, n) == {i + n : i \in w}
Right(w, n) == {i - n : i \in {j \in w : j >= n}}
Number(w) == LET f[S \in SUBSET w] == IF S = {} THEN 0
                 ELSE LET i == CHOOSE i \in S : TRUE IN 2^i + f[S \ {i}]
             IN  f[w]
Word(n) == {i \in 0..n : (n \div 2^i) % 2 = 1}

-----------------------------------------------------------------------------

\* struct handle: a base byte, an offset in it, and a width, in bits.
Handle(base, offset, width) ==
    [base |-> base + offset \div CHAR_BIT, offset |-> offset % CHAR_BIT, width |-> width]

RoundedUp(bits) == (bits + CHAR_BIT - 1) \div CHAR_BIT

\* handle_align: the bytes that hold the handle.
handle_align(h) == [h EXCEPT !.offset = 0, !.width = RoundedUp(h.width + h.offset) * CHAR_BIT]

copy_out(d, p, extent) ==
    UNION {Left(d[p + i], CHAR_BIT * i) : i \in 0..extent - 1}

copy_in(d, p, w, extent) ==
    [k \in DOMAIN d |-> IF k \in p..p + extent - 1
                        THEN Low(Right(w, CHAR_BIT * (k - p)), CHAR_BIT) ELSE d[k]]

\* The bytes of the variable an access goes through: a word, or two of them
\* where that is likely to be needed and there is a type for it.
AccessSize(h) ==
    IF model.int128 /\ handle_align(h).width > (WORD - 1) * CHAR_BIT THEN 2 * WORD ELSE WORD

\* read_raw: through one variable, and a second for what is beyond it.
BugHighPart(w, size, offset) == Left(w, size * CHAR_BIT)
HighPart(w, size, offset) == Left(w, size * CHAR_BIT - offset)
read_raw(d, h) ==
    LET bytes == handle_align(h).width \div CHAR_BIT
        size == AccessSize(h)
        lowSize == SmallestOf({bytes, size})
        low == Right(copy_out(d, h.base, lowSize), h.offset)
        high == HighPart(copy_out(d, h.base + size, bytes - lowSize), size, h.offset)
    IN  Low(low \union high, SmallestOf({h.width, size * CHAR_BIT}))

\* The bits of the first variable a write keeps: those below the handle and,
\* unless it reaches beyond, those above it.
BugKept(h, bytes, lowSize, size) == 0..h.offset - 1
Kept(h, bytes, lowSize, size) ==
    0..h.offset - 1 \union
    IF h.width + h.offset < size * CHAR_BIT
    THEN LET high == bytes * CHAR_BIT - h.offset - h.width
         IN  lowSize * CHAR_BIT - high..lowSize * CHAR_BIT - 1
    ELSE {}

\* write_raw
write_raw(d, h, v) ==
    LET bytes == handle_align(h).width \div CHAR_BIT
        size == AccessSize(h)
        lowSize == SmallestOf({bytes, size})
        value == Low(v, h.width)
        low == (copy_out(d, h.base, lowSize) \intersect Kept(h, bytes, lowSize, size))
                   \union Low(Left(value, h.offset), lowSize * CHAR_BIT)
        after == copy_in(d, h.base, low, lowSize)
        high == {i \in copy_out(after, h.base + size, bytes - lowSize) :
                    i >= h.width + h.offset - size * CHAR_BIT}
                    \union Right(value, size * CHAR_BIT - h.offset)
    IN  IF h.width = 0 THEN d
        ELSE IF bytes = lowSize THEN after
        ELSE copy_in(after, h.base + size, high, bytes - lowSize)

\* handle_zero: the rest of the first byte, the whole bytes, and the start of
\* the last one.
handle_zero(d, h) ==
    LET head == IF h.offset = 0 THEN 0 ELSE CHAR_BIT - h.offset
        within == h.offset # 0 /\ h.width < head
        next == h.base + (IF h.offset = 0 THEN 0 ELSE 1)
        whole == (h.width - head) \div CHAR_BIT
        tail == (h.width - head) % CHAR_BIT
    IN  [k \in DOMAIN d |->
           IF h.offset # 0 /\ k = h.base
           THEN {b \in d[k] : b < h.offset \/ (within /\ b >= h.offset + h.width)}
           ELSE IF within THEN d[k]
           ELSE IF k \in next..next + whole - 1 THEN {}
           ELSE IF k = next + whole /\ tail > 0 THEN {b \in d[k] : b >= tail}
           ELSE d[k]]

\* Bit i of a handle.
BitOf(d, h, i) == (h.offset + i) % CHAR_BIT \in d[h.base + (h.offset + i) \div CHAR_BIT]

handle_eq(d, h, g) == \A i \in 0..h.width - 1 : BitOf(d, h, i) = BitOf(d, g, i)

\* handle_copy: bit by bit.
BugCopied(h) == 0..h.width - 2
Copied(h) == 0..h.width - 1
handle_copy(d, h, g) ==
    [k \in DOMAIN d |->
        {b \in 0..CHAR_BIT - 1 :
            LET i == (k - h.base) * CHAR_BIT + b - h.offset
            IN  IF i \in Copied(h) THEN BitOf(d, g, i) ELSE b \in d[k]}]

handle_narrow(h, offset, width) == Handle(h.base, h.offset + offset, width)

\* handle_index, of an index in range.
handle_index(h, array, i) ==
    Handle(h.base, h.offset + (i - array.index.lower) * array.element.width, array.element.width)

-----------------------------------------------------------------------------

\* The C types of the model.
ctype == model.ctype

\* Conversion to a C type.
Wrap(c, n) == LET m == n % 2^c.bits
              IN  IF c.signed /\ m >= 2^(c.bits - 1) THEN m - 2^c.bits ELSE m
VALUE_MIN == IF ctype.value.signed THEN -(2^(ctype.value.bits - 1)) ELSE 0
VALUE_MAX == IF ctype.value.signed THEN 2^(ctype.value.bits - 1) - 1
             ELSE 2^ctype.value.bits - 1
Representable(n) == n \in VALUE_MIN..VALUE_MAX

\* The results of an operation: a set, of more than one value where C leaves
\* the result undefined.
Checked(n) == IF Representable(n) THEN {n} ELSE {Overflow}

add(a, b) == Checked(a + b)
sub(a, b) == Checked(a - b)
mul(a, b) == Checked(a * b)

\* C's division, towards zero.
Quotient(a, b) ==
    LET q == (IF a < 0 THEN -a ELSE a) \div (IF b < 0 THEN -b ELSE b)
    IN  IF (a < 0) = (b < 0) THEN q ELSE -q

BugSmallest(a, b) == FALSE
Smallest(a, b) == VALUE_MIN # 0 /\ a = VALUE_MIN /\ b = -1

divide(a, b) ==
    IF b = 0 THEN {ByZero} ELSE IF Smallest(a, b) THEN {Overflow}
    ELSE {Wrap(ctype.value, Quotient(a, b))}

mod(a, b) ==
    IF b = 0 THEN {ByZero} ELSE IF Smallest(a, b) THEN {0} ELSE {a - b * Quotient(a, b)}

negate(a) ==
    IF VALUE_MIN # 0 /\ a = VALUE_MIN THEN {Overflow} ELSE {Wrap(ctype.value, -a)}

\* A raw_value_t narrower than an int is promoted to one before it is shifted
\* or complemented.
Promoted == ctype.raw.bits < INT_BITS
AsRaw(a) == a % 2^ctype.raw.bits

ShiftedLeft(a, b) ==
    IF (Promoted /\ (b >= INT_BITS \/ AsRaw(a) * 2^b >= 2^(INT_BITS - 1)))
           \/ (~Promoted /\ b >= ctype.raw.bits)
    THEN VALUE_MIN..VALUE_MAX
    ELSE {Wrap(ctype.value, IF Promoted THEN AsRaw(a) * 2^b ELSE AsRaw(a * 2^b))}

BugTooFar(b) == ctype.value.signed /\ b <= -ctype.value.bits
TooFar(b) ==
    \/ ctype.value.signed /\ b <= -ctype.value.bits
    \/ b >= ctype.value.bits

lsh(a, b) ==
    IF TooFar(b) THEN {0} ELSE IF b < 0 THEN {a \div 2^(-b)} ELSE ShiftedLeft(a, b)

rsh(a, b) ==
    IF TooFar(b) THEN {0} ELSE IF b < 0 THEN ShiftedLeft(a, -b) ELSE {a \div 2^b}

bnot(a) ==
    {Wrap(ctype.value, IF Promoted THEN -AsRaw(a) - 1 ELSE AsRaw(-AsRaw(a) - 1))}

Computed(op, a, b) ==
    CASE op = "+" -> add(a, b) [] op = "-" -> sub(a, b) [] op = "*" -> mul(a, b)
      [] op = "/" -> divide(a, b) [] op = "%" -> mod(a, b) [] op = "neg" -> negate(a)
      [] op = "<<" -> lsh(a, b) [] op = ">>" -> rsh(a, b) [] op = "~" -> bnot(a)
      [] op = "id" -> {a}

-----------------------------------------------------------------------------

\* The variables in the order the state keeps them, and a variable's handle.
RootHandle(v) == Handle(0, model.offset[v], model.types[v].width)

\* A designator is a variable, an element or a field of one.  IndexFails is
\* handle_index's check.
TypeIn(m, x) ==
    LET t == m.types[x.var]
    IN  CASE x.kind = "var" -> t
          [] x.kind = "element" -> t.element
          [] x.kind = "field" -> t.fields[x.at].type
TypeOf(x) == TypeIn(model, x)
HandleOf(x) ==
    LET t == model.types[x.var]
    IN  CASE x.kind = "var" -> RootHandle(x.var)
          [] x.kind = "element" -> handle_index(RootHandle(x.var), t, x.at)
          [] x.kind = "field" ->
                 handle_narrow(RootHandle(x.var),
                               Total([i \in 1..x.at - 1 |-> t.fields[i].type.width]),
                               t.fields[x.at].type.width)
BugIndexFails(x) == FALSE
OutOfBounds(m, x) ==
    /\ x.kind = "element"
    /\ x.at \notin m.types[x.var].index.lower..m.types[x.var].index.upper
IndexFails(x) == OutOfBounds(model, x)

\* handle_read and decode_value, or a literal.
Read(x) ==
    IF x.kind = "literal" THEN x.at
    ELSE IF IndexFails(x) THEN BadIndex
    ELSE LET raw == Number(read_raw(data, HandleOf(x)))
         IN  IF raw = 0 THEN Undefined ELSE raw - 1 + TypeOf(x).lower

\* handle_write: the offset that is kept of a value, or an error.
Encoded(t, v) ==
    LET r == v - t.lower + 1
    IN  IF v \notin t.lower..t.upper \/ r \notin 0..2^ctype.raw.bits - 1 THEN OutOfRange ELSE r

Ends(s, e) == statement' = s /\ outcome' = e /\ UNCHANGED <<model, data>>

\* lhs := op(a, b), all of simple type: lhs's handle is made first.
Assign(s) ==
    LET x == Read(s.a)
        y == Read(s.b)
    IN  /\ s.do = "assign"
        /\ IF IndexFails(s.lhs) THEN Ends(s, BadIndex)
           ELSE IF x \in Errors THEN Ends(s, x)
           ELSE IF y \in Errors THEN Ends(s, y)
           ELSE \E v \in Computed(s.op, x, y) :
                  IF v \in Errors THEN Ends(s, v)
                  ELSE LET r == Encoded(TypeOf(s.lhs), v)
                       IN  IF r \in Errors THEN Ends(s, r)
                           ELSE /\ data' = write_raw(data, HandleOf(s.lhs), Word(r))
                                /\ statement' = s
                                /\ outcome' = "ok"
                                /\ UNCHANGED model

\* lhs := a, of complex type.
Copy(s) ==
    /\ s.do = "copy"
    /\ data' = handle_copy(data, HandleOf(s.lhs), HandleOf(s.a))
    /\ statement' = s
    /\ outcome' = "ok"
    /\ UNCHANGED model

\* lhs = a, of complex type.
Compare(s) ==
    /\ s.do = "compare"
    /\ statement' = s
    /\ outcome' = IF handle_eq(data, HandleOf(s.lhs), HandleOf(s.a)) THEN "equal" ELSE "different"
    /\ UNCHANGED <<model, data>>

\* isundefined(a)
TestUndefined(s) ==
    /\ s.do = "isundefined"
    /\ IF IndexFails(s.a) THEN Ends(s, BadIndex)
       ELSE Ends(s, IF read_raw(data, HandleOf(s.a)) = {} THEN "true" ELSE "false")

\* undefine lhs
Undefine(s) ==
    /\ s.do = "undefine"
    /\ IF IndexFails(s.lhs) THEN Ends(s, BadIndex)
       ELSE /\ data' = handle_zero(data, HandleOf(s.lhs))
            /\ statement' = s
            /\ outcome' = "ok"
            /\ UNCHANGED model

\* The simple parts of a variable.
PartsIn(m, v) ==
    LET t == m.types[v]
    IN  CASE t.kind = "array" -> {[kind |-> "element", var |-> v, at |-> i] :
                                     i \in t.index.lower..t.index.upper}
          [] t.kind = "record" -> {[kind |-> "field", var |-> v, at |-> i] :
                                     i \in DOMAIN t.fields}
          [] OTHER -> {[kind |-> "var", var |-> v, at |-> 0]}

\* clear v: every simple part gets its least value.
Clear(s) ==
    /\ s.do = "clear"
    /\ data' = FoldLeft(LAMBDA d, x : write_raw(d, HandleOf(x), {0}), data,
                        SetToSeq(PartsIn(model, s.lhs.var)))
    /\ statement' = s
    /\ outcome' = "ok"
    /\ UNCHANGED model

\* A rule's call of a function with a simple parameter by value: an argument
\* that is a variable is passed on undefined too, without an error; any other
\* is written as in an assignment.  What the parameter holds is the outcome.
Pass(s) ==
    /\ s.do = "pass"
    /\ LET raw == Number(read_raw(data, HandleOf(s.a)))
           v == raw - 1 + TypeOf(s.a).lower
       IN  IF IndexFails(s.a) THEN Ends(s, BadIndex)
           ELSE IF raw = 0 THEN Ends(s, Nothing)
           ELSE IF v \notin s.type.lower..s.type.upper THEN Ends(s, OutOfRange)
           ELSE Ends(s, Encoded(s.type, v))

\* What the generator settles of a model: the C types and the offsets.
Settled(m) ==
    LET width == [v \in DOMAIN m.types |-> m.types[v].width]
    IN  [types |-> m.types, int128 |-> m.int128, statements |-> m.statements,
         ctype |-> get_value_type("auto", m.literals),
         size |-> Total([i \in DOMAIN m.order |-> width[m.order[i]]]),
         offset |-> [v \in DOMAIN m.types |-> Offset(m.order, width, v)]]

Init ==
    /\ model \in {Settled(m) : m \in Models}
    /\ data = [k \in 0..RoundedUp(model.size) - 1 |-> {}]
    /\ statement = [do |-> "start"]
    /\ outcome = "ok"

Next == \E s \in model.statements :
    Assign(s) \/ Copy(s) \/ Compare(s) \/ TestUndefined(s) \/ Undefine(s) \/ Clear(s) \/ Pass(s)

Spec == Init /\ [][Next]_valuesVars

-----------------------------------------------------------------------------

\* The part a designator names.
PartIn(m, x) == IF OutOfBounds(m, x) THEN Nothing ELSE x

\* What the bits say the parts hold.
Decoded ==
    [p \in UNION {PartsIn(model, v) : v \in DOMAIN model.types} |->
        LET raw == {i \in 0..TypeOf(p).width - 1 : BitOf(data, HandleOf(p), i)}
        IN  IF raw = {} THEN Nothing ELSE Number(raw) - 1 + TypeOf(p).lower]

WidthIn(m) == m.ctype.value.bits
SignedIn(m) == m.ctype.value.signed

Meaning == INSTANCE AbstractStore WITH
    store <- Decoded, Width <- WidthIn, Signed <- SignedIn,
    PartOf <- PartIn, PartsOf <- PartsIn, TypeAt <- TypeIn

\* The packed state and the C arithmetic do to the bits exactly what a
\* statement says to the values: the right part changes, to the right number,
\* no other part does, and the errors are those the language has.
StoresWhatIsMeant == Meaning!StoreSpec

\* The C types that --value-type auto settles on hold every value a variable
\* may have, and every offset that is kept of one, zero included.
AutoTypesFit ==
    \A p \in DOMAIN Decoded :
        /\ TypeOf(p).lower..TypeOf(p).upper \subseteq VALUE_MIN..VALUE_MAX
        /\ TypeOf(p).upper - TypeOf(p).lower + 1 < 2^ctype.raw.bits
        /\ TypeOf(p).width <= ctype.raw.bits

=============================================================================
