------------------------------- MODULE Number -------------------------------
(***************************************************************************)
(* Exact integer arithmetic as Scheme sees it: the integer cases of the    *)
(* operations of src/src/number.c, which choose between fixnum code and    *)
(* the bignum functions, and the bignum functions that call them back.     *)
(*                                                                         *)
(* The operations are functions, so a behaviour is one call: two operands, *)
(* then the operation and its result.  Each result is compared with the    *)
(* integer it stands for, computed by TLC on its own integers.             *)
(***************************************************************************)
EXTENDS BignumModular

CONSTANTS Operands,         \* pairs of integers
          ShortWords,       \* words up to which TLC computes with the value
          Shifts,           \* shift counts, negative ones included
          Moduli            \* positive integers

VARIABLES x, y,             \* the operands
          op,               \* the operation: a name and a further operand
          r                 \* its result

vars == <<x, y, op, r, fullShift>>

None == [tag |-> "none"]

AsBig(n) == IF INTP(n) THEN Sg_MakeBignumFromSI(n.val) ELSE n

(* C divides towards zero. *)
CQuot(a, b) == SignOf(a) * SignOf(b) * (AbsOf(a) \div AbsOf(b))
CRem(a, b) == a - b * CQuot(a, b)

-----------------------------------------------------------------------------
(* Sums, products and comparison. *)

Sg_Add(a, b) ==
    CASE INTP(a) /\ INTP(b) -> Sg_MakeInteger(a.val + b.val)
      [] INTP(a) /\ ~INTP(b) -> IF a.val = 0 THEN b
                                ELSE Sg_BignumAddSI(b, a.val)
      [] ~INTP(a) /\ INTP(b) -> IF b.val = 0 THEN a
                                ELSE Sg_BignumAddSI(a, b.val)
      [] OTHER -> Sg_BignumAdd(a, b)

Sg_Sub(a, b) ==
    CASE INTP(a) /\ INTP(b) -> Sg_MakeInteger(a.val - b.val)
      [] INTP(a) /\ ~INTP(b) -> Sg_BignumSub(Sg_MakeBignumFromSI(a.val), b)
      [] ~INTP(a) /\ INTP(b) -> IF b.val = 0 THEN a
                                ELSE Sg_BignumSubSI(a, b.val)
      [] OTHER -> Sg_BignumSub(a, b)

Sg_Negate(a) ==
    CASE INTP(a) /\ a.val = IntMin -> Sg_MakeInteger(-a.val)
      [] INTP(a) /\ a.val # IntMin -> SG_MAKE_INT(-a.val)
      [] OTHER -> Sg_NormalizeBignum(Big(-a.sign, a.w))

Sg_Abs(a) ==
    CASE INTP(a) -> Sg_MakeInteger(AbsOf(a.val))
      [] OTHER -> IF a.sign < 0 THEN Big(1, a.w) ELSE a

(* The product of two fixnums is tested for the fixnum range as an         *)
(* unsigned double word; no product is both above SG_INT_MIN and below     *)
(* SG_INT_MAX there, so it is always computed as a bignum.                 *)
Sg_Mul(a, b) ==
    CASE INTP(a) /\ INTP(b) -> Sg_BignumMulSI(AsBig(a), b.val)
      [] INTP(a) /\ ~INTP(b) -> CASE a.val = 0 -> a
                                  [] a.val = 1 -> b
                                  [] OTHER -> Sg_BignumMulSI(b, a.val)
      [] ~INTP(a) /\ INTP(b) -> IF b.val = 0 THEN b
                                ELSE Sg_BignumMulSI(a, b.val)
      [] OTHER -> Sg_BignumMul(a, b)

(* Sg_Square, and Sg_Mul of an object with itself. *)
Sg_Square(a) == IF INTP(a) THEN Sg_Mul(a, a) ELSE Sg_BignumSquare(a)

Sg_Sign(a) == IF INTP(a) THEN SignOf(a.val) ELSE a.sign

Sg_NumCmp(a, b) == IF INTP(a) /\ INTP(b) THEN SignOf(a.val - b.val)
                   ELSE Sg_BignumCmp(AsBig(a), AsBig(b))

-----------------------------------------------------------------------------
(* Division.  No operand is a zero divisor. *)

FixnumRemainder(d) == [q |-> d.q, r |-> SG_MAKE_INT(d.rem)]

Sg_Quotient(a, b) ==
    CASE INTP(a) /\ a.val = 0 -> [q |-> a, r |-> a]
      [] INTP(a) /\ a.val # 0 /\ INTP(b) ->
            [q |-> SG_MAKE_INT(CQuot(a.val, b.val)),
             r |-> SG_MAKE_INT(CRem(a.val, b.val))]
      [] ~INTP(a) /\ INTP(b) -> FixnumRemainder(Sg_BignumDivSI(a, b.val))
      [] OTHER -> Sg_BignumDivRem(AsBig(a), b)

FixModulo(rem, a, b, remp) ==
    SG_MAKE_INT(IF ~remp /\ rem # 0 /\ SignOf(a) * SignOf(b) < 0 THEN rem + b ELSE rem)

Sg_Modulo(a, b, remp) ==
    CASE INTP(a) /\ INTP(b) -> FixModulo(CRem(a.val, b.val), a.val, b.val, remp)
      [] ~INTP(a) /\ INTP(b) -> Sg_BignumModuloSI(a, b.val, remp)
      [] OTHER -> Sg_BignumModulo(AsBig(a), b, remp)

(* A remainder m of a negative dividend is made positive. *)
MadePositive(m, b) == CASE m = SG_MAKE_INT(0) -> m
                        [] m # SG_MAKE_INT(0) /\ Sg_Sign(b) > 0 -> Sg_Add(m, b)
                        [] OTHER -> Sg_Sub(m, b)
Sg_IntegerMod(a, b) ==
    LET signed(m) == CASE Sg_Sign(a) > 0 -> m
                       [] Sg_Sign(a) = 0 -> SG_MAKE_INT(0)
                       [] OTHER -> MadePositive(m, b)
    IN  signed(Sg_Modulo(a, b, TRUE))

-----------------------------------------------------------------------------
(* Shifts and bits. *)

(* Sg_Ash of a fixnum and a count that does not shift right, where         *)
(* Sg_BignumAshSI does not return to Sg_BignumShiftRight.                  *)
FixShiftedLeft(n, count) ==
    CASE count < IntSize /\ AbsOf(n) < IntMax \div 2 ^ count ->
            Sg_MakeInteger(n * 2 ^ count)
      [] OTHER -> CASE count > 0 /\ n = 1 -> OneShifted(count)
                    [] count > 0 /\ n # 1 ->
                       Sg_BignumShiftLeft(
                           Big(IF n < 0 THEN -1 ELSE 1, <<AbsOf(n)>>), count)
                    [] OTHER -> Sg_NormalizeBignum(
                           Big(IF n < 0 THEN -1 ELSE 1, <<AbsOf(n)>>))

Sg_BignumShiftRight(b, shift) ==
    LET rsize == Len(b.w) - shift \div WordBits
    IN  CASE rsize < 1 -> SG_MAKE_INT(IF b.sign < 0 THEN -1 ELSE 0)
          [] rsize >= 1 /\ b.sign < 0 ->
                Sg_Add(Sg_Quotient(Sg_Add(b, SG_MAKE_INT(1)),
                                   FixShiftedLeft(1, shift)).q,
                       SG_MAKE_INT(-1))
          [] OTHER -> Sg_NormalizeBignum(bignum_rshift(b, shift))

Sg_BignumAsh(b, count) ==
    CASE count = 0 -> Sg_NormalizeBignum(b)
      [] count > 0 -> Sg_BignumShiftLeft(b, count)
      [] OTHER -> Sg_BignumShiftRight(b, -count)

(* ~(~n >> k) is the floor of n / 2^k. *)
Sg_Ash(a, count) ==
    CASE ~INTP(a) -> Sg_BignumAsh(a, count)
      [] INTP(a) /\ count <= -WordBits ->
            Sg_MakeInteger(IF a.val < 0 THEN -1 ELSE 0)
      [] INTP(a) /\ count > -WordBits /\ count < 0 ->
            Sg_MakeInteger(a.val \div 2 ^ (-count))
      [] OTHER -> FixShiftedLeft(a.val, count)

(* The bits of a fixnum as those of a word, and back. *)
WordOf(n) == n % Base
FixOf(w) == SG_MAKE_INT(IF w > LongMax THEN w - Base ELSE w)

Sg_LogNot(a) == IF INTP(a) THEN SG_MAKE_INT(-a.val - 1)
                ELSE Sg_Negate(Sg_BignumAddSI(a, 1))

Sg_LogAnd(a, b) ==
    LET low(f, g) == Sg_MakeInteger(f.val & g.w[1])
    IN  CASE INTP(a) /\ INTP(b) -> FixOf(WordOf(a.val) & WordOf(b.val))
          [] INTP(a) /\ ~INTP(b) -> IF a.val >= 0 /\ b.sign > 0
                                    THEN low(a, b)
                                    ELSE Sg_BignumLogAnd(b, AsBig(a))
          [] ~INTP(a) /\ INTP(b) -> IF b.val >= 0 /\ a.sign > 0
                                    THEN low(b, a)
                                    ELSE Sg_BignumLogAnd(a, AsBig(b))
          [] OTHER -> Sg_BignumLogAnd(a, b)

Sg_LogIor(a, b) ==
    CASE INTP(a) /\ INTP(b) -> FixOf(WordOf(a.val) | WordOf(b.val))
      [] INTP(a) /\ ~INTP(b) -> Sg_BignumLogIor(b, AsBig(a))
      [] OTHER -> Sg_BignumLogIor(a, AsBig(b))

Sg_LogXor(a, b) ==
    CASE INTP(a) /\ INTP(b) -> FixOf(WordOf(a.val) ^^ WordOf(b.val))
      [] INTP(a) /\ ~INTP(b) -> Sg_BignumLogXor(b, AsBig(a))
      [] OTHER -> Sg_BignumLogXor(a, AsBig(b))

Sg_BitCount(a) ==
    CASE INTP(a) /\ a.val >= 0 -> Ones(<<a.val>>)
      [] INTP(a) /\ a.val < 0 -> -Ones(<<-a.val - 1>>) - 1
      [] OTHER -> Sg_BignumBitCount(a)

FixBitSize(n) == IF n = 0 THEN 0
                 ELSE WordBits - nlz(IF n < 0 THEN -n - 1 ELSE n)
Sg_BitSize(a) ==
    LET size(n) == IF INTP(n) THEN FixBitSize(n.val) ELSE Sg_BignumBitSize(n)
    IN  size(IF ~INTP(a) /\ a.sign < 0 THEN Sg_LogNot(a) ELSE a)

Sg_FirstBitSet(a) ==
    CASE INTP(a) /\ a.val = 0 -> -1
      [] INTP(a) /\ a.val # 0 ->
            Min({k \in 0..WordBits - 1 : BitOf(WordOf(a.val), k) = 1})
      [] OTHER -> Sg_BignumFirstBitSet(a)

-----------------------------------------------------------------------------
(* Greatest common divisor. *)

RECURSIVE gcd_fixfix(_, _)
gcd_fixfix(a, b) == IF b = 0 THEN a ELSE gcd_fixfix(b, a % b)

RECURSIVE GcdLoop(_, _, _, _)

OddPartOf(b) == bignum_normalize(bignum_rshift(b, Sg_BignumFirstBitSet(b)))
Lessened(a, b) == bignum_normalize(bignum_sub_int(a, a, b))
ShiftedGcd(g, k) == IF k > 0 THEN Sg_Ash(g, k) ELSE g

(* Step B6 and the end of the method, for odd u and v that compare so. *)
GcdCompared(u, v, cmp, k) ==
    CASE Len(u.w) < 2 /\ Len(v.w) < 2 ->
            ShiftedGcd(Sg_MakeIntegerU(gcd_fixfix(Max({u.w[1], v.w[1]}),
                                                  Min({u.w[1], v.w[1]}))), k)
      [] ~(Len(u.w) < 2 /\ Len(v.w) < 2) /\ cmp = 0 ->
            IF k > 0 THEN Sg_BignumShiftLeft(u, k) ELSE Sg_NormalizeBignum(u)
      [] OTHER -> IF cmp > 0 THEN GcdLoop(Lessened(u, v), v, TRUE, k)
                  ELSE GcdLoop(u, Lessened(v, u), FALSE, k)
GcdOdd(u, v, k) == GcdCompared(u, v, Sg_BignumCmp(u, v), k)

(* Steps B3 to B6 of the binary method.  t, the one of u and v that may be *)
(* even, is u when tIsU; the result is to be shifted left by k.            *)
GcdLoop(u, v, tIsU, k) ==
    GcdOdd(IF tIsU THEN OddPartOf(u) ELSE u, IF tIsU THEN v ELSE OddPartOf(v), k)

GcdCut(b, k) == IF k = 0 THEN Big(1, b.w)
                ELSE bignum_normalize(bignum_rshift(Big(1, b.w), k))
GcdFrom(bx, by, s1, k) == GcdLoop(GcdCut(bx, k), GcdCut(by, k), k # s1, k)
binary_gcd(bx, by) ==
    LET with(s1, s2) == GcdFrom(bx, by, s1, Min({s1, s2}))
    IN  with(Sg_BignumFirstBitSet(bx), Sg_BignumFirstBitSet(by))

RECURSIVE Sg_BignumGcd(_, _)

(* Sg_Gcd.  gcd_bigfix divides the bignum once. *)
Sg_Gcd(a, b) ==
    LET small(n) == INTP(n) \/ (Len(n.w) = 1 /\
                                n.w[1] <= (IF n.sign < 0 THEN LongMax + 1
                                                         ELSE LongMax))
        abs(n) == AbsOf(IF INTP(n) THEN n.val ELSE n.sign * n.w[1])
        bigfix(n, m) ==
            Sg_MakeIntegerU(gcd_fixfix(m, AbsOf(Sg_BignumDivSI(n, m).rem)))
    IN  CASE a = SG_MAKE_INT(0) -> b
          [] a # SG_MAKE_INT(0) /\ b = SG_MAKE_INT(0) -> a
          [] OTHER ->
             CASE small(a) /\ small(b) ->
                    Sg_MakeIntegerU(gcd_fixfix(Max({abs(a), abs(b)}),
                                               Min({abs(a), abs(b)})))
               [] ~small(a) /\ small(b) /\ abs(b) <= LongMax ->
                    bigfix(a, abs(b))
               [] small(a) /\ ~small(b) /\ abs(a) <= LongMax ->
                    bigfix(b, abs(a))
               [] OTHER -> Sg_BignumGcd(a, b)

(* Operands of nearly the same length go to the binary method. *)
Sg_BignumGcd(bx, by) ==
    LET with(rem) == IF INTP(rem) THEN Sg_Gcd(by, rem) ELSE Sg_BignumGcd(by, rem)
    IN  IF AbsOf(Len(bx.w) - Len(by.w)) < 2 THEN binary_gcd(bx, by)
        ELSE with(Sg_NormalizeBignum(bignum_gdiv(bx, by, 0).r))

(* gcd of two arguments, boot/lib/arith.scm. *)
gcd(a, b) == Sg_Gcd(Sg_Abs(a), Sg_Abs(b))

-----------------------------------------------------------------------------
(* Modular inverse and power. *)

RECURSIVE ModInverseLoop(_, _, _, _, _)
ModInverseLoop(u1, u3, v1, v3, sign) ==
    IF v3 = SG_MAKE_INT(0) THEN [u1 |-> u1, sign |-> sign]
    ELSE ModInverseLoop(v1, v3, Sg_Add(u1, Sg_Mul(Sg_Quotient(u3, v3).q, v1)),
                        Sg_IntegerMod(u3, v3), -sign)

InverseFrom(e, m) == IF e.sign < 0 THEN Sg_Sub(m, e.u1) ELSE e.u1
Sg_ModInverse(a, m) ==
    IF ~INTP(a) /\ ~INTP(m) THEN Sg_BignumModInverse(a, m)
    ELSE InverseFrom(ModInverseLoop(SG_MAKE_INT(1), a, SG_MAKE_INT(0), m, 1), m)

RECURSIVE PowerLoop(_, _, _, _)
PowerLoop(p, a, n, m) ==
    LET with(p1) == IF n = 1 THEN p1
                    ELSE PowerLoop(p1, Sg_IntegerMod(Sg_Square(a), m), n \div 2, m)
    IN  IF n = 0 THEN p
        ELSE with(IF n % 2 = 1 THEN Sg_IntegerMod(Sg_Mul(p, a), m) ELSE p)

(* Fixnum exponents go through the loop unless the modulus is a bignum. *)
Sg_ModExpt(a, e, m) ==
    LET signed(p) == IF e.val < 0 THEN Sg_ModInverse(p, m) ELSE p
    IN  IF INTP(e) /\ INTP(m)
        THEN signed(PowerLoop(SG_MAKE_INT(1), a, AbsOf(e.val), m))
        ELSE Sg_BignumModExpt(AsBig(a), AsBig(e), AsBig(m))

-----------------------------------------------------------------------------
(* The calls. *)

NumberInit ==
    /\ \E p \in Operands : x = p[1] /\ y = p[2]
    /\ op = [name |-> "none", arg |-> 0]
    /\ r = None
    /\ fullShift \in FullShifts

Short(n) == Len(AsBig(n).w) <= ShortWords

Call(name, arg, result) ==
    /\ op.name = "none"
    /\ op' = [name |-> name, arg |-> arg]
    /\ r' = result
    /\ UNCHANGED <<x, y, fullShift>>

BothShort == Short(x) /\ Short(y)

Add == BothShort /\ Call("+", 0, Sg_Add(x, y))
Sub == BothShort /\ Call("-", 0, Sg_Sub(x, y))
Compare == BothShort /\ Call("compare", 0, [cmp |-> Sg_NumCmp(x, y)])
Mul == Call("*", 0, Sg_Mul(x, y))
Square == x = y /\ Call("square", 0, Sg_Square(x))
Quotient == /\ BothShort /\ Sg_Sign(y) # 0
            /\ Call("quotient", 0, Sg_Quotient(x, y))
Modulo == /\ BothShort /\ Sg_Sign(y) # 0
          /\ Call("modulo", 0, Sg_Modulo(x, y, FALSE))
IntegerMod == /\ BothShort /\ Sg_Sign(y) # 0
              /\ Call("mod", 0, Sg_IntegerMod(x, y))
LogAnd == BothShort /\ Call("and", 0, Sg_LogAnd(x, y))
LogIor == BothShort /\ Call("ior", 0, Sg_LogIor(x, y))
LogXor == BothShort /\ Call("xor", 0, Sg_LogXor(x, y))
Gcd == BothShort /\ Call("gcd", 0, gcd(x, y))

(* One operand: y is not looked at. *)
Unary == x = y /\ Short(x)
Negate == Unary /\ Call("negate", 0, Sg_Negate(x))
Abs == Unary /\ Call("abs", 0, Sg_Abs(x))
LogNot == Unary /\ Call("not", 0, Sg_LogNot(x))
Ash == Unary /\ \E c \in Shifts : Call("ash", c, Sg_Ash(x, c))
Bits == Unary /\ Call("bits", 0, [count |-> Sg_BitCount(x),
                                 size |-> Sg_BitSize(x),
                                 first |-> Sg_FirstBitSet(x)])
Sqrt == Unary /\ ~INTP(x) /\ Call("sqrt", 0, Sg_BignumSqrt(x))
ModInverse == /\ Unary /\ Sg_Sign(x) > 0
              /\ \E m \in Moduli : Call("mod-inverse", m, Sg_ModInverse(x, m))
ModExpt == /\ BothShort /\ Sg_Sign(x) > 0 /\ Sg_Sign(y) >= 0
           /\ \E m \in Moduli : Call("mod-expt", m, Sg_ModExpt(x, y, m))

NumberNext ==
    \/ Add \/ Sub \/ Compare \/ Mul \/ Square
    \/ Quotient \/ Modulo \/ IntegerMod
    \/ LogAnd \/ LogIor \/ LogXor \/ LogNot \/ Ash \/ Bits
    \/ Negate \/ Abs \/ Gcd \/ Sqrt \/ ModInverse \/ ModExpt

-----------------------------------------------------------------------------
(* Properties. *)

RECURSIVE Magnitude(_)
Magnitude(w) == IF w = <<>> THEN 0 ELSE w[1] + Base * Magnitude(Tail(w))

(* The integer an object stands for. *)
Value(n) == IF INTP(n) THEN n.val ELSE n.sign * Magnitude(n.w)

(* An object has the one representation of its value: a fixnum if it is in *)
(* range, otherwise a sign and words without a leading zero.               *)
Canonical(n) ==
    \/ INTP(n) /\ n.val \in IntMin..IntMax
    \/ /\ n.tag = "bignum" /\ n.sign \in {-1, 1}
       /\ \A i \in 1..Len(n.w) : n.w[i] \in 0..ULongMax
       /\ Len(n.w) > 0 /\ n.w[Len(n.w)] # 0
       /\ Len(n.w) = 1 => n.sign * n.w[1] \notin IntMin..IntMax

IntegerOps == {"+", "-", "*", "square", "modulo", "mod", "and", "ior", "xor",
               "gcd", "negate", "abs", "not", "ash", "mod-inverse", "mod-expt"}

(* Every operation that returns an integer returns its one representation: *)
(* number.c tests integers for equality with zero, one and each other by   *)
(* representation (SG_EQ, SG_INTP, Sg_BignumCmp), so a result with a       *)
(* leading zero word, or a bignum in the fixnum range, would compare       *)
(* unequal to itself later.  sqrt is not among them: its exact result is a *)
(* bignum whatever its size.                                               *)
ResultsCanonical ==
    /\ op.name \in IntegerOps => Canonical(r)
    /\ op.name = "quotient" => Canonical(r.q) /\ Canonical(r.r)

(* Addition, subtraction and comparison agree with the integers, for every *)
(* mix of fixnums, bignums, signs and lengths; the buffer that             *)
(* mp_safe_size_for_add grants holds every carry.                          *)
SumsExact ==
    /\ op.name = "+" => Value(r) = Value(x) + Value(y)
    /\ op.name = "-" => Value(r) = Value(x) - Value(y)
    /\ op.name = "compare" => r.cmp = SignOf(Value(x) - Value(y))
    /\ op.name = "negate" => Value(r) = -Value(x)
    /\ op.name = "abs" => Value(r) = AbsOf(Value(x))

(* Multiplication and squaring agree with the integers, and, for operands  *)
(* long enough for Karatsuba's method, also recursively, with the grade    *)
(* school product of the words.  (A product that changed the word after    *)
(* its buffer is none: see karatsuba.)                                     *)
ProductsExact ==
    op.name \in {"*", "square"} =>
        IF INTP(x) \/ INTP(y) \/ Len(x.w) + Len(y.w) < 2 * ShortWords
        THEN Value(r) = Value(x) * Value(y)
        ELSE r = Sg_NormalizeBignum(
                    Big(x.sign * y.sign, long_mul(x.w, y.w)))

(* quotient, modulo and mod agree with the integers, through the division  *)
(* by a word and by Knuth's algorithm.  The one quotient that does not is  *)
(* that of the least fixnum by -1: the result is one more than the largest *)
(* fixnum, and SG_MAKE_INT wraps it.                                       *)
DivisionExact ==
    LET a == Value(x)
        b == Value(y)
        wraps == a = IntMin /\ b = -1
    IN  /\ op.name = "quotient" /\ ~wraps =>
              Value(r.q) = CQuot(a, b) /\ Value(r.r) = CRem(a, b)
        /\ op.name = "modulo" =>
              Value(r) = SignOf(b) * ((SignOf(b) * a) % AbsOf(b))
        /\ op.name = "mod" => Value(r) = a % AbsOf(b)

(* Two's complement arithmetic in n bits, as a reference. *)
SignedOf(n, bits) == IF n >= 2 ^ (bits - 1) THEN n - 2 ^ bits ELSE n

(* The bitwise operations and shifts agree with two's complement of        *)
(* unbounded length, although the code complements magnitudes in as many   *)
(* words as an operand has.  Where the exact result is -(2^w) for the w    *)
(* bits of the longer operand, one bit more would be needed: and and xor   *)
(* of such operands are 0 in the code.                                     *)
BitwiseExact ==
    LET bits == WordBits * ShortWords + 2
        a == Value(x) % 2 ^ bits
        b == Value(y) % 2 ^ bits
        longer == Max({Len(AsBig(x).w), Len(AsBig(y).w)})
        exact == SignedOf(CASE op.name = "and" -> a & b
                            [] op.name = "ior" -> a | b
                            [] OTHER -> a ^^ b, bits)
    IN  /\ op.name \in {"and", "ior", "xor"}
           /\ exact # -(2 ^ (WordBits * longer)) => Value(r) = exact
        /\ op.name = "not" => Value(r) = -Value(x) - 1
        /\ op.name = "ash" =>
              Value(r) = IF op.arg >= 0 THEN Value(x) * 2 ^ op.arg
                         ELSE Value(x) \div 2 ^ (-op.arg)

(* bitwise-bit-count, bitwise-length and bitwise-first-bit-set agree with  *)
(* their definitions on two's complement, for either sign.                 *)
BitCountsExact ==
    LET a == Value(x)
        b == IF a < 0 THEN -a - 1 ELSE a
        bits == 0..WordBits * ShortWords
        ones == Cardinality({i \in bits : BitOf(b, i) = 1})
    IN  op.name = "bits" =>
          /\ r.count = IF a < 0 THEN -ones - 1 ELSE ones
          /\ r.size = Min({i \in bits : b < 2 ^ i})
          /\ r.first = IF a = 0 THEN -1
                       ELSE Min({i \in bits : BitOf(AbsOf(a), i) = 1})

RECURSIVE Euclid(_, _)
Euclid(a, b) == IF b = 0 THEN a ELSE Euclid(b, a % b)

(* gcd agrees with Euclid's algorithm through all of its branches (words,  *)
(* a word and a bignum, division, the binary method), and the exact square *)
(* root of a bignum is found exactly when there is one.                    *)
GcdAndRootExact ==
    /\ op.name = "gcd" => Value(r) = Euclid(AbsOf(Value(x)), AbsOf(Value(y)))
    /\ op.name = "sqrt" =>
          LET a == AbsOf(Value(x))
          IN  IF \E k \in 1..HalfWord ^ ShortWords : k * k = a
              THEN Value(r) * Value(r) = a ELSE r = BigZero

(* Every operation on integers returns the one representation of the exact *)
(* result, for fixnums, bignums and mixed operands of either sign, at the  *)
(* edges of words and with buffers that are just long enough.              *)
ResultsExact ==
    /\ ResultsCanonical
    /\ SumsExact /\ ProductsExact /\ DivisionExact /\ GcdAndRootExact
    /\ BitwiseExact /\ BitCountsExact

RECURSIVE PowerMod(_, _, _)
PowerMod(a, e, m) ==
    LET h == PowerMod(a, e \div 2, m)
        hh == (h * h) % m
    IN  CASE e = 0 -> 1
          [] e > 0 /\ e % 2 = 0 -> hh
          [] OTHER -> (hh * (a % m)) % m

(* The modulus m ends in whole words of zeros, and the build does not      *)
(* shift the bit out: bignum_mod2 then clears a word it should keep.       *)
ClearsWord(m) ==
    LET p == Min({i \in 0..WordBits * ShortWords : (m \div 2 ^ i) % 2 = 1})
    IN  p > 0 /\ p % WordBits = 0 /\ fullShift = 1

RECURSIVE OddFactor(_)
OddFactor(m) == IF m % 2 = 1 THEN m ELSE OddFactor(m \div 2)

(* Modulo m > 1, mod-inverse returns the inverse if there is one, mod-expt *)
(* the power, through odd, even and power of two moduli, for every window  *)
(* of the exponent.  Where bignum_mod2 clears a word, the result is still  *)
(* the power modulo the odd factor of m.  The base is positive and the     *)
(* modulus has fewer words than two Karatsuba limits: see the README for   *)
(* what the code does outside.                                             *)
ModularExact ==
    LET m == Value(op.arg)
        power == PowerMod(Value(x), Value(y), m)
    IN  /\ op.name = "mod-inverse" /\ Euclid(Value(x), m) = 1 =>
              ((Value(x) % m) * Value(r)) % m = 1
        /\ op.name = "mod-expt" =>
              IF ClearsWord(m) THEN (Value(r) - power) % OddFactor(m) = 0
              ELSE Value(r) = power
=============================================================================
