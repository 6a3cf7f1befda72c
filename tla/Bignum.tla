------------------------------- MODULE Bignum -------------------------------
(***************************************************************************)
(* Exact integers and the operations on large ones: src/src/bignum.c.  An  *)
(* integer is a fixnum, a value that fits in SG_INT_SIZE bits and a sign,  *)
(* or a bignum, a sign and the words of the magnitude.  A function of the  *)
(* code that fills or shortens a bignum in place is an operator that       *)
(* returns it.                                                             *)
(***************************************************************************)
EXTENDS Words, Bitwise

IntSize == WordBits - 3                         \* SG_INT_SIZE
IntMax == 2 ^ IntSize - 1                       \* SG_INT_MAX
IntMin == -IntMax - 1                           \* SG_INT_MIN
LongMax == 2 ^ (WordBits - 1) - 1
AbsOf(n) == IF n < 0 THEN -n ELSE n
SignOf(n) == CASE n < 0 -> -1 [] n = 0 -> 0 [] OTHER -> 1

(* SG_MAKE_INT shifts the value left over the two tag bits, and does not   *)
(* test that it fits.                                                      *)
SG_MAKE_INT(n) ==
    [tag |-> "fixnum",
     val |-> ((n - IntMin) % 2 ^ (IntSize + 1)) + IntMin]

Big(sign, w) == [tag |-> "bignum", sign |-> sign, w |-> w]
BigZero == Big(0, <<>>)                         \* SG_BIGNUM_SET_ZERO

INTP(x) == x.tag = "fixnum"

Sg_MakeBignumFromSI(n) ==
    IF n = 0 THEN BigZero ELSE Big(SignOf(n), <<AbsOf(n)>>)

(* Without the leading zero words, but with one word at least. *)
Stripped(w) ==
    SubSeq(w, 1, Max({1} \cup {i \in 1..Len(w) : w[i] # 0}))

(* bignum_normalize_rec(bn, FALSE). *)
bignum_normalize(b) ==
    LET big(w) == IF w = <<0>> THEN BigZero ELSE Big(b.sign, w)
    IN  IF b.w = <<>> THEN b ELSE big(Stripped(b.w))

(* bignum_normalize_rec(bn, TRUE): a value in range becomes a fixnum. *)
FixnumOrBig(sign, w) ==
    IF Len(w) = 1 /\ sign * w[1] \in IntMin..IntMax THEN SG_MAKE_INT(sign * w[1])
    ELSE Big(sign, w)
Sg_NormalizeBignum(b) ==
    IF b.w = <<>> \/ b.sign = 0 THEN SG_MAKE_INT(0)
    ELSE FixnumOrBig(b.sign, Stripped(b.w))

Sg_BignumAbsCmp(bx, by) ==
    CASE Len(bx.w) < Len(by.w) -> -1
      [] Len(bx.w) > Len(by.w) -> 1
      [] OTHER -> ulong_array_cmp_to_len(bx.w, by.w)

Sg_BignumCmp(lhs, rhs) ==
    CASE lhs.sign < rhs.sign -> -1
      [] lhs.sign > rhs.sign -> 1
      [] OTHER -> (IF lhs.sign > 0 THEN 1 ELSE -1) * Sg_BignumAbsCmp(lhs, rhs)

-----------------------------------------------------------------------------
(* Addition, subtraction and multiplication. *)

bignum_safe_size_for_add(x, y) == mp_safe_size_for_add(x.w, y.w)

(* br is the result with the sign it has before the call; its words are    *)
(* clear.                                                                  *)
bignum_add_int(br, bx, by) ==
    LET sum(long, short) == mp_add(br.w, Len(br.w), long, short)
        flip == Len(bx.w) < Len(by.w)
    IN  CASE bx.w = <<>> /\ by.w = <<>> -> BigZero
          [] bx.w = <<>> /\ by.w # <<>> -> Big(by.sign, InBuffer(by.w, Len(br.w)))
          [] bx.w # <<>> /\ by.w = <<>> -> Big(bx.sign, InBuffer(bx.w, Len(br.w)))
          [] OTHER -> Big(br.sign, sum(IF flip THEN by.w ELSE bx.w,
                                       IF flip THEN bx.w ELSE by.w))

(* A borrow, or operands that were exchanged, turn the sign. *)
SignedDifference(sign, flip, d) ==
    Big(IF flip \/ d.c # 0 THEN -sign ELSE sign,
        IF d.c # 0 THEN mp_2scmpl(d.w) ELSE d.w)

bignum_sub_int(br, bx, by) ==
    LET flip == Len(bx.w) < Len(by.w)
    IN  CASE bx.w = <<>> /\ by.w = <<>> -> BigZero
          [] bx.w = <<>> /\ by.w # <<>> -> Big(by.sign, InBuffer(by.w, Len(br.w)))
          [] bx.w # <<>> /\ by.w = <<>> -> Big(bx.sign, InBuffer(bx.w, Len(br.w)))
          [] OTHER -> SignedDifference(br.sign, flip,
                                 mp_sub(Len(br.w), IF flip THEN by.w ELSE bx.w,
                                        IF flip THEN bx.w ELSE by.w))

BufferForSum(bx, by) == Big(bx.sign, Zeros(bignum_safe_size_for_add(bx, by)))

AddInto(br, bx, by) == IF bx.sign = by.sign THEN bignum_add_int(br, bx, by)
                       ELSE bignum_sub_int(br, bx, by)
bignum_add(bx, by) == AddInto(BufferForSum(bx, by), bx, by)

SubInto(br, bx, by) ==
    CASE bx.sign = by.sign -> bignum_sub_int(br, bx, by)
      [] bx.sign # by.sign /\ bx.sign = 0 ->
            [bignum_add_int(br, bx, by) EXCEPT !.sign = -by.sign]
      [] OTHER -> bignum_add_int(br, bx, by)
bignum_sub(bx, by) == SubInto(BufferForSum(bx, by), bx, by)

bignum_add_si(bx, y) ==
    LET n == Len(bx.w) + 1
    IN  IF y = 0 THEN bx
        ELSE Big(bx.sign, IF bx.sign = SignOf(y)
                          THEN mp_add_ul(Zeros(n), n, bx.w, AbsOf(y))
                          ELSE mp_sub_ul(n, bx.w, AbsOf(y)))

Sg_BignumAdd(a, b) == Sg_NormalizeBignum(bignum_add(a, b))
Sg_BignumAddSI(a, n) == Sg_NormalizeBignum(bignum_add_si(a, n))
Sg_BignumSub(a, b) == Sg_NormalizeBignum(bignum_sub(a, b))
Sg_BignumSubSI(a, n) == Sg_NormalizeBignum(bignum_add_si(a, -n))

bignum_mul(bx, by) ==
    CASE bx.w = <<>> -> bx
      [] bx.w # <<>> /\ by.w = <<>> -> by
      [] OTHER -> Big(bx.sign * by.sign,
                      mp_mul(Zeros(Len(bx.w) + Len(by.w)), bx.w, by.w))

bignum_mul_si(bx, y) ==
    CASE y = 1 -> bx
      [] y = 0 -> Big(0, <<0>>)
      [] y = -1 -> Big(-bx.sign, bx.w)
      [] OTHER -> Big(bx.sign * SignOf(y), mp_mul_ul(bx.w, AbsOf(y)))

Sg_BignumMul(a, b) == Sg_NormalizeBignum(bignum_mul(a, b))
Sg_BignumMulSI(a, n) == Sg_NormalizeBignum(bignum_mul_si(a, n))
Sg_BignumSquare(bx) == Sg_NormalizeBignum(Big(1, mp_square(bx.w)))

-----------------------------------------------------------------------------
(* Division. *)

(* bignum_gdiv_rem: the quotient in qlen words and the remainder, which    *)
(* takes the dividend's sign.                                              *)
bignum_gdiv(a, b, qlen) ==
    LET signed(d) == [q |-> Big(1, d.q), r |-> Big(a.sign, d.r)]
    IN  signed(mp_div_rem(qlen, a.w, b.w))

(* By one word, from the most significant word down. *)
SdivStep(q, e, divisor) == [q |-> <<e \div divisor>> \o q, r |-> e % divisor]
bignum_sdiv_rec(w, divisor) ==
    LET step(s, word) == SdivStep(s.q, s.r * Base + word, divisor)
        from[i \in 1..Len(w) + 1] ==
            IF i = Len(w) + 1 THEN [q |-> <<>>, r |-> 0]
            ELSE step(from[i + 1], w[i])
    IN  from[1]

bignum_div_rem(a, b) ==
    LET signed(d) == [q |-> bignum_normalize(Big(a.sign * b.sign, d.q)),
                      r |-> bignum_normalize(Big(a.sign, d.r))]
        short(d) == [q |-> d.q, r |-> <<d.r>>]
    IN  CASE Sg_BignumAbsCmp(a, b) < 0 -> [q |-> BigZero, r |-> a]
          [] OTHER -> signed(IF Len(b.w) = 1 THEN short(bignum_sdiv_rec(a.w, b.w[1]))
                             ELSE mp_div_rem(Len(a.w) - Len(b.w) + 1, a.w, b.w))

NormalizedPair(d) == [q |-> Sg_NormalizeBignum(d.q), r |-> Sg_NormalizeBignum(d.r)]
Sg_BignumDivRem(a, b) == NormalizedPair(bignum_div_rem(a, b))

SignedBySI(s, asign, b) ==
    [q |-> Sg_NormalizeBignum(Big(asign * (IF b < 0 THEN -1 ELSE 1), s.q)),
     rem |-> IF asign < 0 THEN -s.r ELSE s.r]
Sg_BignumDivSI(a, b) == SignedBySI(bignum_sdiv_rec(a.w, AbsOf(b)), a.sign, b)

(* modulo takes the divisor's sign: b is added to a remainder of the other. *)
AddRemainder(r, b) == IF INTP(r) THEN Sg_BignumAddSI(b, r.val)
                      ELSE Sg_BignumAdd(b, r)
Sg_BignumModulo(a, b, remp) ==
    LET signed(r) == IF ~remp /\ r # SG_MAKE_INT(0) /\ a.sign * b.sign < 0
                     THEN AddRemainder(r, b) ELSE r
    IN  signed(Sg_NormalizeBignum(bignum_gdiv(a, b, 0).r))

Sg_MakeInteger(n) == IF n \in IntMin..IntMax THEN SG_MAKE_INT(n)
                     ELSE Sg_MakeBignumFromSI(n)

Sg_MakeIntegerU(n) == IF n <= IntMax THEN SG_MAKE_INT(n) ELSE Big(1, <<n>>)

Sg_BignumModuloSI(a, b, remp) ==
    LET signed(r) == Sg_MakeInteger(IF ~remp /\ r # 0 /\ a.sign * b < 0
                                    THEN b + r ELSE r)
    IN  signed(bignum_sdiv_rec(a.w, AbsOf(b)).r * a.sign)

-----------------------------------------------------------------------------
(* Bits. *)

BitOf(n, i) == (n \div 2 ^ i) % 2

Ones(w) == Cardinality({p \in (1..Len(w)) \X (0..WordBits - 1) :
                           BitOf(w[p[1]], p[2]) = 1})

(* ~n is -n - 1 *)
Sg_BignumBitCount(b) ==
    CASE b.sign = 0 -> 0
      [] b.sign > 0 -> Ones(b.w)
      [] OTHER -> -(WordBits * Len(b.w) - Ones(mp_2scmpl(b.w))) - 1

Sg_BignumBitSize(b) == IF b.sign = 0 THEN 0 ELSE mp_bit_size(b.w)

TwosComplement(b) == IF b.sign < 0 THEN mp_2scmpl(b.w) ELSE b.w

(* The bits of a two's complement end with the same zeros. *)
LowestBit(w) == Min({k \in 0..WordBits - 1 : BitOf(w, k) = 1})
FirstBit(z) ==
    LET at(i) == (i - 1) * WordBits + LowestBit(z[i])
    IN  at(Min({k \in 1..Len(z) : z[k] # 0}))
Sg_BignumFirstBitSet(b) ==
    IF b.sign = 0 THEN 0
    ELSE FirstBit(TwosComplement(b))

(* The magnitude is tested, whatever the sign. *)
bignum_test_bit(b, p) ==
    LET pos == p \div WordBits
    IN  pos < Len(b.w) /\ BitOf(b.w[pos + 1], p % WordBits) = 1

(* The words of one operation on two's complements, in n words. *)
ExtendedAt(s, sign, i) == CASE i <= Len(s) -> s[i]
                            [] i > Len(s) /\ sign < 0 -> ULongMax
                            [] OTHER -> 0
LogOp(name, s, t) == CASE name = "and" -> s & t
                       [] name = "ior" -> s | t
                       [] OTHER -> s ^^ t
LogWords(name, x, y, n) ==
    LET words(xx, yy) == [i \in 1..n |-> LogOp(name, ExtendedAt(xx, x.sign, i),
                                               ExtendedAt(yy, y.sign, i))]
    IN  <<>> \o words(TwosComplement(x), TwosComplement(y))

(* A negative result is complemented back to a magnitude. *)
LogResult(w, negative) ==
    Sg_NormalizeBignum(IF negative THEN Big(-1, mp_2scmpl(w)) ELSE Big(1, w))

Sg_BignumLogAnd(x, y) ==
    LET n == CASE x.sign > 0 /\ y.sign > 0 -> Min({Len(x.w), Len(y.w)})
               [] x.sign > 0 /\ y.sign < 0 -> Len(x.w)
               [] x.sign < 0 /\ y.sign > 0 -> Len(y.w)
               [] OTHER -> Max({Len(x.w), Len(y.w)})
    IN  IF x.sign = 0 \/ y.sign = 0 THEN SG_MAKE_INT(0)
        ELSE LogResult(LogWords("and", x, y, n),
                       x.sign < 0 /\ y.sign < 0)

Sg_BignumLogIor(x, y) ==
    LET n == CASE x.sign > 0 /\ y.sign > 0 -> Max({Len(x.w), Len(y.w)})
               [] x.sign > 0 /\ y.sign < 0 -> Len(y.w)
               [] x.sign < 0 /\ y.sign > 0 -> Len(x.w)
               [] OTHER -> Min({Len(x.w), Len(y.w)})
    IN  CASE y.sign = 0 -> Sg_NormalizeBignum(x)
          [] y.sign # 0 /\ x.sign = 0 -> Sg_NormalizeBignum(y)
          [] OTHER -> LogResult(LogWords("ior", x, y, n),
                                x.sign < 0 \/ y.sign < 0)

Sg_BignumLogXor(x, y) ==
    LET n == Max({Len(x.w), Len(y.w)})
    IN  CASE y.sign = 0 -> Sg_NormalizeBignum(x)
          [] y.sign # 0 /\ x.sign = 0 -> Sg_NormalizeBignum(y)
          [] OTHER -> LogResult(LogWords("xor", x, y, n),
                                x.sign # y.sign)

-----------------------------------------------------------------------------
(* Shifts. *)

(* SG_LEFT_SHIFT_SPACE *)
LeftShiftSpace(size, amount) == size + (amount + WordBits - 1) \div WordBits

bignum_lshift(size, bx, amount) ==
    Big(bx.sign, mp_lshift(Zeros(size), size, bx.w, amount))

Sg_BignumShiftLeft(b, shift) ==
    Sg_NormalizeBignum(
        bignum_lshift(LeftShiftSpace(Len(b.w), shift), b, shift))

bignum_rshift(bx, amount) == Big(bx.sign, mp_rshift(bx.w, amount))

(* Sg_BignumAshSI(1, count), where the one bit is set directly. *)
OneShifted(count) ==
    Sg_NormalizeBignum(
        Big(1, [Zeros(LeftShiftSpace(1, count))
                  EXCEPT ![count \div WordBits + 1] = 2 ^ (count % WordBits)]))

-----------------------------------------------------------------------------
(* Square root by Newton's method, from above. *)

RECURSIVE SqrtLoop(_, _)

(* s is the estimate; the next one is half of bn / s + s, and the first    *)
(* that is not smaller ends the loop.                                      *)
NextRoot(q, s) ==
    bignum_normalize(bignum_rshift(Big(1, mp_add(q.w, Len(q.w), q.w, s.w)), 1))
SqrtLoop(bn, s) ==
    LET with(next) == IF Sg_BignumCmp(next, s) >= 0 THEN s ELSE SqrtLoop(bn, next)
    IN  with(NextRoot(bignum_gdiv(bn, s, Len(bn.w) + 1).q, s))

bn_sqrt(bn) ==
    SqrtLoop(bn, bignum_normalize(
                     bignum_rshift(Big(1, bn.w), (Sg_BignumBitSize(bn) - 1) \div 2)))

(* The test for the fixnum range compares an unsigned word with the        *)
(* negative SG_INT_MIN and never holds: the bignum itself is the result.   *)
Sg_BignumToInteger(bn) == bn

(* The exact root of the magnitude, or BigZero where the code goes on with *)
(* floating point numbers.                                                 *)
IsSquareOf(bn, root) ==
    /\ bn.w[1] = (root.w[1] * root.w[1]) % Base
    /\ Sg_BignumAbsCmp(bn, bignum_normalize(Big(1, mp_square(root.w)))) = 0
Sg_BignumSqrt(bn) ==
    LET exact(pad) == IF IsSquareOf(bn, pad) THEN Sg_BignumToInteger(pad) ELSE BigZero
    IN  exact(bn_sqrt(bn))
=============================================================================
