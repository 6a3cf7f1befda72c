---------------------------- MODULE BignumModular ----------------------------
(***************************************************************************)
(* Modular inverse and exponentiation of large integers: bignum_mod_expt   *)
(* of src/src/bignum.c and what it calls.  An odd modulus is handled with  *)
(* Montgomery products and windows of the exponent; an even one is split   *)
(* into its odd part and a power of two, and the two powers are combined.  *)
(***************************************************************************)
EXTENDS Bignum

CONSTANT ExpModTable    \* exp_mod_threadh_table: exponent bits by window

VARIABLE fullShift      \* what 1UL << WORD_BITS gives in the build

(* C leaves that shift undefined.  It is 1 where the count is taken modulo  *)
(* the size of a word, as x86-64 does, and 0 where the bit is shifted out.  *)
FullShifts == {0, 1}

ASSUME ExpModAssumption == ExpModTable \in Seq(Nat) /\ ExpModTable # <<>>

ONEP(b) == b.w = <<1>>                          \* BIGNUM_ONEP
ZEROP(b) == b.sign = 0                          \* BIGNUM_ZEROP

NormalMul(a, b) == bignum_normalize(bignum_mul(a, b))
NormalAdd(a, b) == bignum_normalize(bignum_add(a, b))

(* The correction is made when the remainder is zero, not when it is not. *)
AdjustedRemainder(r, b, signs) == IF ZEROP(r) /\ signs < 0 THEN NormalAdd(b, r) ELSE r
NormalDivision(d, b, signs) ==
    [q |-> bignum_normalize(d.q),
     r |-> AdjustedRemainder(bignum_normalize(d.r), b, signs)]
bignum_mod(a, b, qlen) == NormalDivision(bignum_gdiv(a, b, qlen), b, a.sign * b.sign)

RECURSIVE InverseLoop(_, _)

(* Extended Euclid; only the coefficient of x is kept, and its sign apart. *)
InverseNext(s, d) ==
    [u1 |-> s.v1, u3 |-> s.v3, v1 |-> NormalAdd(s.u1, NormalMul(d.q, s.v1)),
     v3 |-> d.r, sign |-> -s.sign]
InverseLoop(s, size) ==
    IF ZEROP(s.v3) THEN s
    ELSE InverseLoop(InverseNext(s, bignum_mod(s.u3, s.v3, size)), size)

Coefficient(e, m) ==
    bignum_normalize(IF e.sign < 0 THEN bignum_sub(m, e.u1) ELSE e.u1)
bignum_mod_inverse(x, m) ==
    Coefficient(InverseLoop([u1 |-> Sg_MakeBignumFromSI(1), u3 |-> x,
                             v1 |-> BigZero, v3 |-> m, sign |-> 1],
                            Max({Len(x.w), Len(m.w)}) + 1), m)

(* Newton's iteration for the inverse of an odd word modulo Base. *)
inverse_mod_long(val) ==
    LET better(p) == (p * (2 - val * p)) % Base
        t[i \in 0..8] == IF i = 0 THEN val ELSE better(t[i - 1])
    IN  t[8]

-----------------------------------------------------------------------------
(* Odd modulus. *)

WindowFor(e, ebits) ==
    IF ebits = 17 /\ (Len(e.w) = 1 \/ e.w[1] = 65537) THEN 0
    ELSE Min({i \in 0..Len(ExpModTable) :
                i < Len(ExpModTable) => ebits <= ExpModTable[i + 1]})

(* a * b in Montgomery form; buf is what the buffer for it holds. *)
MontMul(buf, a, b, mod, inv) == mp_mont_reduce(mp_mul(buf, a, b), mod, inv)
MontSquare(a, mod, inv) == mp_mont_reduce(mp_square(a), mod, inv)

UpperHalf(buf) == SubSeq(buf, Len(buf) \div 2 + 1, Len(buf))

(* Mutant: the power is multiplied in where its window ends, as if the     *)
(* trailing zeros still belonged to it.                                    *)
WindowAtEnd(buf, ebits, wbits) ==
    LET zeros == Min({k \in 0..wbits : BitOf(buf, k) = 1})
    IN  [mult |-> (buf \div 2 ^ zeros) \div 2, multpos |-> ebits - wbits]

(* A window without its trailing zeros picks an odd power from the table,  *)
(* to be multiplied in once the bits of those zeros are reached.           *)
Window(buf, ebits, wbits) ==
    LET zeros == Min({k \in 0..wbits : BitOf(buf, k) = 1})
    IN  [mult |-> (buf \div 2 ^ zeros) \div 2,
         multpos |-> ebits - wbits + zeros]

RECURSIVE ExptLoop(_, _, _, _, _, _)

(* The main loop.  s.ebits is the bit of the exponent the loop is at,      *)
(* s.next the next one to read (those below the last are zeros), s.b holds *)
(* the power so far in its upper half, and s.a is the other buffer.        *)
ReadWindow(s, shifted, wbits) ==
    LET found(w) == [s EXCEPT !.buf = 0, !.mult = w.mult, !.multpos = w.multpos]
    IN  IF BitOf(shifted, wbits) = 1 THEN found(Window(shifted, s.ebits, wbits))
        ELSE [s EXCEPT !.buf = shifted]
ReadBit(s, e, wbits) ==
    ReadWindow(s, 2 * s.buf + (IF s.next >= 0 /\ bignum_test_bit(e, s.next) THEN 1 ELSE 0),
         wbits)

MultiplyIn(s, mult, mod, inv) ==
    IF s.isone
    THEN [s EXCEPT !.isone = FALSE, !.b = SubSeq(@, 1, Len(mod)) \o mult]
    ELSE [s EXCEPT !.a = s.b, !.b = MontMul(s.a, UpperHalf(@), mult, mod, inv)]
Multiplied(s, table, mod, inv) ==
    IF s.ebits = s.multpos THEN MultiplyIn(s, table[s.mult + 1], mod, inv) ELSE s

Squared(s, mod, inv) ==
    LET next == [s EXCEPT !.ebits = @ - 1, !.next = @ - 1]
    IN  IF s.isone THEN next
        ELSE [next EXCEPT !.a = s.b, !.b = MontSquare(UpperHalf(@), mod, inv)]

ExptRest(s, e, table, wbits, mod, inv) ==
    IF s.ebits = 0 THEN s.b
    ELSE ExptLoop(Squared(s, mod, inv), e, table, wbits, mod, inv)
ExptLoop(s, e, table, wbits, mod, inv) ==
    ExptRest(Multiplied(ReadBit(s, e, wbits), table, mod, inv), e, table, wbits, mod, inv)

RECURSIVE PowersLoop(_, _, _, _, _)

(* The odd powers of the base, in Montgomery form; square is that of the   *)
(* base and s.a the buffer each product is computed in.                    *)
PowersLoop(s, size, square, mod, inv) ==
    LET with(a) == [table |-> Append(s.table, UpperHalf(a)), a |-> a]
    IN  IF Len(s.table) = size THEN s
        ELSE PowersLoop(with(MontMul(s.a, square, s.table[Len(s.table)], mod, inv)),
                        size, square, mod, inv)

(* The first window: the wbits + 1 bits of e from the top. *)
TopBits(e, ebits, wbits) ==
    LET top[i \in 0..wbits + 1] ==
            IF i = 0 THEN 0
            ELSE 2 * top[i - 1] + (IF bignum_test_bit(e, ebits - i) THEN 1 ELSE 0)
    IN  top[wbits + 1]

(* The loop from the first window w on; b holds the square of the base and *)
(* p the table of its powers.                                              *)
ExptFrom(w, b, p, e, ebits, wbits, mod, inv) ==
    ExptLoop([ebits |-> ebits - 2, next |-> ebits - wbits - 2, buf |-> 0,
              mult |-> w.mult, multpos |-> w.multpos,
              isone |-> w.multpos # ebits - 1, a |-> p.a, b |-> b],
             e, p.table, wbits, mod, inv)
ExptOf(first, b, e, ebits, wbits, mod, inv) ==
    ExptFrom(Window(TopBits(e, ebits, wbits), ebits - 1, wbits), b,
             PowersLoop([table |-> <<first>>, a |-> Zeros(2 * Len(mod))],
                        2 ^ wbits, UpperHalf(b), mod, inv),
             e, ebits, wbits, mod, inv)

(* The base in Montgomery form. *)
MontForm(x, mod) ==
    InBuffer(bignum_normalize(bignum_gdiv(Big(1, Zeros(Len(mod)) \o x.w),
                                          Big(1, mod), 0).r).w, Len(mod))

ExptOfForm(first, e, ebits, mod, inv) ==
    ExptOf(first, MontSquare(first, mod, inv), e, ebits, WindowFor(e, ebits), mod, inv)
odd_mod_expt_rec(x, e, mod, inv) ==
    ExptOfForm(MontForm(x, mod), e, Sg_BignumBitSize(e), mod, inv)

Reduced(t, mod, inv) ==
    UpperHalf(mp_mont_reduce(UpperHalf(t) \o Zeros(Len(mod)), mod, inv))
OddPower(x, e, mod, inv) ==
    bignum_normalize(Big(1, Reduced(odd_mod_expt_rec(x, e, mod, inv), mod, inv)))
odd_mod_expt(x, e, mod) ==
    IF ONEP(e) \/ ZEROP(x) THEN x
    ELSE OddPower(x, e, mod.w, (-inverse_mod_long(mod.w[1])) % Base)

-----------------------------------------------------------------------------
(* Even modulus. *)

(* 1UL << n *)
ShiftedOne(n) == IF n < WordBits THEN 2 ^ n ELSE fullShift

(* The n words of p bits; excess is 0 if p is a multiple of the word size. *)
LowBits(w, n, p) ==
    LET excess == n * WordBits - p
        mask == (ShiftedOne(WordBits - excess) - 1) % Base
    IN  bignum_normalize(Big(1, [SubSeq(w, 1, n) EXCEPT ![n] = @ & mask]))
bignum_mod2(x, p) ==
    IF Sg_BignumBitSize(x) <= p THEN x
    ELSE LowBits(x.w, (p + WordBits - 1) \div WordBits, p)

RECURSIVE Expt2Loop(_, _, _, _)

(* The bits of e from the i-th on, up to the limit-th. *)
TimesMod2(a, b, p) == bignum_mod2(NormalMul(a, b), p)
Expt2Loop(s, e, p, limit) ==
    IF s.i = limit THEN s.r
    ELSE Expt2Loop([i |-> s.i + 1,
                    r |-> IF bignum_test_bit(e, s.i) THEN TimesMod2(s.r, s.base, p)
                          ELSE s.r,
                    base |-> IF s.i + 1 < limit THEN TimesMod2(s.base, s.base, p)
                             ELSE s.base], e, p, limit)

(* x ^ e modulo 2 ^ p; an odd x has an order that divides 2 ^ (p - 1). *)
bignum_mod_expt2(x, e, p) ==
    LET bits == Sg_BignumBitSize(e)
        limit == IF WordAt(x.w, 1) % 2 = 1 THEN Min({p - 1, bits}) ELSE bits
    IN  Expt2Loop([i |-> 0, r |-> Sg_MakeBignumFromSI(1),
                   base |-> bignum_mod2(x, p)], e, p, limit)

(* The number that is a1 modulo m1 and a2 modulo m2, if bm is m1 * m2. *)
Term(a, m, n) == NormalMul(NormalMul(a, m), bignum_mod_inverse(m, n))
Combination(a1, a2, m1, m2, bm) ==
    bignum_mod(NormalAdd(Term(a1, m2, m1), Term(a2, m1, m2)), bm, 0).r

OddBase(bx, m1) == IF bx.sign # 0 \/ Sg_BignumCmp(bx, m1) >= 0
                   THEN bignum_mod(bx, m1, 0).r ELSE bx
EvenPower(bx, base, be, bm, p, m1, m2) ==
    Combination(IF ONEP(m1) THEN BigZero ELSE odd_mod_expt(OddBase(bx, m1), be, m1),
                bignum_mod_expt2(base, be, p), m1, m2, bm)

(* bm is m1 * 2 ^ p. *)
OddPart(bm, p) == IF Len(bm.w) - p \div WordBits < 1 THEN BigZero
                  ELSE bignum_normalize(bignum_rshift(bm, p))
PowerOfTwo(p) ==
    bignum_normalize(bignum_lshift(1 + (p + WordBits - 1) \div WordBits,
                                   Big(1, <<1>>), p))
EvenSplit(bx, base, be, bm, p) ==
    EvenPower(bx, base, be, bm, p, OddPart(bm, p), PowerOfTwo(p))
even_mod_expt(bx, base, be, bm) ==
    EvenSplit(bx, base, be, bm, Sg_BignumFirstBitSet(bm))

ReducedBase(bx, bm) == IF bx.sign < 0 \/ Sg_BignumCmp(bx, bm) >= 0
                       THEN bignum_mod(bx, bm, 0).r ELSE bx
PositivePower(bx, base, e, bm) ==
    IF bm.w[1] % 2 = 1 THEN odd_mod_expt(base, e, bm) ELSE even_mod_expt(bx, base, e, bm)
SignedPower(p, be, bm) == IF be.sign < 0 THEN bignum_mod_inverse(p, bm) ELSE p
bignum_mod_expt(bx, be, bm) ==
    SignedPower(PositivePower(bx, ReducedBase(bx, bm), Big(1, be.w), bm), be, bm)

Sg_BignumModExpt(bx, be, bm) ==
    IF ZEROP(be) \/ ONEP(bx) \/ ZEROP(bx)
    THEN SG_MAKE_INT(IF ONEP(bm) THEN 0 ELSE 1)
    ELSE Sg_NormalizeBignum(bignum_mod_expt(bx, be, bm))

Sg_BignumModInverse(bx, bm) == Sg_NormalizeBignum(bignum_mod_inverse(bx, bm))
=============================================================================
