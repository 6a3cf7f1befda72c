------------------------------- MODULE Words -------------------------------
(***************************************************************************)
(* The arrays of machine words on which exact integer arithmetic is built: *)
(* src/src/bignum.inc.  A number is a sequence of words, the least         *)
(* significant first (elements[i] of the code is word i + 1 here), and a   *)
(* C function that fills rp is an operator that returns what rp holds      *)
(* afterwards.  rp itself is an argument where the code reads, or leaves   *)
(* in place, what the buffer held before the call.                         *)
(*                                                                         *)
(* A word has WordBits bits; the code's 32 and 64 are replaced by a small  *)
(* even number.  The thresholds from which products are computed by        *)
(* Karatsuba's method are parameters for the same reason.                  *)
(***************************************************************************)
EXTENDS Integers, Sequences, FiniteSetsExt

CONSTANTS WordBits,             \* WORD_BITS
          KaratsubaLow,         \* KARATSUBA_LOW_LIMIT, in words
          KaratsubaSquareLow    \* KARATSUBA_SQUARE_LOW_LIMIT, in words

(* Half words exist, and no method splits an operand of fewer than four    *)
(* words: the real limits are 25 and 45 words on a 64 bit machine.         *)
ASSUME WordsAssumption ==
    /\ WordBits \in {2 * n : n \in 2..32}
    /\ KaratsubaLow \in Nat /\ KaratsubaLow >= 4
    /\ KaratsubaSquareLow \in Nat /\ KaratsubaSquareLow >= 4

Base == 2 ^ WordBits
HalfBits == WordBits \div 2
HalfWord == 2 ^ HalfBits
ULongMax == Base - 1

Zeros(n) == [i \in 1..n |-> 0]

(* The words of s from the first, in a buffer of n words that was clear.   *)
InBuffer(s, n) == SubSeq(s \o Zeros(n), 1, n)

WordAt(s, i) == IF i <= Len(s) THEN s[i] ELSE 0

(* The loop all the elementary operations share: terms[i] is what word i   *)
(* contributes, the part of the running value above a word is carried to   *)
(* the next one.  c is what is carried out of the last word: negative when *)
(* a subtraction borrows.                                                  *)
Carried(s, t) == [w |-> Append(s.w, (t + s.c) % Base), c |-> (t + s.c) \div Base]
Chain(terms, carry) ==
    LET upto[i \in 0..Len(terms)] ==
            IF i = 0 THEN [w |-> <<>>, c |-> carry]
            ELSE Carried(upto[i - 1], terms[i])
    IN  upto[Len(terms)]

mp_2scmpl(p) == Chain([i \in 1..Len(p) |-> ULongMax - p[i]], 1).w

(* The number of leading zeros of a word. *)
nlz(x) == CHOOSE n \in 0..WordBits :
             /\ x < 2 ^ (WordBits - n)
             /\ n < WordBits => x >= 2 ^ (WordBits - n - 1)

mp_bit_size(x) == IF x = <<>> THEN 0
                  ELSE WordBits * Len(x) - nlz(x[Len(x)])

-----------------------------------------------------------------------------
(* Addition and subtraction. *)

(* Mutant: no room for a carry out of a full top word. *)
SafeSizeFullTop(xp, yp) ==
    IF Len(xp) = Len(yp) THEN Len(xp) + 1 ELSE Max({Len(xp), Len(yp)})

mp_safe_size_for_add(xp, yp) ==
    LET top(s) == IF s[Len(s)] = ULongMax THEN Len(s) + 1 ELSE Len(s)
    IN  CASE Len(xp) > Len(yp) -> top(xp)
          [] Len(xp) < Len(yp) -> top(yp)
          [] OTHER -> Len(xp) + 1

(* The result of an addition: the words of the buffer above the operands   *)
(* stay, and a carry is stored in the last of its rsize words, not in the  *)
(* one above the operands.                                                 *)
StoreSum(sum, rest, rsize) ==
    IF sum.c = 1 THEN [sum.w \o rest EXCEPT ![rsize] = 1] ELSE sum.w \o rest

(* mp_add and mp_add_n: xp has at least as many words as yp. *)
mp_add(rp, rsize, xp, yp) ==
    StoreSum(Chain([i \in 1..Len(xp) |-> xp[i] + WordAt(yp, i)], 0),
             SubSeq(rp, Len(xp) + 1, Len(rp)), rsize)

(* mp_add_ul, with the mp_add_one it calls. *)
mp_add_ul(rp, rsize, xp, y) == mp_add(rp, rsize, xp, <<y>>)

(* mp_sub and mp_sub_n: the borrow fills the words above the operands. *)
StoreBorrow(diff, above) ==
    [w |-> diff.w \o [i \in 1..above |-> diff.c % Base], c |-> diff.c]
mp_sub(rsize, xp, yp) ==
    StoreBorrow(Chain([i \in 1..Len(xp) |-> xp[i] - WordAt(yp, i)], 0),
                rsize - Len(xp))

(* mp_sub_ul stores the borrow, 0 or 1, in the last word of the result. *)
BorrowInLast(diff, rsize) == [InBuffer(diff.w, rsize) EXCEPT ![rsize] = -diff.c]
mp_sub_ul(rsize, xp, y) ==
    BorrowInLast(Chain([xp EXCEPT ![1] = @ - y], 0), rsize)

-----------------------------------------------------------------------------
(* Shifts. *)

ShiftedWord(xp, i, bits) ==
    ((WordAt(xp, i) * 2 ^ bits) % Base)
    + (IF i > 1 THEN xp[i - 1] \div 2 ^ (WordBits - bits) ELSE 0)

ShiftedUp(rp, rsize, xp, words, bits) ==
    [i \in 1..Len(rp) |->
        CASE i <= words -> 0
          [] i > words /\ i <= rsize
             /\ i - words <= Len(xp) + (IF bits = 0 THEN 0 ELSE 1)
             -> ShiftedWord(xp, i - words, bits)
          [] OTHER -> rp[i]]

mp_lshift(rp, rsize, xp, amount) ==
    IF xp = <<>> THEN rp
    ELSE ShiftedUp(rp, rsize, xp, amount \div WordBits, amount % WordBits)

(* Only the words the shift leaves are returned: the effective size. *)
ShiftedDown(xp, words, bits) ==
    [i \in 1..Max({0, Len(xp) - words}) |->
        xp[i + words] \div 2 ^ bits
        + ((WordAt(xp, i + words + 1) * 2 ^ (WordBits - bits)) % Base)]
mp_rshift(xp, amount) ==
    ShiftedDown(xp, amount \div WordBits, amount % WordBits)

-----------------------------------------------------------------------------
(* Multiplication. *)

(* xp * y, in one word more than xp. *)
CarryAppended(s) == Append(s.w, s.c)
mp_mul_ul(xp, y) == CarryAppended(Chain([i \in 1..Len(xp) |-> xp[i] * y], 0))

(* out += in * k: the new words of out and what is carried out of them. *)
mp_mul_add(out, in, k) ==
    Chain([i \in 1..Len(in) |-> in[i] * k + out[i]], 0)

RECURSIVE LongMulLoop(_, _, _)

(* Adds the product of xp and word s.j + 1 of yp. *)
LongMulLoop(s, xp, yp) ==
    IF s.j = Len(yp) THEN s.r
    ELSE LongMulLoop([j |-> s.j + 1,
                      r |-> SubSeq(s.r, 1, s.j) \o CarryAppended(
                                mp_mul_add(SubSeq(s.r, s.j + 1, s.j + Len(xp)),
                                           xp, yp[s.j + 1]))], xp, yp)

(* Grade school: every word of the product is written. *)
long_mul(xp, yp) == LongMulLoop([j |-> 1, r |-> mp_mul_ul(xp, yp[1])], xp, yp)

SplitAt(xlen, ylen) == (IF xlen > ylen THEN xlen ELSE ylen) \div 2

can_karatsuba(xlen, ylen) ==
    /\ xlen >= KaratsubaLow /\ ylen >= KaratsubaLow
    /\ SplitAt(xlen, ylen) < Min({xlen, ylen})

(* A word that happens to follow a product in memory. *)
Beyond == HalfWord + 1

RECURSIVE mp_mul_rec(_, _, _)

(* The sum of the upper part and the lower one of an operand. *)
PartSum(a, b) ==
    LET sum(long, short, k) == mp_add(Zeros(k), k, long, short)
    IN  sum(IF Len(a) >= Len(b) THEN a ELSE b,
            IF Len(a) >= Len(b) THEN b ELSE a, mp_safe_size_for_add(a, b))

MulInClear(xp, yp) == mp_mul_rec(Zeros(Len(xp) + Len(yp)), xp, yp)

(* m - ac - bd *)
Middle(m, ac, bd) == mp_sub(Len(m), mp_sub(Len(m), m, ac).w, bd).w

(* There is no result (<<>>) if the word after rp was changed. *)
Intact(rp, rsize) ==
    IF rp[rsize + 1] = Beyond THEN SubSeq(rp, 1, rsize) ELSE <<>>

AddTo(rp, rsize, size, yp) == mp_add(rp, rsize, SubSeq(rp, 1, size), yp)

(* The product ac goes into the upper words of rp, whose lower 2n words    *)
(* are expected to be clear: what they hold is added to the product.  The  *)
(* middle term may be one word longer than the words of rp it is added to; *)
(* the word after rp is then read and written back.                        *)
Combined(rp, rsize, n, ac, bd, m) ==
    LET add(adbc) == AddTo(SubSeq(rp, 1, 2 * n) \o ac \o <<Beyond>>,
                           rsize, Max({rsize, Len(adbc)}), adbc)
    IN  Intact(AddTo(add(Zeros(n) \o Middle(m, ac, bd)), rsize, rsize, bd),
               rsize)

(* The parts of xp and yp are a, b and c, d, of which b and d have n       *)
(* words; the middle term is (a+b)(c+d)-ac-bd.                             *)
OfParts(rp, a, b, c, d, n) ==
    Combined(rp, Len(rp), n,
             mp_mul_rec(SubSeq(rp, 2 * n + 1, Len(rp)), a, c),
             MulInClear(b, d), MulInClear(PartSum(a, b), PartSum(c, d)))

SplitMul(rp, xp, yp, n) ==
    OfParts(rp, SubSeq(xp, n + 1, Len(xp)), SubSeq(xp, 1, n),
            SubSeq(yp, n + 1, Len(yp)), SubSeq(yp, 1, n), n)
karatsuba(rp, xp, yp) == SplitMul(rp, xp, yp, SplitAt(Len(xp), Len(yp)))

mp_mul_rec(rp, xp, yp) ==
    IF can_karatsuba(Len(xp), Len(yp)) THEN karatsuba(rp, xp, yp)
    ELSE long_mul(xp, yp)

(* rp holds what the buffer of the product held before. *)
mp_mul(rp, xp, yp) == mp_mul_rec(rp, xp, yp)

(* Word k of the squares p of the words, halved: the lower and the upper   *)
(* half of a square alternate, and what an odd square loses goes to the    *)
(* word below.                                                             *)
HalvedSquare(p, i, upper) ==
    IF upper
    THEN p[i] \div (2 * Base)
         + (IF i < Len(p) THEN (p[i + 1] % 2) * 2 ^ (WordBits - 1) ELSE 0)
    ELSE (p[i] \div 2) % Base

(* r with its words from lo + 1 on replaced by q.w, and q.c added above. *)
CarriedInto(r, lo, q) ==
    LET add(up) == mp_add_ul(up, Len(up), up, q.c)
    IN  SubSeq(r, 1, lo) \o q.w \o add(SubSeq(r, lo + Len(q.w) + 1, Len(r)))

(* The products of word i and the words above it, added to r. *)
AddRow(r, xp, i, lo) ==
    CarriedInto(r, lo, mp_mul_add(SubSeq(r, lo + 1, lo + Len(xp) - i),
                                  SubSeq(xp, i + 1, Len(xp)), xp[i]))

(* The halved squares of the words, then the products of two different     *)
(* words, and the whole doubled; the bit lost by halving is put back.      *)
LowBitPut(rp, bit) == <<rp[1] + bit>> \o Tail(rp)
Doubled(rp, xp) == LowBitPut(mp_lshift(rp, Len(rp), rp, 1), xp[1] % 2)
SumOfRows(xp, squares) ==
    LET upto[i \in 0..Len(xp) - 1] ==
            IF i = 0 THEN [k \in 1..2 * Len(xp) |->
                              HalvedSquare(squares, (k + 1) \div 2, k % 2 = 0)]
            ELSE AddRow(upto[i - 1], xp, i, 2 * i - 1)
    IN  upto[Len(xp) - 1]
mp_base_square(xp) ==
    Doubled(SumOfRows(xp, [i \in 1..Len(xp) |-> xp[i] * xp[i]]), xp)

RECURSIVE mp_square_rec(_)

(* a^2 is computed in rp, moved up by n words, (a+b)^2 - (a^2+b^2) added,  *)
(* moved up by n words again and b^2 added.                                *)
TwiceProduct(apb2, a2, b2) == mp_sub(Len(apb2), apb2, PartSum(a2, b2)).w
MovedUp(rp, rsize, size, n) ==
    mp_lshift(rp, rsize, SubSeq(rp, 1, size), n * WordBits)
CombinedSquare(rsize, n, a2, b2, apb2) ==
    LET add(rp) == AddTo(rp, rsize, Len(a2) + n, TwiceProduct(apb2, a2, b2))
        low(rp) == AddTo(Append(rp, Beyond), rsize, rsize + 1, b2)
        first == MovedUp(InBuffer(a2, rsize), Len(a2) + n, Len(a2), n)
    IN  Intact(low(MovedUp(add(first), rsize, Len(a2) + n + 1, n)), rsize)
SquareOfParts(a, b) ==
    CombinedSquare(2 * (Len(a) + Len(b)), Len(b),
                   mp_square_rec(a), mp_square_rec(b), mp_square_rec(PartSum(a, b)))
SplitSquare(xp, n) ==
    SquareOfParts(SubSeq(xp, n + 1, Len(xp)), SubSeq(xp, 1, n))
karatsuba_square(xp) == SplitSquare(xp, Len(xp) \div 2)

mp_square_rec(xp) ==
    CASE xp = <<>> -> <<>>
      [] xp # <<>> /\ Len(xp) >= KaratsubaSquareLow -> karatsuba_square(xp)
      [] OTHER -> mp_base_square(xp)

mp_square(xp) == mp_square_rec(xp)

-----------------------------------------------------------------------------
(* Division: Knuth's algorithm D on half words.  A number is seen as the   *)
(* function from the positions 0, 1, ... of its half words (DIGIT of the   *)
(* code).                                                                  *)

Halves(s) == [i \in 0..2 * Len(s) - 1 |->
                IF i % 2 = 0 THEN s[i \div 2 + 1] % HalfWord
                             ELSE s[i \div 2 + 1] \div HalfWord]

(* The n words whose half words h gives; those h has no value for are 0. *)
HalfAt(h, i) == IF i \in DOMAIN h THEN h[i] ELSE 0
FromHalves(h, n) ==
    [i \in 1..n |-> HalfAt(h, 2 * i - 2) + HalfAt(h, 2 * i - 1) * HalfWord]

div_normalization_factor(w) == nlz(w)

(* The estimate q, with remainder r, of a quotient digit is too high. *)
TooHigh(q, r, vn2, next) == r < HalfWord /\ q * vn2 > r * HalfWord + next

(* A first estimate from the two leading digits, at most a half word, then *)
(* corrected with the next digit.                                          *)
Corrected(q, r, vn1, vn2, next) ==
    q - CHOOSE k \in 0..HalfWord :
            /\ ~TooHigh(q - k, r + k * vn1, vn2, next)
            /\ \A i \in 0..k - 1 : TooHigh(q - i, r + i * vn1, vn2, next)
QuotientDigit(uu, vn1, vn2, next) ==
    LET within(over) == Corrected(uu \div vn1 - over, (uu % vn1) + over * vn1,
                                  vn1, vn2, next)
    IN  within(Max({0, uu \div vn1 - (HalfWord - 1)}))

(* qq * v is subtracted from u two digits at a time. *)
TakeFrom(u, i, before, after) ==
    [u |-> [u EXCEPT ![i] = after % HalfWord, ![i + 1] = after \div HalfWord],
     cy |-> IF after > before THEN HalfWord ELSE 0]
TakeFromTwo(s, i, two, minus) == TakeFrom(s.u, i, two, (two - minus - s.cy) % Base)
TakeDigit(s, i, minus) == TakeFromTwo(s, i, s.u[i] + s.u[i + 1] * HalfWord, minus)
TakeProduct(u, v, n, j, qq) ==
    LET less[k \in 0..n] ==
            IF k = 0 THEN [u |-> u, cy |-> 0]
            ELSE TakeDigit(less[k - 1], j + k - 1, qq * v[k - 1])
    IN  less[n]

(* What was too much is added back, and the last carry dropped. *)
AddSum(u, i, sum) == [u |-> [u EXCEPT ![i] = sum % HalfWord],
                      cy |-> IF sum >= HalfWord THEN 1 ELSE 0]
AddDigit(s, i, d) == AddSum(s.u, i, s.u[i] + d + s.cy)
CarryUp(s, i) == [s.u EXCEPT ![i] = (@ + s.cy) % HalfWord]
AddBack(u, v, n, j) ==
    LET more[k \in 0..n] ==
            IF k = 0 THEN [u |-> u, cy |-> 0]
            ELSE AddDigit(more[k - 1], j + k - 1, v[k - 1])
    IN  CarryUp(more[n], j + n)

(* One round for the quotient digit j.  Position -1 is read when the       *)
(* divisor has a single half word: C divides towards zero, so it is        *)
(* position 1.                                                             *)
Digit(f, i) == IF i < 0 THEN f[1] ELSE f[i]
Settled(s, v, n, j, qq) == IF s.cy = 0 THEN [u |-> s.u, q |-> qq]
                           ELSE [u |-> AddBack(s.u, v, n, j), q |-> qq - 1]
DivStep(u, v, n, j) ==
    LET with(qq) == Settled(TakeProduct(u, v, n, j, qq), v, n, j, qq)
    IN  with(QuotientDigit(u[j + n] * HalfWord + u[j + n - 1], Digit(v, n - 1),
                           Digit(v, n - 2), Digit(u, j + n - 2)))

RECURSIVE DivLoop(_, _, _)

(* The quotient digits from the s.j-th down. *)
DivLoop(s, v, n) ==
    LET next(d) == [j |-> s.j - 1, u |-> d.u, q |-> <<d.q>> \o s.q]
    IN  IF s.j < 0 THEN s ELSE DivLoop(next(DivStep(s.u, v, n, s.j)), v, n)

(* The quotient digits and the words of the remainder (one more than xp).  *)
(* Without a digit to compute (a shorter dividend) xp is the remainder.    *)
Shifted(p, size, d) == Halves(mp_lshift(Zeros(size), size, p, d))
Unshifted(end, size, d) ==
    [q |-> [i \in 0..Len(end.q) - 1 |-> end.q[i + 1]],
     r |-> mp_rshift(FromHalves(end.u, size), d)]
Normalized(xp, yp, n, d) ==
    Unshifted(DivLoop([j |-> 2 * Len(xp) - n, u |-> Shifted(xp, Len(xp) + 1, d),
                       q |-> <<>>], Shifted(yp, Len(yp), d), n), Len(xp) + 1, d)
mp_div_rem_kunuth(xp, yp) ==
    LET by(z) == Normalized(xp, yp,
                            2 * Len(yp) - (IF z >= HalfBits THEN 1 ELSE 0),
                            z % HalfBits)
    IN  by(div_normalization_factor(yp[Len(yp)]))

(* mp_div_rem: the quotient in qlen words. *)
mp_div_rem(qlen, xp, yp) ==
    LET words(k) == [q |-> FromHalves(k.q, qlen), r |-> k.r]
    IN  words(mp_div_rem_kunuth(xp, yp))

-----------------------------------------------------------------------------
(* Montgomery reduction, used by modular exponentiation. *)

(* -1, 0 or 1 as the number arg1 is below, equal to or above arg2. *)
ulong_array_cmp_to_len(arg1, arg2) ==
    LET differ == {i \in 1..Len(arg1) : arg1[i] # arg2[i]}
    IN  CASE differ = {} -> 0
          [] differ # {} /\ arg1[Max(differ)] < arg2[Max(differ)] -> -1
          [] OTHER -> 1

RECURSIVE SubtractWhile(_, _, _)

(* The two closing loops: c is what the sum carried out of n. *)
SubtractWhile(n, mod, c) ==
    LET again(s) == SubtractWhile(s.w, mod, IF c > 0 THEN c + s.c ELSE 0)
    IN  IF c > 0 \/ ulong_array_cmp_to_len(n, mod) >= 0
        THEN again(mp_sub(Len(n), n, mod)) ELSE n

RECURSIVE MontLoop(_, _, _)

(* Makes the lowest word of s.n that is not known to be zero so. *)
MontSum(s, k, p) ==
    LET with(up) == [zeros |-> s.zeros + 1,
                     n |-> SubSeq(s.n, 1, s.zeros) \o p.w \o up.w, c |-> s.c + up.c]
    IN  with(Chain(SubSeq(s.n, s.zeros + 1 + k, 2 * k), p.c))
MontStep(s, k, mod, w) ==
    MontSum(s, k, mp_mul_add(SubSeq(s.n, s.zeros + 1, s.zeros + k), mod, w))
MontLoop(s, mod, inv) ==
    IF s.zeros = Len(mod) THEN s
    ELSE MontLoop(MontStep(s, Len(mod), mod, (inv * s.n[s.zeros + 1]) % Base),
                  mod, inv)

(* Adds multiples of mod to n, of twice its words, until the lower half is *)
(* zero; what remains of the upper half is below mod.                      *)
mp_mont_reduce(n, mod, inv) ==
    LET reduced(s, k) == SubSeq(s.n, 1, k)
                         \o SubtractWhile(SubSeq(s.n, k + 1, 2 * k), mod, s.c)
    IN  reduced(MontLoop([zeros |-> 0, n |-> n, c |-> 0], mod, inv), Len(mod))
=============================================================================
