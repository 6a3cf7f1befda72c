------------------------------ MODULE MCNumber ------------------------------
(* Words of six bits: fixnums are -8..7, and the words of the operands are *)
(* at the ends and in the middle of their range.                           *)
EXTENDS Number

MCExpModTable == <<3, 6, 81, 241, 673, 1793>>

Fixnums == {SG_MAKE_INT(n) : n \in IntMin..IntMax}

(* The bignums of n words whose lower words are in low, the top in top. *)
Bignums(n, low, top) ==
    {Big(s, Append(w, t)) : s \in {-1, 1}, w \in [1..n - 1 -> low], t \in top}

Words1 == {Big(1, <<n>>) : n \in {8, 31, 32, 33, 63}}
          \cup {Big(-1, <<n>>) : n \in {9, 31, 32, 33, 63}}
Words2 == Bignums(2, {0, 1, 63}, {1, 31, 63})
Words3 == Bignums(3, {0, 63}, {1, 32})
AllShort == Fixnums \cup Words1 \cup Words2 \cup Words3

(* Operands of four to six words for Karatsuba's method. *)
Long(n) == {b \in Bignums(n, {0, 63}, {1, 63}) : b.sign = 1}
LongPairs == (Long(6) \X Long(4)) \cup (Long(5) \X Long(5))
             \cup {<<b, b>> : b \in Long(7)}

MCOperands == (AllShort \X AllShort) \cup LongPairs
MCShifts == -19..9
MCModuli == {SG_MAKE_INT(n) : n \in {2, 5, 6}}
            \cup {Big(1, w) : w \in {<<8>>, <<15>>, <<48>>, <<63>>,
                                     <<1, 1>>, <<0, 1>>, <<12, 7>>,
                                     <<63, 63>>, <<0, 63>>, <<5, 0, 1>>}}
=============================================================================
