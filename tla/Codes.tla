-------------------------------- MODULE Codes --------------------------------
(***************************************************************************)
(* The 8 bit and 16 bit floating point codes in which a query carries its  *)
(* intervals (timers_values.cpp).  A code below half of its range is the   *)
(* value itself; above, it is an exponent of 3 bits and a mantissa whose   *)
(* leading 1 is not stored.  The integers of the code are 8 and 16 bits    *)
(* wide: an exponent field beyond 7 loses its fourth bit in the bit that   *)
(* marks the format.                                                       *)
(***************************************************************************)
EXTENDS Integers

(* Positions of the bits of x that are set, between lo and hi. *)
BitsSet(x, lo, hi) == {p \in lo .. hi : (x \div 2 ^ p) % 2 = 1}

(* The first position the loop from hi down to lo finds. *)
Highest(P) == CHOOSE p \in P : \A q \in P : q <= p

(* Format bit, exponent field and m bits of mantissa of x, whose highest bit
   is at position p. *)
FloatCode_low(x, p, m) ==
    2 ^ (m + 3) + ((p - m - 3) % 8) * 2 ^ m + ((x \div 2 ^ (p - m - 1)) % 2 ^ m)

FloatCode(x, p, m) ==
    2 ^ (m + 3) + ((p - m - 3) % 8) * 2 ^ m + ((x \div 2 ^ (p - m)) % 2 ^ m)

FloatValue(code, m) ==
    ((code % 2 ^ m) + 2 ^ m) * 2 ^ (((code \div 2 ^ m) % 8) + 3)

qqic_to_qqi(qqic) == IF qqic >= 128 THEN FloatValue(qqic, 4) ELSE qqic

qqi_to_qqic(sec) ==
    IF sec < 128 THEN sec
    ELSE LET P == BitsSet(sec, 7, 15)
         IN  IF P = {} THEN 0 ELSE FloatCode(sec, Highest(P), 4)

(* IGMPv3 counts tenths of a second. *)
maxrespc_igmpv3_to_maxrespi(code) == qqic_to_qqi(code) * 100

maxrespi_to_maxrespc_igmpv3_centi(msec) == qqi_to_qqic(msec \div 10)
maxrespi_to_maxrespc_igmpv3(msec) == qqi_to_qqic(msec \div 100)

(* MLDv2 counts milliseconds.  Bit 31, which the loop tries first, stands for
   24 days and more: intervals stay below it. *)
maxrespc_mldv2_to_maxrespi(code) == IF code >= 32768 THEN FloatValue(code, 12) ELSE code

maxrespi_to_maxrespc_mldv2(msec) ==
    IF msec < 32767 THEN msec
    ELSE LET P == BitsSet(msec, 15, 30)
         IN  IF P = {} THEN 0 ELSE FloatCode(msec, Highest(P), 12)
==============================================================================
