------------------------------ MODULE Addresses ------------------------------
(***************************************************************************)
(* addr_storage (addr_storage.cpp): an IP address of one word (IPv4) or of *)
(* four words (IPv6).  A word has WordBits bits instead of 32; the code    *)
(* treats all words alike.                                                 *)
(***************************************************************************)
EXTENDS Integers, Sequences, FiniteSets

CONSTANT WordBits
ASSUME WordBitsAssumption == WordBits \in Nat \ {0}

AddrFamilies == {"AF_INET", "AF_INET6"}
Words(family) == IF family = "AF_INET" THEN 1 ELSE 4
Bits(family)  == Words(family) * WordBits

Address(family) ==
    [family : {family}, words : [1 .. Words(family) -> 0 .. 2 ^ WordBits - 1]]

(* The constructor from an address family: also the wildcard of that family *)
addr_storage(family) ==
    [family |-> family, words |-> [i \in 1 .. Words(family) |-> 0]]

(* operator<: false for addresses of different families.                   *)
Less(a, b) ==
    /\ a.family = b.family
    /\ \E i \in DOMAIN a.words :
          /\ a.words[i] < b.words[i]
          /\ \A j \in 1 .. i - 1 : a.words[j] = b.words[j]
LessEq(a, b)    == Less(a, b) \/ a = b
GreaterEq(a, b) == ~Less(a, b)

(***************************************************************************)
(* All ones shifted to the right.  For a shift by the width of the word or *)
(* more, which C++ leaves undefined, the processor takes the distance      *)
(* modulo the width (x86) or shifts everything out (ARM).                  *)
(***************************************************************************)
Builds == {"modulo", "zero"}
RightShift(build, n) ==
    IF n < WordBits THEN 2 ^ (WordBits - n) - 1
    ELSE IF build = "modulo" THEN 2 ^ (WordBits - (n % WordBits)) - 1 ELSE 0

(* w & ~ones and w | ones, where ones is 2^k - 1.                           *)
Clear(w, ones) == w - (w % (ones + 1))
Fill(w, ones)  == Clear(w, ones) + ones

(* The words of an address with a prefix: those left of it are kept, those  *)
(* right of it become right, the one in between is taken from within.  The  *)
(* distance of the shift is the whole prefix, not its rest in the word.     *)
Prefixed(a, suffix, right, within) ==
    [a EXCEPT !.words =
        IF a.family = "AF_INET" THEN within
        ELSE [i \in 1 .. 4 |->
                 LET rest == suffix - (i - 1) * WordBits
                 IN CASE rest <= 0 -> right
                      [] 0 < rest /\ rest < WordBits -> within[i]
                      [] rest >= WordBits -> @[i]]]

Cleared(a, ones) == [i \in DOMAIN a.words |-> Clear(a.words[i], ones)]
Filled(a, ones)  == [i \in DOMAIN a.words |-> Fill(a.words[i], ones)]

mask(build, a, suffix) ==
    Prefixed(a, suffix, 0, Cleared(a, RightShift(build, suffix)))
broadcast_addr_open(build, a, suffix) ==
    Prefixed(a, suffix, 2 ^ WordBits - 1, Filled(a, RightShift(build, suffix + 1)))
broadcast_addr(build, a, suffix) ==
    Prefixed(a, suffix, 2 ^ WordBits - 1, Filled(a, RightShift(build, suffix)))

------------------------------------------------------------------------------
(* Reference: the value of an address and the subnet of a prefix.          *)
Value(a) ==
    LET v[i \in 0 .. Len(a.words)] ==
            IF i = 0 THEN 0 ELSE v[i - 1] * 2 ^ WordBits + a.words[i]
    IN v[Len(a.words)]
SameSubnet(a, b, prefix) ==
    /\ a.family = b.family
    /\ LET host == 2 ^ (Bits(a.family) - prefix)
       IN Value(a) \div host = Value(b) \div host
=============================================================================
