--------------------------- MODULE QueriesProofs ---------------------------
(***************************************************************************)
(* Proofs about the queries of a querier: the codes for every interval,    *)
(* the life of the timers and values, and that a listener is kept for any  *)
(* robustness variable and any sensible intervals, whatever is lost.       *)
(***************************************************************************)
EXTENDS Queries, Induction, TLAPS

(***************************************************************************)
(* The invariant                                                           *)
(***************************************************************************)
(* Every object that exists has the values that were chosen, in a tank     *)
(* that is not shared unless it is that of the defaults; and a tank is     *)
(* free for each copy still to be made.                                    *)
ObjectOK(o) ==
    /\ o \in Object /\ o.tank \in DOMAIN tanks
    /\ o.is_default_timers_values_tank <=> o.tank = 0
    /\ tanks[o.tank] = choice.tank
ValuesOK ==
    /\ DOMAIN tanks \subseteq 0 .. 3 /\ 0 \in DOMAIN tanks
    /\ tanks[0] = default_timers_values_tank
    /\ \A k \in DOMAIN tanks : tanks[k] \in Tank
    /\ DOMAIN objects \subseteq Holders
    /\ \A h \in DOMAIN objects : ObjectOK(objects[h])
    /\ \A h, k \in DOMAIN objects : objects[h].tank = objects[k].tank => h = k \/ objects[h].tank = 0
    /\ querier = "none" => \/ DOMAIN objects = {} /\ DOMAIN tanks = {0}
                           \/ DOMAIN objects = {"tv"} /\ DOMAIN tanks \subseteq {0, 1}
                           \/ "msg" \in DOMAIN objects /\ \E k \in 1 .. 3 : k \notin DOMAIN tanks
    /\ querier = "running" => "querier" \in DOMAIN objects

(* The control of the querier and of the listener.                         *)
ControlOK ==
    /\ protocol \in Protocols /\ choice \in Choices
    /\ querier \in {"none", "running", "failed"}
    /\ {startup_query_count, group_retransmission_count} \subseteq Nat \cup {-1}
    /\ {filter_timer, answer} \subseteq Timer
    /\ group_retransmission_timer \in Timer \cup {Over}
    /\ query \in Queries
    /\ lost \in Nat /\ leaves \in 0 .. MaxLeaves
    /\ IF querier = "running" THEN general_query_timer \in Nat
       ELSE \A t \in {general_query_timer, filter_timer, group_retransmission_timer, answer} :
               t = None

(* Ticks between two general queries, and the longest delay of an answer.  *)
Round == Seconds(choice.tank.query_interval)
Delay == (choice.tank.query_response_interval - 1) \div Millis

(* Losses still possible, and an answer that comes before the next query.  *)
Left == choice.tank.robustness_variable - 1 - lost
Soon == answer # None /\ answer < general_query_timer

(* The filter timer outlasts the next answer; and while more can be lost,  *)
(* the answer to the query after those that can be lost.                   *)
Kept ==
    /\ \/ answer # None /\ filter_timer > answer
       \/ filter_timer > general_query_timer + Delay
    /\ ~Lowered(choice.tank, filter_timer) /\ Left > 0 =>
          filter_timer > general_query_timer + Delay + (IF Soon THEN Left - 1 ELSE Left) * Round
TimeOK ==
    /\ lost < choice.tank.robustness_variable
    /\ querier = "running" => general_query_timer <= Round
    /\ filter_timer # None => Kept

IInv == ValuesOK /\ ControlOK /\ TimeOK

(***************************************************************************)
(* The codes                                                               *)
(***************************************************************************)
(* The mantissa of M values, with its leading 1, cut out of x at a unit of *)
(* b, is not above x; and less than a unit below it when x has no higher   *)
(* bit.                                                                    *)
LEMMA RoundDown ==
    ASSUME NEW x \in Nat, NEW M \in Nat \ {0}, NEW b \in Nat \ {0},
           (x \div (M * b)) % 2 = 1,
           NEW y, y = (((x \div b) % M) + M) * b
    PROVE  y \in 0 .. x /\ (x < 2 * (M * b) => M * (x - y) <= x)
<1> DEFINE q == x \div b
           r == q % M
           k == q \div M
<1>1. q \in Nat /\ b * q <= x /\ x < b * q + b
  OBVIOUS
<1>2. k = x \div (M * b)
  OBVIOUS
<1>3. r \in Nat /\ k \in Nat /\ q = M * k + r /\ r < M
  BY <1>1
<1>4. k >= 1
  BY <1>2, <1>3
<1>5. M * k >= M
  BY <1>3, <1>4
<1>6. r + M <= q /\ r + M \in Nat
  BY <1>3, <1>5
<1>7. (r + M) * b <= q * b /\ (r + M) * b \in Nat
  BY <1>1, <1>6
<1>8. y \in 0 .. x
  BY <1>1, <1>7
<1>9. ASSUME x < 2 * (M * b) PROVE M * (x - y) <= x
  <2>1. k < 2
    <3>1. (M * b) * k <= x
      BY <1>2
    <3>2. (M * b) * k < (M * b) * 2 /\ M * b \in Nat
      BY <3>1, <1>9, <1>3
    <3>3. QED
      BY <3>2, <1>3
  <2>2. q = M + r
    BY <2>1, <1>3, <1>4
  <2>3. y = q * b
    BY <2>2
  <2>4. x - y \in Nat /\ x - y < b
    BY <2>3, <1>1
  <2>5. M * (x - y) <= M * b
    BY <2>4
  <2>6. M * b <= q * b
    BY <2>2, <1>3
  <2>7. QED
    BY <2>5, <2>6, <2>3, <1>8
<1>10. QED
  BY <1>8, <1>9

(* Powers of two at the positions where the exponent fits its field.       *)
LEMMA QqicPowers ==
    ASSUME NEW p \in 7 .. 14
    PROVE  /\ 2 ^ (p - 4) \in Nat \ {0} /\ 16 * 2 ^ (p - 4) = 2 ^ p
           /\ 2 ^ (((p - 7) % 8) + 3) = 2 ^ (p - 4)
<1>1. CASE p = 7
  BY <1>1, SMT
<1>2. CASE p = 8
  BY <1>2, SMT
<1>3. CASE p = 9
  BY <1>3, SMT
<1>4. CASE p = 10
  BY <1>4, SMT
<1>5. CASE p = 11
  BY <1>5, SMT
<1>6. CASE p = 12
  BY <1>6, SMT
<1>7. CASE p = 13
  BY <1>7, SMT
<1>8. CASE p = 14
  BY <1>8, SMT
<1>9. QED
  BY <1>1, <1>2, <1>3, <1>4, <1>5, <1>6, <1>7, <1>8, SMT

(* The same for codes of 16 bits.                                         *)
LEMMA MaxRespPowers ==
    ASSUME NEW p \in 15 .. 22
    PROVE  /\ 2 ^ (p - 12) \in Nat \ {0} /\ 2 ^ 12 * 2 ^ (p - 12) = 2 ^ p
           /\ 2 ^ (((p - 15) % 8) + 3) = 2 ^ (p - 12)
<1>1. CASE p = 15
  BY <1>1, SMT
<1>2. CASE p = 16
  BY <1>2, SMT
<1>3. CASE p = 17
  BY <1>3, SMT
<1>4. CASE p = 18
  BY <1>4, SMT
<1>5. CASE p = 19
  BY <1>5, SMT
<1>6. CASE p = 20
  BY <1>6, SMT
<1>7. CASE p = 21
  BY <1>7, SMT
<1>8. CASE p = 22
  BY <1>8, SMT
<1>9. QED
  BY <1>1, <1>2, <1>3, <1>4, <1>5, <1>6, <1>7, <1>8, SMT

(* The loop finds the highest bit.                                         *)
LEMMA HighestFound ==
    ASSUME NEW lo \in Nat, NEW hi \in Nat, NEW P \in SUBSET (lo .. hi), P # {}
    PROVE  Highest(P) \in P /\ \A q \in P : q <= Highest(P)
<1> DEFINE T == {n \in Nat : hi - n \in P}
<1>1. PICK r \in P : TRUE
  OBVIOUS
<1>2. hi - r \in T
  BY <1>1
<1>3. PICK n \in T : \A k \in T : n <= k
  <2>1. T \in SUBSET Nat /\ T # {}
    BY <1>2
  <2> HIDE DEF T
  <2>2. QED
    BY <2>1, LeastNumber
<1>4. hi - n \in P /\ \A q \in P : q <= hi - n
  <2>1. hi - n \in P
    BY <1>3
  <2>2. ASSUME NEW q \in P PROVE q <= hi - n
    <3>1. hi - q \in T
      OBVIOUS
    <3>2. n <= hi - q /\ n \in Nat
      BY <1>3, <3>1
    <3>3. QED
      BY <3>2
  <2>3. QED
    BY <2>1, <2>2
<1>5. QED
  BY <1>4 DEF Highest

(* Bits 7 to 14: no bit of x is above the highest one.                     *)
LEMMA QqicTop ==
    ASSUME NEW x \in Nat, x < 2 ^ 15, NEW p \in 6 .. 14,
           \A q \in p + 1 .. 14 : (x \div 2 ^ q) % 2 # 1
    PROVE  x < 2 * 2 ^ p
<1>1. p < 14 => x < 16384
  <2> SUFFICES ASSUME p < 14 PROVE x < 16384
    BY SMT
  <2>1. PICK q \in p + 1 .. 14 : q = 14
    BY SMT
  <2>2. (x \div 2 ^ q) % 2 # 1
    OBVIOUS
  <2>3. 2 ^ q = 16384
    BY <2>1, SMT
  <2>4. x < 32768
    BY SMT
  <2>5. QED
    BY <2>2, <2>3, <2>4, SMT
<1>2. p < 13 => x < 8192
  <2> SUFFICES ASSUME p < 13 PROVE x < 8192
    BY SMT
  <2>1. PICK q \in p + 1 .. 14 : q = 13
    BY SMT
  <2>2. (x \div 2 ^ q) % 2 # 1
    OBVIOUS
  <2>3. 2 ^ q = 8192
    BY <2>1, SMT
  <2>4. x < 16384
    BY <1>1, SMT
  <2>5. QED
    BY <2>2, <2>3, <2>4, SMT
<1>3. p < 12 => x < 4096
  <2> SUFFICES ASSUME p < 12 PROVE x < 4096
    BY SMT
  <2>1. PICK q \in p + 1 .. 14 : q = 12
    BY SMT
  <2>2. (x \div 2 ^ q) % 2 # 1
    OBVIOUS
  <2>3. 2 ^ q = 4096
    BY <2>1, SMT
  <2>4. x < 8192
    BY <1>2, SMT
  <2>5. QED
    BY <2>2, <2>3, <2>4, SMT
<1>4. p < 11 => x < 2048
  <2> SUFFICES ASSUME p < 11 PROVE x < 2048
    BY SMT
  <2>1. PICK q \in p + 1 .. 14 : q = 11
    BY SMT
  <2>2. (x \div 2 ^ q) % 2 # 1
    OBVIOUS
  <2>3. 2 ^ q = 2048
    BY <2>1, SMT
  <2>4. x < 4096
    BY <1>3, SMT
  <2>5. QED
    BY <2>2, <2>3, <2>4, SMT
<1>5. p < 10 => x < 1024
  <2> SUFFICES ASSUME p < 10 PROVE x < 1024
    BY SMT
  <2>1. PICK q \in p + 1 .. 14 : q = 10
    BY SMT
  <2>2. (x \div 2 ^ q) % 2 # 1
    OBVIOUS
  <2>3. 2 ^ q = 1024
    BY <2>1, SMT
  <2>4. x < 2048
    BY <1>4, SMT
  <2>5. QED
    BY <2>2, <2>3, <2>4, SMT
<1>6. p < 9 => x < 512
  <2> SUFFICES ASSUME p < 9 PROVE x < 512
    BY SMT
  <2>1. PICK q \in p + 1 .. 14 : q = 9
    BY SMT
  <2>2. (x \div 2 ^ q) % 2 # 1
    OBVIOUS
  <2>3. 2 ^ q = 512
    BY <2>1, SMT
  <2>4. x < 1024
    BY <1>5, SMT
  <2>5. QED
    BY <2>2, <2>3, <2>4, SMT
<1>7. p < 8 => x < 256
  <2> SUFFICES ASSUME p < 8 PROVE x < 256
    BY SMT
  <2>1. PICK q \in p + 1 .. 14 : q = 8
    BY SMT
  <2>2. (x \div 2 ^ q) % 2 # 1
    OBVIOUS
  <2>3. 2 ^ q = 256
    BY <2>1, SMT
  <2>4. x < 512
    BY <1>6, SMT
  <2>5. QED
    BY <2>2, <2>3, <2>4, SMT
<1>8. p < 7 => x < 128
  <2> SUFFICES ASSUME p < 7 PROVE x < 128
    BY SMT
  <2>1. PICK q \in p + 1 .. 14 : q = 7
    BY SMT
  <2>2. (x \div 2 ^ q) % 2 # 1
    OBVIOUS
  <2>3. 2 ^ q = 128
    BY <2>1, SMT
  <2>4. x < 256
    BY <1>7, SMT
  <2>5. QED
    BY <2>2, <2>3, <2>4, SMT
<1>9. CASE p = 6
  BY <1>9, <1>8, SMT
<1>10. CASE p = 7
  BY <1>10, <1>7, SMT
<1>11. CASE p = 8
  BY <1>11, <1>6, SMT
<1>12. CASE p = 9
  BY <1>12, <1>5, SMT
<1>13. CASE p = 10
  BY <1>13, <1>4, SMT
<1>14. CASE p = 11
  BY <1>14, <1>3, SMT
<1>15. CASE p = 12
  BY <1>15, <1>2, SMT
<1>16. CASE p = 13
  BY <1>16, <1>1, SMT
<1>17. CASE p = 14
  BY <1>17, SMT
<1>18. QED
  BY <1>9, <1>10, <1>11, <1>12, <1>13, <1>14, <1>15, <1>16, <1>17, SMT

(* The same for bits 15 to 22.                                             *)
LEMMA MaxRespTop ==
    ASSUME NEW x \in Nat, x < 2 ^ 23, NEW p \in 14 .. 22,
           \A q \in p + 1 .. 22 : (x \div 2 ^ q) % 2 # 1
    PROVE  x < 2 * 2 ^ p
<1>1. p < 22 => x < 4194304
  <2> SUFFICES ASSUME p < 22 PROVE x < 4194304
    BY SMT
  <2>1. PICK q \in p + 1 .. 22 : q = 22
    BY SMT
  <2>2. (x \div 2 ^ q) % 2 # 1
    OBVIOUS
  <2>3. 2 ^ q = 4194304
    BY <2>1, SMT
  <2>4. x < 8388608
    BY SMT
  <2>5. QED
    BY <2>2, <2>3, <2>4, SMT
<1>2. p < 21 => x < 2097152
  <2> SUFFICES ASSUME p < 21 PROVE x < 2097152
    BY SMT
  <2>1. PICK q \in p + 1 .. 22 : q = 21
    BY SMT
  <2>2. (x \div 2 ^ q) % 2 # 1
    OBVIOUS
  <2>3. 2 ^ q = 2097152
    BY <2>1, SMT
  <2>4. x < 4194304
    BY <1>1, SMT
  <2>5. QED
    BY <2>2, <2>3, <2>4, SMT
<1>3. p < 20 => x < 1048576
  <2> SUFFICES ASSUME p < 20 PROVE x < 1048576
    BY SMT
  <2>1. PICK q \in p + 1 .. 22 : q = 20
    BY SMT
  <2>2. (x \div 2 ^ q) % 2 # 1
    OBVIOUS
  <2>3. 2 ^ q = 1048576
    BY <2>1, SMT
  <2>4. x < 2097152
    BY <1>2, SMT
  <2>5. QED
    BY <2>2, <2>3, <2>4, SMT
<1>4. p < 19 => x < 524288
  <2> SUFFICES ASSUME p < 19 PROVE x < 524288
    BY SMT
  <2>1. PICK q \in p + 1 .. 22 : q = 19
    BY SMT
  <2>2. (x \div 2 ^ q) % 2 # 1
    OBVIOUS
  <2>3. 2 ^ q = 524288
    BY <2>1, SMT
  <2>4. x < 1048576
    BY <1>3, SMT
  <2>5. QED
    BY <2>2, <2>3, <2>4, SMT
<1>5. p < 18 => x < 262144
  <2> SUFFICES ASSUME p < 18 PROVE x < 262144
    BY SMT
  <2>1. PICK q \in p + 1 .. 22 : q = 18
    BY SMT
  <2>2. (x \div 2 ^ q) % 2 # 1
    OBVIOUS
  <2>3. 2 ^ q = 262144
    BY <2>1, SMT
  <2>4. x < 524288
    BY <1>4, SMT
  <2>5. QED
    BY <2>2, <2>3, <2>4, SMT
<1>6. p < 17 => x < 131072
  <2> SUFFICES ASSUME p < 17 PROVE x < 131072
    BY SMT
  <2>1. PICK q \in p + 1 .. 22 : q = 17
    BY SMT
  <2>2. (x \div 2 ^ q) % 2 # 1
    OBVIOUS
  <2>3. 2 ^ q = 131072
    BY <2>1, SMT
  <2>4. x < 262144
    BY <1>5, SMT
  <2>5. QED
    BY <2>2, <2>3, <2>4, SMT
<1>7. p < 16 => x < 65536
  <2> SUFFICES ASSUME p < 16 PROVE x < 65536
    BY SMT
  <2>1. PICK q \in p + 1 .. 22 : q = 16
    BY SMT
  <2>2. (x \div 2 ^ q) % 2 # 1
    OBVIOUS
  <2>3. 2 ^ q = 65536
    BY <2>1, SMT
  <2>4. x < 131072
    BY <1>6, SMT
  <2>5. QED
    BY <2>2, <2>3, <2>4, SMT
<1>8. p < 15 => x < 32768
  <2> SUFFICES ASSUME p < 15 PROVE x < 32768
    BY SMT
  <2>1. PICK q \in p + 1 .. 22 : q = 15
    BY SMT
  <2>2. (x \div 2 ^ q) % 2 # 1
    OBVIOUS
  <2>3. 2 ^ q = 32768
    BY <2>1, SMT
  <2>4. x < 65536
    BY <1>7, SMT
  <2>5. QED
    BY <2>2, <2>3, <2>4, SMT
<1>9. CASE p = 14
  BY <1>9, <1>8, SMT
<1>10. CASE p = 15
  BY <1>10, <1>7, SMT
<1>11. CASE p = 16
  BY <1>11, <1>6, SMT
<1>12. CASE p = 17
  BY <1>12, <1>5, SMT
<1>13. CASE p = 18
  BY <1>13, <1>4, SMT
<1>14. CASE p = 19
  BY <1>14, <1>3, SMT
<1>15. CASE p = 20
  BY <1>15, <1>2, SMT
<1>16. CASE p = 21
  BY <1>16, <1>1, SMT
<1>17. CASE p = 22
  BY <1>17, SMT
<1>18. QED
  BY <1>9, <1>10, <1>11, <1>12, <1>13, <1>14, <1>15, <1>16, <1>17, SMT

(* What is in the fields of a code of 8 bits, and what they are read as.   *)
LEMMA QqicFields ==
    ASSUME NEW x \in Nat, NEW p \in 7 .. 15, NEW b \in Nat \ {0}, b = 2 ^ (p - 4)
    PROVE  /\ FloatCode(x, p, 4) \in 128 .. 255
           /\ FloatValue(FloatCode(x, p, 4), 4)
                = (((x \div b) % 16) + 16) * 2 ^ (((p - 7) % 8) + 3)
<1> DEFINE e == (p - 7) % 8
           r == (x \div b) % 16
           c == 128 + e * 16 + r
<1>1. 2 ^ 4 = 16 /\ 2 ^ (4 + 3) = 128
  BY SMT
<1>2. e \in 0 .. 7 /\ p - 4 - 3 = p - 7
  OBVIOUS
<1>3. x \div b \in Nat
  OBVIOUS
<1>4. r \in 0 .. 15
  BY <1>3
<1>5. FloatCode(x, p, 4) = c
  BY <1>1, <1>2 DEF FloatCode
<1>6. c % 16 = r /\ (c \div 16) % 8 = e /\ c \in 128 .. 255
  BY <1>2, <1>4
<1> HIDE DEF c, e, r
<1>7. FloatValue(c, 4) = (r + 16) * 2 ^ (e + 3)
  BY <1>1, <1>6 DEF FloatValue
<1>8. QED
  BY <1>5, <1>6, <1>7 DEF e, r

(* The codes of 16 bits with an exponent e and a mantissa r.               *)
Mantissas == 0 .. 4095
FloatCodes == {c \in Nat : 32768 <= c /\ c < 65536}
LongCode(e, r) == 32768 + e * 4096 + r
LongValue(e, r) == (r + 2 ^ 12) * 2 ^ (e + 3)

(* What is read from such a code.                                          *)
LEMMA LongCodeFields ==
    ASSUME NEW e \in 0 .. 7, NEW r \in Mantissas
    PROVE  LongCode(e, r) \in FloatCodes /\ FloatValue(LongCode(e, r), 12) = LongValue(e, r)
<1> DEFINE c == LongCode(e, r)
<1>1. c = 32768 + e * 4096 + r /\ r \in 0 .. 4095
  BY SMT DEF LongCode, Mantissas
<1>2. c \in FloatCodes
  BY <1>1, SMT DEF FloatCodes
<1>3. c % 4096 = r /\ (c \div 4096) % 8 = e
  <2> HIDE DEF c
  <2>1. QED
    BY <1>1, SMT
<1> HIDE DEF c
<1>4. 2 ^ 12 = 4096
  BY SMT
<1>5. FloatValue(c, 12) = LongValue(e, r)
  BY <1>3, <1>4, SMT DEF FloatValue, LongValue
<1>6. QED
  BY <1>2, <1>5, Zenon DEF c

(* What is in the fields of a code of 16 bits.                             *)
LEMMA MaxRespFields ==
    ASSUME NEW x \in Nat, NEW p \in 15 .. 30, NEW b \in Nat \ {0}, b = 2 ^ (p - 12)
    PROVE  \E e \in 0 .. 7, r \in Mantissas :
              /\ e = (p - 15) % 8 /\ r = (x \div b) % 2 ^ 12
              /\ FloatCode(x, p, 12) = LongCode(e, r)
<1> DEFINE e == (p - 15) % 8
           r == (x \div b) % 4096
<1>1. 2 ^ 12 = 4096 /\ 2 ^ (12 + 3) = 32768
  BY SMT
<1>2. e \in 0 .. 7 /\ p - 12 - 3 = p - 15
  BY SMT
<1>3. x \div b \in Nat
  BY SMT
<1>4. r \in Mantissas
  BY <1>3, SMT DEF Mantissas
<1>5. FloatCode(x, p, 12) = LongCode(e, r)
  BY <1>1, <1>2, SMT DEF FloatCode, LongCode
<1>6. QED
  BY <1>1, <1>2, <1>4, <1>5, SMT

(* qqi_to_qqic and back, for every number of seconds.                      *)
LEMMA QqiRoundsDown ==
    ASSUME NEW x \in Nat
    PROVE  /\ qqi_to_qqic(x) \in 0 .. 255
           /\ qqic_to_qqi(qqi_to_qqic(x)) \in 0 .. x
           /\ x < 2 ^ 15 => 16 * (x - qqic_to_qqi(qqi_to_qqic(x))) <= x
<1>1. CASE x < 128
  BY <1>1 DEF qqi_to_qqic, qqic_to_qqi
<1>2. CASE x >= 128
  <2> DEFINE P == BitsSet(x, 7, 15)
             p == Highest(P)
  <2>1. CASE P = {}
    <3>1. qqi_to_qqic(x) = 0 /\ qqic_to_qqi(0) = 0
      BY <1>2, <2>1, SMT DEF qqi_to_qqic, qqic_to_qqi
    <3>2. ASSUME x < 2 ^ 15 PROVE FALSE
      <4>1. \A q \in 7 .. 15 : (x \div 2 ^ q) % 2 # 1
        BY <2>1 DEF BitsSet
      <4>2. PICK l \in 6 .. 14 : l = 6
        BY SMT
      <4>3. \A q \in l + 1 .. 14 : (x \div 2 ^ q) % 2 # 1
        <5>1. l + 1 .. 14 \subseteq 7 .. 15
          BY <4>2, SMT
        <5>2. QED
          BY <4>1, <5>1, Zenon
      <4>4. x < 2 * 2 ^ l
        BY <3>2, <4>3, QqicTop, Zenon
      <4>5. 2 ^ l = 64
        BY <4>2, SMT
      <4>6. QED
        BY <1>2, <4>4, <4>5, SMT
    <3>3. QED
      BY <3>1, <3>2, SMT
  <2>2. CASE P # {}
    <3>1. P \in SUBSET (7 .. 15)
      BY DEF BitsSet
    <3>2. p \in P /\ \A q \in P : q <= p
      <4> HIDE DEF P
      <4>1. QED
        BY <2>2, <3>1, HighestFound
    <3>3. p \in 7 .. 15 /\ (x \div 2 ^ p) % 2 = 1
      BY <3>2 DEF BitsSet
    <3>4. \A q \in p + 1 .. 15 : (x \div 2 ^ q) % 2 # 1
      BY <3>2, <3>3 DEF BitsSet
    <3>5. qqi_to_qqic(x) = FloatCode(x, p, 4)
      BY <1>2, <2>2 DEF qqi_to_qqic
    <3> HIDE DEF p
    <3>6. CASE p \in 7 .. 14
      <4>1. PICK b \in Nat \ {0} : b = 2 ^ (p - 4)
        BY <3>6, QqicPowers
      <4>2. 16 * b = 2 ^ p /\ 2 ^ (((p - 7) % 8) + 3) = b
        BY <3>6, <4>1, QqicPowers
      <4> DEFINE y == (((x \div b) % 16) + 16) * b
      <4>3. FloatCode(x, p, 4) \in 128 .. 255 /\ FloatValue(FloatCode(x, p, 4), 4) = y
        <5>1. p \in 7 .. 15
          BY <3>6
        <5>2. /\ FloatCode(x, p, 4) \in 128 .. 255
              /\ FloatValue(FloatCode(x, p, 4), 4)
                   = (((x \div b) % 16) + 16) * 2 ^ (((p - 7) % 8) + 3)
          BY <5>1, <4>1, QqicFields, Zenon
        <5>3. QED
          BY <4>2, <5>2, Zenon
      <4>4. y \in 0 .. x /\ (x < 2 * (16 * b) => 16 * (x - y) <= x)
        <5>1. (x \div (16 * b)) % 2 = 1
          BY <3>3, <4>2
        <5>2. 16 \in Nat \ {0}
          OBVIOUS
        <5>3. QED
          BY <5>1, <5>2, RoundDown
      <4>5. x < 2 ^ 15 => x < 2 * (16 * b)
        <5> SUFFICES ASSUME x < 2 ^ 15 PROVE x < 2 * 2 ^ p
          BY <4>2
        <5>1. p \in 6 .. 14 /\ \A q \in p + 1 .. 14 : (x \div 2 ^ q) % 2 # 1
          BY <3>4, <3>6
        <5>2. QED
          BY <5>1, QqicTop, Zenon
      <4> HIDE DEF y
      <4>6. qqic_to_qqi(FloatCode(x, p, 4)) = y
        BY <4>3 DEF qqic_to_qqi
      <4>7. QED
        BY <3>5, <4>3, <4>4, <4>5, <4>6, SMT
    <3>7. CASE p = 15
      <4>1. 2 ^ (p - 4) = 2048 /\ 2 ^ (((p - 7) % 8) + 3) = 8 /\ 2 ^ p = 32768
        BY <3>7, SMT
      <4>2. x >= 32768
        BY <3>3, <4>1, SMT
      <4>3. PICK b \in Nat \ {0} : b = 2 ^ (p - 4)
        BY <4>1, SMT
      <4> DEFINE r == (x \div b) % 16
      <4>4. /\ r \in 0 .. 15
            /\ FloatCode(x, p, 4) \in 128 .. 255
            /\ FloatValue(FloatCode(x, p, 4), 4) = (r + 16) * 8
        <5>1. x \div b \in Nat
          BY SMT
        <5>2. r \in 0 .. 15
          BY <5>1
        <5>3. /\ FloatCode(x, p, 4) \in 128 .. 255
              /\ FloatValue(FloatCode(x, p, 4), 4)
                   = (((x \div b) % 16) + 16) * 2 ^ (((p - 7) % 8) + 3)
          BY <3>3, <4>3, QqicFields, Zenon
        <5>4. 2 ^ (((p - 7) % 8) + 3) = 8
          BY <4>1
        <5>5. QED
          BY <5>2, <5>3, <5>4, Zenon
      <4>5. qqic_to_qqi(FloatCode(x, p, 4)) = (r + 16) * 8
        BY <4>4 DEF qqic_to_qqi
      <4>6. 2 ^ 15 = 32768
        BY SMT
      <4>7. QED
        BY <3>5, <4>2, <4>4, <4>5, <4>6, SMT
    <3>8. QED
      BY <3>3, <3>6, <3>7
  <2>3. QED
    BY <2>1, <2>2
<1>3. QED
  BY <1>1, <1>2
(* Powers of two at the positions where the exponent leaves its field.     *)
LEMMA MaxRespHighPowers ==
    ASSUME NEW p \in 23 .. 30
    PROVE  /\ 2 ^ (p - 12) \in Nat \ {0} /\ 2 ^ p \in Nat /\ 2 ^ p >= 2 ^ 23
           /\ 2 ^ (((p - 15) % 8) + 3) \in 0 .. 1024
<1>1. CASE p = 23
  BY <1>1, SMT
<1>2. CASE p = 24
  BY <1>2, SMT
<1>3. CASE p = 25
  BY <1>3, SMT
<1>4. CASE p = 26
  BY <1>4, SMT
<1>5. CASE p = 27
  BY <1>5, SMT
<1>6. CASE p = 28
  BY <1>6, SMT
<1>7. CASE p = 29
  BY <1>7, SMT
<1>8. CASE p = 30
  BY <1>8, SMT
<1>9. QED
  BY <1>1, <1>2, <1>3, <1>4, <1>5, <1>6, <1>7, <1>8, SMT

(* The codes of 16 bits.                                                   *)
ShortCodes == {c \in Nat : c < 65536}

(* maxrespi_to_maxrespc_mldv2 and back, for every number of milliseconds.  *)
LEMMA MaxRespRoundsDown ==
    ASSUME NEW x \in Nat,
           NEW y, y = maxrespc_mldv2_to_maxrespi(maxrespi_to_maxrespc_mldv2(x))
    PROVE  /\ maxrespi_to_maxrespc_mldv2(x) \in ShortCodes
           /\ y \in 0 .. x
           /\ x < 2 ^ 23 /\ x # 2 ^ 15 - 1 => 4096 * (x - y) <= x
<1>1. CASE x < 32767
  <2>1. maxrespi_to_maxrespc_mldv2(x) = x
    BY <1>1, SMT DEF maxrespi_to_maxrespc_mldv2
  <2>2. y = x
    BY <1>1, <2>1, SMT DEF maxrespc_mldv2_to_maxrespi
  <2>3. QED
    BY <1>1, <2>1, <2>2, SMT DEF ShortCodes
<1>2. CASE x >= 32767
  <2> DEFINE P == BitsSet(x, 15, 30)
             p == Highest(P)
             c == maxrespi_to_maxrespc_mldv2(x)
  <2>1. CASE P = {}
    <3>1. c = 0
      BY <1>2, <2>1, SMT DEF maxrespi_to_maxrespc_mldv2
    <3>2. y = 0
      BY <3>1, SMT DEF maxrespc_mldv2_to_maxrespi
    <3>3. ASSUME x < 2 ^ 23, x # 2 ^ 15 - 1 PROVE FALSE
      <4>1. \A q \in 15 .. 30 : (x \div 2 ^ q) % 2 # 1
        BY <2>1, Zenon DEF BitsSet
      <4>2. PICK l \in 14 .. 22 : l = 14
        BY SMT
      <4>3. \A q \in l + 1 .. 22 : (x \div 2 ^ q) % 2 # 1
        <5>1. l + 1 .. 22 \subseteq 15 .. 30
          BY <4>2, SMT
        <5>2. QED
          BY <4>1, <5>1, Zenon
      <4>4. x < 2 * 2 ^ l
        BY <3>3, <4>3, MaxRespTop, Zenon
      <4>5. 2 ^ l = 16384 /\ 2 ^ 15 - 1 = 32767
        BY <4>2, SMT
      <4>6. QED
        BY <1>2, <3>3, <4>4, <4>5, SMT
    <3>4. QED
      BY <3>1, <3>2, <3>3, SMT DEF ShortCodes
  <2>2. CASE P # {}
    <3>1. P \in SUBSET (15 .. 30)
      BY SMT DEF BitsSet
    <3>2. p \in P /\ \A q \in P : q <= p
      <4>1. 15 \in Nat /\ 30 \in Nat
        BY SMT
      <4> HIDE DEF P
      <4>2. QED
        BY <2>2, <3>1, <4>1, HighestFound, Zenon
    <3>3. p \in 15 .. 30 /\ (x \div 2 ^ p) % 2 = 1
      BY <3>2, Zenon DEF BitsSet
    <3>4. \A q \in p + 1 .. 30 : (x \div 2 ^ q) % 2 # 1
      BY <3>2, <3>3, SMT DEF BitsSet
    <3>5. c = FloatCode(x, p, 12)
      BY <1>2, <2>2, SMT DEF maxrespi_to_maxrespc_mldv2
    <3> HIDE DEF p, P
    <3>6. PICK b \in Nat \ {0} : b = 2 ^ (p - 12)
      <4>1. CASE p \in 15 .. 22
        BY <4>1, MaxRespPowers, Zenon
      <4>2. CASE p \in 23 .. 30
        BY <4>2, MaxRespHighPowers, Zenon
      <4>3. QED
        BY <3>3, <4>1, <4>2, SMT
    <3>7. PICK e \in 0 .. 7, r \in Mantissas :
              /\ e = (p - 15) % 8 /\ r = (x \div b) % 2 ^ 12
              /\ FloatCode(x, p, 12) = LongCode(e, r)
      BY <3>3, <3>6, MaxRespFields, Zenon
    <3>8. c \in FloatCodes /\ y = LongValue(e, r)
      <4>1. c \in FloatCodes /\ FloatValue(c, 12) = LongValue(e, r)
        BY <3>5, <3>7, LongCodeFields, Zenon
      <4> HIDE DEF c
      <4>2. y = maxrespc_mldv2_to_maxrespi(c)
        BY DEF c
      <4>3. QED
        BY <4>1, <4>2, SMT DEF maxrespc_mldv2_to_maxrespi, FloatCodes
    <3>9. c \in ShortCodes
      BY <3>8, SMT DEF FloatCodes, ShortCodes
    <3>10. y = (r + 2 ^ 12) * 2 ^ (((p - 15) % 8) + 3) /\ r \in 0 .. 4095
      BY <3>7, <3>8, SMT DEF LongValue, Mantissas
    <3>11. CASE p \in 15 .. 22
      <4>1. 2 ^ 12 * b = 2 ^ p /\ 2 ^ (((p - 15) % 8) + 3) = b
        BY <3>6, <3>11, MaxRespPowers, Zenon
      <4>2. PICK M \in Nat \ {0} : M = 2 ^ 12
        BY SMT
      <4>3. y = (((x \div b) % M) + M) * b
        <5>1. r = (x \div b) % M
          BY <3>7, <4>2, Zenon
        <5>2. y = (r + M) * b
          <6>1. y = (r + 2 ^ 12) * 2 ^ (((p - 15) % 8) + 3)
            BY <3>10, SMT
          <6>2. QED
            BY <4>1, <4>2, <6>1, Zenon
        <5>3. QED
          BY <5>1, <5>2, Zenon
      <4>4. (x \div (M * b)) % 2 = 1
        BY <3>3, <4>1, <4>2, Zenon
      <4>5. y \in 0 .. x /\ (x < 2 * (M * b) => M * (x - y) <= x)
        BY <4>3, <4>4, RoundDown, Zenon
      <4>6. x < 2 ^ 23 => x < 2 * (M * b)
        <5> SUFFICES ASSUME x < 2 ^ 23 PROVE x < 2 * 2 ^ p
          BY <4>1, <4>2, SMT
        <5>1. p \in 14 .. 22 /\ \A q \in p + 1 .. 22 : (x \div 2 ^ q) % 2 # 1
          BY <3>4, <3>11, SMT
        <5>2. QED
          BY <5>1, MaxRespTop, Zenon
      <4>7. x < 2 ^ 23 => 4096 * (x - y) <= x
        BY <4>2, <4>5, <4>6, SMT
      <4>8. QED
        BY <3>9, <4>5, <4>7, SMT
    <3>12. CASE p \in 23 .. 30
      <4>1. PICK k \in 0 .. 1024 : k = 2 ^ (((p - 15) % 8) + 3)
        BY <3>12, MaxRespHighPowers, Zenon
      <4>2. y = (r + 4096) * k
        <5>1. y = (r + 2 ^ 12) * 2 ^ (((p - 15) % 8) + 3)
          BY <3>10, SMT
        <5>2. y = (r + 2 ^ 12) * k
          BY <4>1, <5>1, Zenon
        <5>3. QED
          BY <5>2, SMT
      <4>3. PICK n \in Nat : n = 2 ^ p
        BY <3>12, MaxRespHighPowers, Zenon
      <4>4. n >= 8388608
        <5>1. n >= 2 ^ 23
          BY <3>12, <4>3, MaxRespHighPowers, Zenon
        <5>2. QED
          BY <5>1, SMT
      <4>5. (x \div n) % 2 = 1
        BY <3>3, <4>3, Zenon
      <4>6. x >= n
        BY <4>4, <4>5, SMT
      <4>7. y \in Nat /\ y <= 8387584
        <5>1. r + 4096 \in Nat /\ r + 4096 <= 8191
          BY <3>10, SMT
        <5>2. y \in Nat /\ y <= 8191 * k /\ 8191 * k \in Nat
          BY <4>2, <5>1, SMT
        <5>3. 8191 * k <= 8387584
          BY SMT
        <5>4. QED
          BY <5>2, <5>3, SMT
      <4>8. 2 ^ 23 = 8388608
        BY SMT
      <4>9. QED
        BY <3>9, <4>4, <4>6, <4>7, <4>8, SMT
    <3>13. QED
      BY <3>3, <3>11, <3>12, SMT
  <2>3. QED
    BY <2>1, <2>2
<1>3. QED
  BY <1>1, <1>2, SMT
(* maxrespi_to_maxrespc_igmpv3 and back, for every number of milliseconds. *)
LEMMA CentiRoundsDown ==
    ASSUME NEW x \in Nat,
           NEW y, y = maxrespc_igmpv3_to_maxrespi(maxrespi_to_maxrespc_igmpv3(x))
    PROVE  /\ maxrespi_to_maxrespc_igmpv3(x) \in 0 .. 255
           /\ y \in 0 .. x
           /\ x < 100 * 2 ^ 15 => 16 * (x - y) <= x + 1600
<1>1. PICK s \in Nat : s = x \div 100
  OBVIOUS
<1>2. 100 * s <= x /\ x < 100 * s + 100
  BY <1>1
<1> DEFINE w == qqic_to_qqi(qqi_to_qqic(s))
<1>3. qqi_to_qqic(s) \in 0 .. 255 /\ w \in 0 .. s /\ (s < 2 ^ 15 => 16 * (s - w) <= s)
  BY QqiRoundsDown, Zenon
<1>4. maxrespi_to_maxrespc_igmpv3(x) = qqi_to_qqic(s)
  BY <1>1, Zenon DEF maxrespi_to_maxrespc_igmpv3
<1>5. y = w * 100
  BY <1>4, Zenon DEF maxrespc_igmpv3_to_maxrespi
<1> HIDE DEF w
<1>6. y \in 0 .. x
  BY <1>2, <1>3, <1>5
<1>7. ASSUME x < 100 * 2 ^ 15 PROVE 16 * (x - y) <= x + 1600
  <2>1. s < 2 ^ 15
    BY <1>2, <1>7, SMT
  <2>2. 16 * (s - w) <= s
    BY <1>3, <2>1, Zenon
  <2>3. QED
    BY <1>2, <1>3, <1>5, <2>2, SMT
<1>8. QED
  BY <1>3, <1>4, <1>6, <1>7, Zenon

(* Every code of 16 bits fits its field.                                   *)
LEMMA ShortCodesFit ==
    ASSUME NEW c \in ShortCodes PROVE c \in 0 .. 2 ^ 16 - 1
<1>1. PICK hi \in Int : hi = 2 ^ 16 - 1
  BY SMT
<1>2. c \in Nat /\ c < 65536
  BY SMT DEF ShortCodes
<1>3. c <= hi
  BY <1>1, <1>2, SMT
<1>4. c \in 0 .. hi
  BY <1>2, <1>3, SMT
<1>5. QED
  BY <1>1, <1>4, Zenon

(* What a listener may read from a query that was made for x milliseconds, *)
(* in either protocol.                                                     *)
LEMMA AnnouncedTime ==
    ASSUME protocol \in Protocols, NEW x \in Nat,
           NEW q, q.code = MaxRespCode(x),
           NEW y, y = MaxRespTime(q)
    PROVE  /\ MaxRespCode(x) \in ShortCodes
           /\ y \in 0 .. x
           /\ protocol = "IGMPv3" /\ x < 100 * 2 ^ 15 => 16 * (x - y) <= x + 1600
           /\ protocol = "MLDv2" /\ x < 2 ^ 23 /\ x # 2 ^ 15 - 1 => 4096 * (x - y) <= x
<1>1. protocol = "IGMPv3" \/ protocol = "MLDv2"
  BY QueriesAssumption
<1>2. "IGMPv3" # "MLDv2"
  OBVIOUS
<1>3. CASE protocol = "IGMPv3"
  <2>1. MaxRespCode(x) = maxrespi_to_maxrespc_igmpv3(x)
    BY <1>3, SMT DEF MaxRespCode
  <2>2. y = maxrespc_igmpv3_to_maxrespi(maxrespi_to_maxrespc_igmpv3(x))
    BY <1>3, <2>1, SMT DEF MaxRespTime
  <2>3. /\ maxrespi_to_maxrespc_igmpv3(x) \in 0 .. 255
        /\ y \in 0 .. x
        /\ x < 100 * 2 ^ 15 => 16 * (x - y) <= x + 1600
    BY <2>2, CentiRoundsDown, SMT
  <2>4. MaxRespCode(x) \in ShortCodes
    BY <2>1, <2>3, SMT DEF ShortCodes
  <2>5. protocol # "MLDv2"
    BY <1>2, <1>3
  <2>6. QED
    BY <2>3, <2>4, <2>5, SMT
<1>4. CASE protocol = "MLDv2"
  <2>1. MaxRespCode(x) = maxrespi_to_maxrespc_mldv2(x)
    BY <1>2, <1>4, Zenon DEF MaxRespCode
  <2>2. y = maxrespc_mldv2_to_maxrespi(maxrespi_to_maxrespc_mldv2(x))
    BY <1>2, <1>4, <2>1, Zenon DEF MaxRespTime
  <2>3. /\ maxrespi_to_maxrespc_mldv2(x) \in ShortCodes
        /\ y \in 0 .. x
        /\ x < 2 ^ 23 /\ x # 2 ^ 15 - 1 => 4096 * (x - y) <= x
    <3>1. /\ maxrespi_to_maxrespc_mldv2(x) \in ShortCodes
          /\ y \in 0 .. x
      BY <2>2, MaxRespRoundsDown, SMT
    <3>2. x < 2 ^ 23 /\ x # 2 ^ 15 - 1 => 4096 * (x - y) <= x
      BY <2>2, MaxRespRoundsDown, SMT
    <3>3. QED
      BY <3>1, <3>2, SMT
  <2>4. protocol # "IGMPv3"
    BY <1>2, <1>4
  <2>5. QED
    BY <2>1, <2>3, <2>4, SMT
<1>5. QED
  BY <1>1, <1>3, <1>4, SMT

(* The codes round down for every interval, in any state.                  *)
LEMMA EveryCodeRoundsDown ==
    ASSUME protocol \in Protocols PROVE CodesRoundDown
<1> SUFFICES ASSUME NEW x \in Intervals
             PROVE  /\ LET y == qqic_to_qqi(qqi_to_qqic(x))
                       IN  y <= x /\ (x < 32768 => 16 * (x - y) <= x)
                    /\ LET y == MaxRespTime([code |-> MaxRespCode(x)])
                       IN  /\ y <= x
                           /\ protocol = "IGMPv3" /\ x < 3276800 => 16 * (x - y) <= x + 1600
                           /\ protocol = "MLDv2" /\ x < 8388608 /\ x # 32767 =>
                                 4096 * (x - y) <= x
  BY SMT DEF CodesRoundDown
<1>1. x \in Nat
  BY QueriesAssumption
<1>2. PICK y : y = qqic_to_qqi(qqi_to_qqic(x))
  OBVIOUS
<1>3. y <= x /\ (x < 32768 => 16 * (x - y) <= x)
  <2>1. y \in 0 .. x /\ (x < 2 ^ 15 => 16 * (x - y) <= x)
    BY <1>1, <1>2, QqiRoundsDown, Zenon
  <2>2. QED
    BY <1>1, <2>1, SMT
<1>4. PICK q : q = [code |-> MaxRespCode(x)]
  OBVIOUS
<1>5. q.code = MaxRespCode(x)
  BY <1>4
<1>6. PICK z : z = MaxRespTime(q)
  OBVIOUS
<1>7. z \in 0 .. x
  BY <1>1, <1>5, <1>6, AnnouncedTime, SMT
<1>8. protocol = "IGMPv3" /\ x < 100 * 2 ^ 15 => 16 * (x - z) <= x + 1600
  BY <1>1, <1>5, <1>6, AnnouncedTime, SMT
<1>9. protocol = "MLDv2" /\ x < 2 ^ 23 /\ x # 2 ^ 15 - 1 => 4096 * (x - z) <= x
  BY <1>1, <1>5, <1>6, AnnouncedTime, SMT
<1>10. /\ z <= x
       /\ protocol = "IGMPv3" /\ x < 3276800 => 16 * (x - z) <= x + 1600
       /\ protocol = "MLDv2" /\ x < 8388608 /\ x # 32767 => 4096 * (x - z) <= x
  BY <1>1, <1>7, <1>8, <1>9, SMT
<1>11. QED
  BY <1>2, <1>3, <1>4, <1>6, <1>10, SMT
(***************************************************************************)
(* The timers and values                                                   *)
(***************************************************************************)
(* The chosen values are values.                                           *)
LEMMA ChosenTank ==
    ASSUME ControlOK PROVE choice.tank \in Tank /\ choice.setters \in BOOLEAN
  BY QueriesAssumption DEF ControlOK, Choice

(* The running querier works with the chosen values.                       *)
LEMMA ChosenValues ==
    ASSUME ValuesOK, querier = "running" PROVE Tv = choice.tank
  BY DEF ValuesOK, ObjectOK, Tv

(* The values in the static tank, and those of a tank that was freed.      *)
LEMMA ConstantTanks == default_timers_values_tank \in Tank /\ NoTank \in Tank
  BY SMT DEF default_timers_values_tank, NoTank, Tank

(* The part of the invariant that is about the objects that exist.         *)
ObjectsOK ==
    /\ DOMAIN tanks \subseteq 0 .. 3 /\ 0 \in DOMAIN tanks
    /\ tanks[0] = default_timers_values_tank
    /\ \A k \in DOMAIN tanks : tanks[k] \in Tank
    /\ DOMAIN objects \subseteq Holders
    /\ \A h \in DOMAIN objects : ObjectOK(objects[h])
    /\ \A h, k \in DOMAIN objects : objects[h].tank = objects[k].tank => h = k \/ objects[h].tank = 0

(* timers_values::operator= gives the copy a tank of its own.              *)
LEMMA CopyOK ==
    ASSUME ObjectsOK, NEW holder \in Holders, NEW s \in DOMAIN objects,
           \E k \in 1 .. 3 : k \notin DOMAIN tanks,
           choice' = choice, copy(holder, objects[s])
    PROVE  /\ ObjectsOK'
           /\ DOMAIN objects' = DOMAIN objects \cup {holder}
           /\ \E k \in 0 .. 3 : DOMAIN tanks' = DOMAIN tanks \cup {k}
<1> DEFINE src == objects[s]
           o == IF src.is_default_timers_values_tank THEN DefaultObject
                ELSE [is_default_timers_values_tank |-> FALSE, tank |-> FreeTank]
<1>1. ObjectOK(src)
  BY DEF ObjectsOK
<1>2. FreeTank \in 1 .. 3 /\ FreeTank \notin DOMAIN tanks
  BY DEF FreeTank
<1>3. /\ o \in Object
      /\ o.is_default_timers_values_tank <=> o.tank = 0
      /\ o.tank = 0 \/ o.tank \notin DOMAIN tanks
      /\ o.tank = 0 <=> src.tank = 0
  <2>1. CASE src.is_default_timers_values_tank
    <3>1. o = DefaultObject /\ src.tank = 0
      BY <1>1, <2>1 DEF ObjectOK
    <3>2. QED
      BY <3>1 DEF DefaultObject, Object
  <2>2. CASE ~src.is_default_timers_values_tank
    <3>1. o = [is_default_timers_values_tank |-> FALSE, tank |-> FreeTank] /\ src.tank # 0
      BY <1>1, <2>2 DEF ObjectOK
    <3>2. FreeTank \in 0 .. 3 /\ FreeTank # 0
      BY <1>2
    <3>3. [is_default_timers_values_tank |-> FALSE, tank |-> FreeTank] \in Object
      BY <3>2 DEF Object
    <3> HIDE DEF o
    <3>4. o \in Object /\ o.is_default_timers_values_tank = FALSE /\ o.tank = FreeTank
      BY <3>1, <3>3
    <3>5. QED
      BY <1>2, <3>1, <3>2, <3>4
  <2>3. QED
    BY <2>1, <2>2
<1>4. /\ objects' = [h \in DOMAIN objects \cup {holder} |-> IF h = holder THEN o ELSE objects[h]]
      /\ tanks' = [k \in DOMAIN tanks \cup {o.tank} |->
                     IF k \in DOMAIN tanks THEN tanks[k] ELSE tanks[src.tank]]
  BY Zenon DEF copy
<1> HIDE DEF o, src
<1>5. PICK n : n = o
  OBVIOUS
<1>6. /\ DOMAIN objects' = DOMAIN objects \cup {holder}
      /\ DOMAIN tanks' = DOMAIN tanks \cup {n.tank}
      /\ \A h \in DOMAIN objects : h # holder => objects'[h] = objects[h]
      /\ objects'[holder] = n
      /\ \A k \in DOMAIN tanks : tanks'[k] = tanks[k]
      /\ tanks'[n.tank] = tanks[src.tank]
  BY <1>3, <1>4, <1>5 DEF ObjectsOK
<1>7. n.tank \in 0 .. 3
  BY <1>3, <1>5 DEF Object
<1>8. ObjectOK(n)'
  BY <1>1, <1>3, <1>6, <1>5 DEF ObjectOK
<1>9. ASSUME NEW h \in DOMAIN objects' PROVE ObjectOK(objects[h])'
  <2>1. CASE h = holder
    BY <1>6, <1>8, <2>1
  <2>2. CASE h # holder
    BY <1>6, <2>2 DEF ObjectOK, ObjectsOK
  <2>3. QED
    BY <2>1, <2>2
<1>10. ASSUME NEW h \in DOMAIN objects', NEW k \in DOMAIN objects',
             objects'[h].tank = objects'[k].tank
      PROVE  h = k \/ objects'[h].tank = 0
  <2>1. CASE h = holder
    BY <1>3, <1>6, <1>5, <1>10, <2>1 DEF ObjectsOK, ObjectOK
  <2>2. CASE k = holder
    BY <1>3, <1>6, <1>5, <1>10, <2>2 DEF ObjectsOK, ObjectOK
  <2>3. CASE h # holder /\ k # holder
    BY <1>6, <1>10, <2>3 DEF ObjectsOK
  <2>4. QED
    BY <2>1, <2>2, <2>3
<1>11. /\ DOMAIN tanks' \subseteq 0 .. 3 /\ 0 \in DOMAIN tanks'
       /\ tanks'[0] = default_timers_values_tank
       /\ DOMAIN objects' \subseteq Holders
  BY <1>6, <1>7 DEF ObjectsOK
<1>12. \A k \in DOMAIN tanks' : tanks'[k] \in Tank
  BY <1>1, <1>6 DEF ObjectsOK, ObjectOK
<1>13. QED
  BY <1>6, <1>7, <1>9, <1>10, <1>11, <1>12 DEF ObjectsOK

(* reset_to_default_tank frees no tank that another object uses.           *)
LEMMA DestroyedOK ==
    ASSUME ObjectsOK, NEW holder \in DOMAIN objects, choice' = choice, Destroyed(holder)
    PROVE  /\ ObjectsOK'
           /\ DOMAIN objects' = DOMAIN objects \ {holder}
           /\ DOMAIN tanks' = DOMAIN tanks
<1> DEFINE o == objects[holder]
<1>1. ObjectOK(o)
  BY DEF ObjectsOK
<1>2. /\ objects' = [h \in DOMAIN objects \ {holder} |-> objects[h]]
      /\ tanks' = IF o.is_default_timers_values_tank THEN tanks
                  ELSE [tanks EXCEPT ![o.tank] = NoTank]
  BY Zenon DEF Destroyed
<1>3. /\ DOMAIN objects' = DOMAIN objects \ {holder}
      /\ \A h \in DOMAIN objects' : objects'[h] = objects[h] /\ h # holder
  BY <1>2
<1>4. /\ DOMAIN tanks' = DOMAIN tanks
      /\ \A k \in DOMAIN tanks : k # o.tank \/ k = 0 => tanks'[k] = tanks[k]
      /\ \A k \in DOMAIN tanks : tanks'[k] = tanks[k] \/ tanks'[k] = NoTank
  <2>1. CASE o.is_default_timers_values_tank
    <3>1. tanks' = tanks
      BY <1>2, <2>1
    <3>2. QED
      BY <3>1
  <2>2. CASE ~o.is_default_timers_values_tank
    <3>1. tanks' = [tanks EXCEPT ![o.tank] = NoTank] /\ o.tank # 0 /\ o.tank \in DOMAIN tanks
      BY <1>1, <1>2, <2>2 DEF ObjectOK
    <3>2. QED
      BY <3>1
  <2>3. QED
    BY <2>1, <2>2
<1>5. ASSUME NEW h \in DOMAIN objects' PROVE ObjectOK(objects[h])'
  <2>1. /\ h \in DOMAIN objects /\ h # holder /\ objects'[h] = objects[h]
        /\ ObjectOK(objects[h])
    BY <1>3 DEF ObjectsOK
  <2>2. objects[h].tank # o.tank \/ objects[h].tank = 0
    BY <2>1 DEF ObjectsOK
  <2>3. QED
    BY <1>4, <2>1, <2>2 DEF ObjectOK
<1>6. \A k \in DOMAIN tanks' : tanks'[k] \in Tank
  BY <1>4, ConstantTanks DEF ObjectsOK
<1>7. /\ DOMAIN tanks' \subseteq 0 .. 3 /\ 0 \in DOMAIN tanks'
      /\ tanks'[0] = default_timers_values_tank
      /\ DOMAIN objects' \subseteq Holders
  BY <1>3, <1>4 DEF ObjectsOK
<1>8. \A h, k \in DOMAIN objects' :
          objects'[h].tank = objects'[k].tank => h = k \/ objects'[h].tank = 0
  BY <1>3 DEF ObjectsOK
<1>9. QED
  BY <1>3, <1>4, <1>5, <1>6, <1>7, <1>8 DEF ObjectsOK
(* Where the objects are before there is a querier.                        *)
HoldersOK ==
    /\ querier = "none" => \/ DOMAIN objects = {} /\ DOMAIN tanks = {0}
                           \/ DOMAIN objects = {"tv"} /\ DOMAIN tanks \subseteq {0, 1}
                           \/ "msg" \in DOMAIN objects /\ \E k \in 1 .. 3 : k \notin DOMAIN tanks
    /\ querier = "running" => "querier" \in DOMAIN objects

(* The two parts make up the invariant of the values.                      *)
LEMMA ValuesParts == ValuesOK <=> ObjectsOK /\ HoldersOK
  BY DEF ValuesOK, ObjectsOK, HoldersOK

(* At the start there is only the static tank.                             *)
LEMMA ValuesInit == Init => ValuesOK
<1> SUFFICES ASSUME Init PROVE ValuesOK
  OBVIOUS
<1>1. DOMAIN tanks = {0} /\ tanks[0] = default_timers_values_tank /\ DOMAIN objects = {}
  BY DEF Init
<1>2. querier = "none"
  BY DEF Init
<1>3. QED
  BY <1>1, <1>2, ConstantTanks DEF ValuesOK

(* The caller sets the values.                                             *)
LEMMA ConfigureValues ==
    ASSUME ValuesOK, ControlOK, Configure PROVE ValuesOK'
<1>1. /\ choice' = choice /\ querier' = querier /\ querier = "none"
      /\ DOMAIN objects = {} /\ DOMAIN tanks = {0} /\ tanks[0] = default_timers_values_tank
  BY DEF Configure, cycle, ValuesOK
<1>2. PICK n : n = [is_default_timers_values_tank |-> ~choice.setters,
                    tank |-> IF choice.setters THEN 1 ELSE 0]
  OBVIOUS
<1>3. DOMAIN objects' = {"tv"} /\ objects'["tv"] = n
  BY <1>2 DEF Configure
<1>4. CASE choice.setters
  <2>1. tanks' = [k \in {0, 1} |-> IF k = 0 THEN tanks[0] ELSE choice.tank]
    BY <1>4, Zenon DEF Configure
  <2>2. DOMAIN tanks' = {0, 1} /\ tanks'[0] = default_timers_values_tank /\ tanks'[1] = choice.tank
    BY <1>1, <2>1
  <2>3. n \in Object /\ n.tank = 1 /\ ~n.is_default_timers_values_tank
    <3>1. n = [is_default_timers_values_tank |-> FALSE, tank |-> 1]
      <4>1. ~choice.setters = FALSE
        BY <1>4, Zenon
      <4>2. QED
        BY <1>2, <1>4, <4>1, Zenon
    <3>2. [is_default_timers_values_tank |-> FALSE, tank |-> 1] \in Object
      BY DEF Object
    <3>3. QED
      BY <3>1, <3>2
  <2>4. ObjectOK(n)'
    BY <1>1, <2>2, <2>3 DEF ObjectOK
  <2>5. QED
    BY <1>1, <1>3, <2>2, <2>4, ChosenTank, ConstantTanks DEF ValuesOK, Holders
<1>5. CASE ~choice.setters
  <2>1. tanks' = tanks
    BY <1>5 DEF Configure
  <2>2. DOMAIN tanks' = {0} /\ tanks'[0] = default_timers_values_tank
    BY <1>1, <2>1
  <2>3. choice.tank = default_timers_values_tank
    BY <1>5, QueriesAssumption DEF ControlOK
  <2>4. n \in Object /\ n.tank = 0 /\ n.is_default_timers_values_tank
    <3>1. n = [is_default_timers_values_tank |-> TRUE, tank |-> 0]
      BY <1>2, <1>5, Zenon
    <3>2. [is_default_timers_values_tank |-> TRUE, tank |-> 0] \in Object
      BY DEF Object
    <3>3. QED
      BY <3>1, <3>2
  <2>5. ObjectOK(n)'
    BY <1>1, <2>2, <2>3, <2>4 DEF ObjectOK
  <2>6. QED
    BY <1>1, <1>3, <2>2, <2>5, ConstantTanks DEF ValuesOK, Holders
<1>6. QED
  BY <1>4, <1>5

(* The message takes a copy.                                               *)
LEMMA SendConfigValues ==
    ASSUME ValuesOK, SendConfig PROVE ValuesOK'
<1>1. /\ choice' = choice /\ querier' = querier /\ querier = "none"
      /\ "tv" \in DOMAIN objects /\ "msg" \notin DOMAIN objects
      /\ copy("msg", objects["tv"])
  BY DEF SendConfig, cycle
<1>2. ObjectsOK /\ HoldersOK
  BY ValuesParts
<1>3. DOMAIN tanks \subseteq {0, 1}
  BY <1>1, <1>2 DEF HoldersOK
<1>4. \E k \in 1 .. 3 : k \notin DOMAIN tanks
  <2>1. 2 \in 1 .. 3 /\ 2 \notin DOMAIN tanks
    BY <1>3
  <2>2. QED
    BY <2>1
<1>5. "msg" \in Holders
  BY DEF Holders
<1>6. /\ ObjectsOK'
      /\ DOMAIN objects' = DOMAIN objects \cup {"msg"}
      /\ \E k \in 0 .. 3 : DOMAIN tanks' = DOMAIN tanks \cup {k}
  BY <1>1, <1>2, <1>4, <1>5, CopyOK, Zenon
<1>7. PICK k \in 0 .. 3 : DOMAIN tanks' = DOMAIN tanks \cup {k}
  BY <1>6
<1>8. \E j \in 1 .. 3 : j \notin DOMAIN tanks'
  <2>1. 2 \in 1 .. 3 /\ 3 \in 1 .. 3
    OBVIOUS
  <2>2. 2 \notin DOMAIN tanks' \/ 3 \notin DOMAIN tanks'
    BY <1>3, <1>7
  <2>3. QED
    BY <2>1, <2>2
<1>9. HoldersOK'
  BY <1>1, <1>6, <1>8 DEF HoldersOK
<1>10. QED
  BY <1>6, <1>9, ValuesParts DEF ValuesOK, ObjectsOK, HoldersOK

(* An object ends.                                                         *)
LEMMA DestroyValues ==
    ASSUME ValuesOK, NEW h \in Holders, Destroy(h) PROVE ValuesOK'
<1>1. /\ choice' = choice /\ querier' = querier /\ h \in DOMAIN objects /\ Destroyed(h)
      /\ \/ h = "tv" /\ ("msg" \in DOMAIN objects \/ querier # "none")
         \/ h = "msg" /\ querier # "none"
  BY DEF Destroy, cycle
<1>2. ObjectsOK /\ HoldersOK
  BY ValuesParts
<1>3. ObjectsOK' /\ DOMAIN objects' = DOMAIN objects \ {h} /\ DOMAIN tanks' = DOMAIN tanks
  BY <1>1, <1>2, DestroyedOK
<1>4. HoldersOK'
  BY <1>1, <1>2, <1>3 DEF HoldersOK
<1>5. QED
  BY <1>3, <1>4 DEF ValuesOK, ObjectsOK, HoldersOK

(* The querier takes a copy, or its constructor throws.                    *)
LEMMA ConstructValues ==
    ASSUME ValuesOK, Construct PROVE ValuesOK'
<1>1. choice' = choice /\ querier = "none" /\ "msg" \in DOMAIN objects
  BY DEF Construct
<1>2. ObjectsOK /\ HoldersOK
  BY ValuesParts
<1>3. \E k \in 1 .. 3 : k \notin DOMAIN tanks
  BY <1>1, <1>2 DEF HoldersOK
<1>4. CASE copy("querier", objects["msg"]) /\ querier' = "running"
  <2>1. "querier" \in Holders
    BY DEF Holders
  <2>2. ObjectsOK' /\ DOMAIN objects' = DOMAIN objects \cup {"querier"}
    BY <1>1, <1>2, <1>3, <1>4, <2>1, CopyOK, Zenon
  <2>3. HoldersOK'
    BY <1>4, <2>2 DEF HoldersOK
  <2>4. QED
    BY <2>2, <2>3 DEF ValuesOK, ObjectsOK, HoldersOK
<1>5. CASE querier' = "failed" /\ UNCHANGED <<tanks, objects>>
  BY <1>1, <1>5 DEF ValuesOK, ObjectOK
<1>6. QED
  BY <1>4, <1>5 DEF Construct

(* The running querier leaves them alone.                                  *)
LEMMA UnchangedValues ==
    ASSUME ValuesOK, UNCHANGED <<values, querier>> PROVE ValuesOK'
  BY DEF ValuesOK, ObjectOK, values

(* Every step preserves it.                                                *)
LEMMA ValuesStep ==
    ASSUME ValuesOK, ControlOK, [Next]_vars PROVE ValuesOK'
<1>1. CASE Configure
  BY <1>1, ConfigureValues
<1>2. CASE SendConfig
  BY <1>2, SendConfigValues
<1>3. CASE \E h \in Holders : Destroy(h)
  BY <1>3, DestroyValues
<1>4. CASE Construct
  BY <1>4, ConstructValues
<1>5. CASE timer_triggerd_general_query_timer \/ Answer \/ OtherLeaves
             \/ timer_triggerd_ret_group_timer \/ Tick \/ UNCHANGED vars
  <2>1. UNCHANGED <<values, querier>>
    BY <1>5 DEF timer_triggerd_general_query_timer, Answer, OtherLeaves,
                timer_triggerd_ret_group_timer, Tick, vars, cycle
  <2>2. QED
    BY <2>1, UnchangedValues
<1>6. QED
  BY <1>1, <1>2, <1>3, <1>4, <1>5 DEF Next
(***************************************************************************)
(* Ticks                                                                   *)
(***************************************************************************)
(* The fields of a tank are numbers, and so are the times made of them.    *)
LEMMA TankFields ==
    ASSUME NEW t \in Tank
    PROVE  /\ t.robustness_variable \in Nat /\ t.query_interval \in Nat
           /\ t.query_response_interval \in Nat /\ t.startup_query_interval \in Nat
           /\ t.startup_query_count \in Nat /\ t.last_listener_query_interval \in Nat
           /\ t.last_listener_query_count \in Nat
           /\ get_last_listener_query_time(t) \in Nat
           /\ get_multicast_address_listening_interval(t) \in Nat
<1>1. /\ t.robustness_variable \in Nat /\ t.query_interval \in Nat
      /\ t.query_response_interval \in Nat /\ t.startup_query_interval \in Nat
      /\ t.startup_query_count \in Nat /\ t.last_listener_query_interval \in Nat
      /\ t.last_listener_query_count \in Nat
  BY DEF Tank
<1>2. \A i, j \in Nat : i * j \in Nat
  OBVIOUS
<1>3. get_last_listener_query_time(t) \in Nat
  BY <1>1, <1>2 DEF get_last_listener_query_time
<1>4. 1000 * t.query_interval \in Nat
  BY <1>1
<1>5. get_multicast_address_listening_interval(t) \in Nat
  <2>1. t.robustness_variable * (1000 * t.query_interval) \in Nat
    BY <1>1, <1>2, <1>4
  <2>2. QED
    BY <1>1, <2>1 DEF get_multicast_address_listening_interval
<1>6. QED
  BY <1>1, <1>3, <1>5

(* Milliseconds in ticks.                                                  *)
LEMMA TicksNat == ASSUME NEW m \in Nat PROVE Ticks(m) \in Nat
  BY QueriesAssumption DEF Ticks

(* A shorter time has no more ticks.                                       *)
LEMMA TicksGrow ==
    ASSUME NEW a \in Int, NEW c \in Int, a <= c, NEW m \in Nat \ {0}
    PROVE  a \div m <= c \div m /\ a \div m \in Int /\ c \div m \in Int
  OBVIOUS

(* A number of milliseconds that is a number of ticks.                     *)
LEMMA WholeTicks ==
    ASSUME NEW a \in Nat, NEW m \in Nat \ {0}, a % m = 0
    PROVE  \E k \in Nat : a = m * k /\ a \div m = k /\ (a > 0 => k > 0 /\ (a - 1) \div m = k - 1)
<1>1. PICK k \in Nat : k = a \div m
  OBVIOUS
<1>2. a = m * k
  BY <1>1
<1>3. a > 0 => k > 0
  BY <1>2
<1>4. ASSUME a > 0 PROVE (a - 1) \div m = k - 1
  <2>1. a - 1 = m * (k - 1) + (m - 1)
    BY <1>2
  <2>2. k - 1 \in Int /\ m - 1 \in 0 .. m - 1
    OBVIOUS
  <2>3. QED
    BY <2>1, <2>2
<1>5. QED
  BY <1>1, <1>2, <1>3, <1>4

(* A number of ticks.                                                      *)
LEMMA TicksOf ==
    ASSUME NEW k \in Nat, NEW m \in Nat \ {0}
    PROVE  (m * k) \div m = k
  OBVIOUS

(***************************************************************************)
(* The control                                                             *)
(***************************************************************************)
(* What is in a query, and what a listener reads from it.                  *)
LEMMA QueryOK ==
    ASSUME protocol \in Protocols, NEW t \in Tank, NEW general \in BOOLEAN,
           NEW m, m = IF general THEN t.query_response_interval
                                 ELSE get_last_listener_query_time(t)
    PROVE  /\ QueryMessage(t, general) \in Queries
           /\ m \in Nat /\ MaxRespTime(QueryMessage(t, general)) \in 0 .. m
<1>1. m \in Nat
  BY TankFields
<1>2. PICK q : q = QueryMessage(t, general)
  OBVIOUS
<1>3. /\ q.code = MaxRespCode(m)
      /\ q = [dst |-> q.dst, code |-> q.code, qrv |-> q.qrv, qqic |-> q.qqic]
      /\ q.dst = (IF general THEN "all_hosts" ELSE "group")
      /\ q.qrv = (IF t.robustness_variable <= 7 THEN t.robustness_variable ELSE 0)
      /\ q.qqic = qqi_to_qqic(t.query_interval)
  BY <1>2 DEF QueryMessage
<1>4. PICK y : y = MaxRespTime(q)
  OBVIOUS
<1>5. MaxRespCode(m) \in ShortCodes /\ y \in 0 .. m
  BY <1>1, <1>3, <1>4, AnnouncedTime, SMT
<1>6. q.code \in 0 .. 2 ^ 16 - 1
  BY <1>3, <1>5, ShortCodesFit, Zenon
<1>7. q.qqic \in 0 .. 255
  BY <1>3, TankFields, QqiRoundsDown, SMT
<1>8. q.qrv \in 0 .. 7
  BY <1>3, TankFields, SMT
<1>9. q.dst \in {"all_hosts", "group"}
  BY <1>3, SMT
<1>10. q \in Queries
  <2>1. PICK C : C = 0 .. 2 ^ 16 - 1
    OBVIOUS
  <2>2. q.code \in C
    BY <1>6, <2>1, Zenon
  <2>3. q \in [dst : {"all_hosts", "group"}, code : C, qrv : 0 .. 7, qqic : 0 .. 255]
    BY <1>3, <1>7, <1>8, <1>9, <2>2
  <2>4. QED
    BY <2>1, <2>3, Zenon DEF Queries
<1>11. QED
  BY <1>1, <1>2, <1>4, <1>5, <1>10, SMT

(* When the listener that hears a query answers.                           *)
LEMMA HeardOK ==
    ASSUME answer \in Timer, NEW q, Heard(q), NEW m \in Nat, MaxRespTime(q) \in 0 .. m
    PROVE  /\ query' = q /\ lost' = lost /\ answer' \in Nat
           /\ m > 0 => answer' <= (m - 1) \div Millis
           /\ answer # None => answer' <= answer
<1>1. PICK y \in 0 .. m : y = MaxRespTime(q)
  OBVIOUS
<1>2. Millis \in Nat \ {0}
  BY QueriesAssumption
<1>3. PICK d \in {0} \cup 1 .. (y - 1) \div Millis :
         answer' = IF answer # None /\ answer < d THEN answer ELSE d
  BY <1>1, Zenon DEF Heard
<1>4. (y - 1) \div Millis <= (m - 1) \div Millis
      /\ (y - 1) \div Millis \in Int /\ (m - 1) \div Millis \in Int
  BY <1>2, TicksGrow
<1>5. m > 0 => (m - 1) \div Millis >= 0
  BY <1>2
<1>6. d \in Nat /\ (m > 0 => d <= (m - 1) \div Millis)
  BY <1>3, <1>4, <1>5
<1>7. answer' \in Nat /\ answer' <= d /\ (answer # None => answer' <= answer)
  BY <1>3, <1>6 DEF Timer, None
<1>8. query' = q /\ lost' = lost
  BY DEF Heard
<1>9. QED
  BY <1>4, <1>6, <1>7, <1>8
(* A general query is heard, or missed.                                    *)
LEMMA GeneralQueryStep ==
    ASSUME protocol \in Protocols, answer \in Timer, query \in Queries, lost \in Nat,
           startup_query_count \in Nat \cup {-1},
           NEW t \in Tank, NEW ok \in BOOLEAN, send_general_query(t, ok)
    PROVE  /\ startup_query_count' \in Nat \cup {-1}
           /\ \/ general_query_timer' = Seconds(t.startup_query_interval)
              \/ general_query_timer' = Seconds(t.query_interval)
           /\ general_query_timer' \in Nat
           /\ query' \in Queries
           /\ \/ /\ answer' \in Nat /\ lost' = lost
                 /\ t.query_response_interval > 0 =>
                       answer' <= (t.query_response_interval - 1) \div Millis
                 /\ answer # None => answer' <= answer
              \/ answer = None /\ answer' = None /\ MayLose(t) /\ lost' = lost + 1
<1>1. PICK count \in Int : /\ count = IF general_query_timer = None THEN t.startup_query_count - 1
                                                                 ELSE startup_query_count
                           /\ count >= -1
  BY TankFields
<1>2. /\ startup_query_count' = IF count > 0 THEN count - 1 ELSE count
      /\ general_query_timer' = IF count > 0 THEN Seconds(t.startup_query_interval)
                                             ELSE Seconds(t.query_interval)
      /\ \/ Heard(QueryMessage(t, TRUE))
         \/ Missed(t, QueryMessage(t, TRUE), ok)
  BY <1>1, Zenon DEF send_general_query
<1>3. startup_query_count' \in Nat \cup {-1}
  <2>1. count >= -1
    BY <1>1, Zenon
  <2>2. count \in Nat \cup {-1} /\ (count > 0 => count - 1 \in Nat \cup {-1})
    BY <2>1
  <2>3. QED
    BY <1>2, <2>2, Zenon
<1>4. /\ 1000 * t.startup_query_interval \in Nat /\ 1000 * t.query_interval \in Nat
      /\ t.query_response_interval \in Nat
  BY TankFields
<1>5. /\ general_query_timer' \in Nat
      /\ \/ general_query_timer' = Seconds(t.startup_query_interval)
         \/ general_query_timer' = Seconds(t.query_interval)
  BY <1>2, <1>4, TicksNat DEF Seconds
<1>6. /\ QueryMessage(t, TRUE) \in Queries
      /\ MaxRespTime(QueryMessage(t, TRUE)) \in 0 .. t.query_response_interval
  <2>1. PICK m : m = IF TRUE THEN t.query_response_interval ELSE get_last_listener_query_time(t)
    OBVIOUS
  <2>2. QueryMessage(t, TRUE) \in Queries /\ MaxRespTime(QueryMessage(t, TRUE)) \in 0 .. m
    BY <2>1, QueryOK, Zenon
  <2>3. QED
    BY <2>1, <2>2, Zenon
<1>7. CASE Heard(QueryMessage(t, TRUE))
  <2>1. /\ query' = QueryMessage(t, TRUE) /\ lost' = lost /\ answer' \in Nat
        /\ t.query_response_interval > 0 =>
              answer' <= (t.query_response_interval - 1) \div Millis
        /\ answer # None => answer' <= answer
    BY <1>4, <1>6, <1>7, HeardOK, Zenon
  <2>2. QED
    BY <1>3, <1>5, <1>6, <2>1, Zenon
<1>8. CASE Missed(t, QueryMessage(t, TRUE), ok)
  <2>1. /\ answer = None /\ answer' = None /\ MayLose(t) /\ lost' = lost + 1
        /\ query' \in Queries
    BY <1>6, <1>8, Zenon DEF Missed
  <2>2. QED
    BY <1>3, <1>5, <2>1, Zenon
<1>9. QED
  BY <1>2, <1>7, <1>8, Zenon

(* What send_Q does to the timers.                                         *)
LEMMA SendQStep ==
    ASSUME protocol \in Protocols, answer \in Timer, query \in Queries, lost \in Nat,
           filter_timer \in Timer, group_retransmission_count \in Nat \cup {-1},
           NEW t \in Tank, NEW timer \in Timer \cup {Over}, send_Q(t, timer)
    PROVE  /\ filter_timer' = (IF timer = None THEN Ticks(get_last_listener_query_time(t))
                                               ELSE filter_timer)
           /\ filter_timer' \in Timer
           /\ group_retransmission_count' \in Nat \cup {-1}
           /\ group_retransmission_timer' \in Timer \cup {Over}
           /\ query' \in Queries /\ lost' = lost
           /\ \/ /\ answer' \in Nat
                 /\ get_last_listener_query_time(t) > 0 =>
                       answer' <= (get_last_listener_query_time(t) - 1) \div Millis
                 /\ answer # None => answer' <= answer
              \/ answer' = answer /\ ~(timer = None /\ t.last_listener_query_count > 0)
<1> DEFINE L == get_last_listener_query_time(t)
<1>1. L \in Nat /\ t.last_listener_query_interval \in Nat /\ t.last_listener_query_count \in Nat
  BY TankFields
<1>2. Ticks(L) \in Nat /\ Ticks(t.last_listener_query_interval) \in Nat
  BY <1>1, TicksNat
<1>3. PICK count \in Int :
         /\ count = IF timer = None THEN t.last_listener_query_count
                                    ELSE group_retransmission_count
         /\ count >= -1
  BY <1>1
<1>4. /\ filter_timer' = IF timer = None THEN Ticks(L) ELSE filter_timer
      /\ IF count > 0
         THEN /\ group_retransmission_count' = count - 1
              /\ group_retransmission_timer' =
                     IF count > 1 THEN Ticks(t.last_listener_query_interval) ELSE timer
              /\ \/ Heard(QueryMessage(t, FALSE))
                 \/ ~Lowered(t, filter_timer') /\ UNCHANGED <<query, answer, lost>>
         ELSE /\ group_retransmission_count' = -1
              /\ group_retransmission_timer' = None
              /\ UNCHANGED <<query, answer, lost>>
  BY <1>3, Zenon DEF send_Q
<1>5. filter_timer' \in Timer
  BY <1>2, <1>4 DEF Timer
<1>6. timer = None => Lowered(t, filter_timer')
  BY <1>2, <1>4 DEF Lowered, None
<1>7. QueryMessage(t, FALSE) \in Queries /\ MaxRespTime(QueryMessage(t, FALSE)) \in 0 .. L
  <2>1. PICK m : m = IF FALSE THEN t.query_response_interval ELSE L
    OBVIOUS
  <2>2. QueryMessage(t, FALSE) \in Queries /\ MaxRespTime(QueryMessage(t, FALSE)) \in 0 .. m
    BY <2>1, QueryOK, Zenon
  <2>3. QED
    BY <2>1, <2>2, Zenon
<1> HIDE DEF L
<1>8. ASSUME Heard(QueryMessage(t, FALSE))
      PROVE  /\ query' \in Queries /\ lost' = lost /\ answer' \in Nat
             /\ L > 0 => answer' <= (L - 1) \div Millis
             /\ answer # None => answer' <= answer
  BY <1>1, <1>7, <1>8, HeardOK, Zenon
<1>9. CASE count > 0
  <2>1. group_retransmission_count' \in Nat \cup {-1}
    BY <1>4, <1>9
  <2>2. group_retransmission_timer' \in Timer \cup {Over}
    BY <1>2, <1>4, <1>9 DEF Timer
  <2>3. CASE Heard(QueryMessage(t, FALSE))
    BY <1>4, <1>5, <1>8, <2>1, <2>2, <2>3, Zenon DEF L
  <2>4. CASE ~Lowered(t, filter_timer') /\ UNCHANGED <<query, answer, lost>>
    BY <1>4, <1>5, <1>6, <2>1, <2>2, <2>4, Zenon DEF L
  <2>5. QED
    BY <1>4, <1>9, <2>3, <2>4, Zenon
<1>10. CASE ~(count > 0)
  <2>1. group_retransmission_count' = -1 /\ group_retransmission_timer' = None
        /\ UNCHANGED <<query, answer, lost>>
    BY <1>4, <1>10, Zenon
  <2>2. ~(timer = None /\ t.last_listener_query_count > 0)
    BY <1>3, <1>10
  <2>3. -1 \in Nat \cup {-1} /\ None \in Timer \cup {Over}
    BY DEF Timer
  <2>4. QED
    BY <1>4, <1>5, <2>1, <2>2, <2>3, Zenon DEF L
<1>11. QED
  BY <1>9, <1>10, Zenon
(* The control one by one.                                                 *)
LEMMA ControlTypes ==
    ControlOK <=>
    /\ protocol \in Protocols /\ choice \in Choices
    /\ querier \in {"none", "running", "failed"}
    /\ startup_query_count \in Nat \cup {-1} /\ group_retransmission_count \in Nat \cup {-1}
    /\ filter_timer \in Timer /\ answer \in Timer
    /\ group_retransmission_timer \in Timer \cup {Over}
    /\ query \in Queries
    /\ lost \in Nat /\ leaves \in 0 .. MaxLeaves
    /\ querier = "running" => general_query_timer \in Nat
    /\ querier # "running" => /\ general_query_timer = None /\ filter_timer = None
                              /\ group_retransmission_timer = None /\ answer = None
  BY Zenon DEF ControlOK

(* The control at the start.                                               *)
LEMMA ControlInit == Init => ControlOK
<1> SUFFICES ASSUME Init PROVE ControlOK
  OBVIOUS
<1>1. protocol \in Protocols /\ choice \in Choices /\ querier = "none"
  BY Zenon DEF Init
<1>2. /\ startup_query_count = 0 /\ group_retransmission_count = -1 /\ lost = 0 /\ leaves = 0
      /\ general_query_timer = None /\ filter_timer = None
      /\ group_retransmission_timer = None /\ answer = None
  BY Zenon DEF Init
<1>3. query \in Queries
  <2>1. PICK m : m = IF TRUE THEN default_timers_values_tank.query_response_interval
                     ELSE get_last_listener_query_time(default_timers_values_tank)
    OBVIOUS
  <2>2. QueryMessage(default_timers_values_tank, TRUE) \in Queries
    BY <1>1, <2>1, ConstantTanks, QueryOK, Zenon
  <2>3. QED
    BY <2>2, Zenon DEF Init
<1>4. 0 \in Nat \cup {-1} /\ -1 \in Nat \cup {-1} /\ 0 \in Nat /\ 0 \in 0 .. MaxLeaves
  BY QueriesAssumption
<1>5. None \in Timer
  BY DEF Timer
<1>6. "none" \in {"none", "running", "failed"} /\ "none" # "running"
  OBVIOUS
<1>7. QED
  BY <1>1, <1>2, <1>3, <1>4, <1>5, <1>6, ControlTypes, Zenon

(* The steps before there is a querier.                                    *)
LEMMA ConfigureControl ==
    ASSUME ControlOK, Configure \/ SendConfig \/ \E h \in Holders : Destroy(h)
    PROVE  ControlOK'
<1>1. UNCHANGED <<protocol, choice, cycle>> /\ UnchangedLink
  BY Zenon DEF Configure, SendConfig, Destroy
<1>2. QED
  BY <1>1 DEF cycle, UnchangedLink, ControlOK

(* querier::querier.                                                       *)
LEMMA ConstructControl ==
    ASSUME ValuesOK, ControlOK, Construct
    PROVE  /\ ControlOK'
           /\ querier' = "running" =>
                 \E t \in Tank : t = choice.tank /\ send_general_query(t, TRUE)
<1>1. /\ querier = "none" /\ "msg" \in DOMAIN objects
      /\ UNCHANGED <<protocol, choice, filter_timer, group_retransmission_timer,
                     group_retransmission_count, leaves>>
  BY Zenon DEF Construct
<1>2. /\ protocol \in Protocols /\ choice \in Choices
      /\ startup_query_count \in Nat \cup {-1} /\ group_retransmission_count \in Nat \cup {-1}
      /\ query \in Queries /\ lost \in Nat /\ leaves \in 0 .. MaxLeaves
      /\ general_query_timer = None /\ filter_timer = None
      /\ group_retransmission_timer = None /\ answer = None
      /\ filter_timer \in Timer /\ answer \in Timer
      /\ group_retransmission_timer \in Timer \cup {Over}
  <2>1. querier # "running"
    BY <1>1
  <2>2. QED
    BY <2>1, ControlTypes, Zenon
<1>3. "running" \in {"none", "running", "failed"} /\ "failed" \in {"none", "running", "failed"}
      /\ "failed" # "running"
  OBVIOUS
<1>4. CASE querier' = "failed" /\ UNCHANGED <<tanks, objects, startup_query_count,
                                              general_query_timer, query, answer, lost>>
  BY <1>1, <1>2, <1>3, <1>4 DEF ControlOK
<1>5. CASE querier' = "running" /\ send_general_query(tanks[objects["msg"].tank], TRUE)
  <2>1. tanks[objects["msg"].tank] = choice.tank
    BY <1>1 DEF ValuesOK, ObjectOK
  <2>2. choice.tank \in Tank
    BY ChosenTank
  <2>3. PICK t \in Tank : t = choice.tank
    BY <2>2
  <2>4. send_general_query(t, TRUE)
    BY <1>5, <2>1, <2>3, Zenon
  <2>5. /\ startup_query_count' \in Nat \cup {-1} /\ general_query_timer' \in Nat
        /\ query' \in Queries
        /\ \/ answer' \in Nat /\ lost' = lost
           \/ answer' = None /\ lost' = lost + 1
    BY <1>2, <2>4, GeneralQueryStep, Zenon
  <2>6. answer' \in Timer /\ lost' \in Nat
    BY <1>2, <2>5 DEF Timer
  <2>7. ControlOK'
    BY <1>1, <1>2, <1>5, <2>5, <2>6 DEF ControlOK
  <2>8. QED
    BY <2>3, <2>4, <2>7, Zenon
<1>6. QED
  BY <1>4, <1>5, <1>3, Zenon DEF Construct

(* A timer that is set goes on.                                            *)
LEMMA LaterOK ==
    ASSUME NEW t \in Timer \cup {Over}, t # 0
    PROVE  /\ Later(t) \in Timer \cup {Over} /\ (t \in Timer => Later(t) \in Timer)
           /\ t \in Nat => Later(t) = t - 1 /\ Later(t) \in Nat
           /\ t \notin Nat => Later(t) = t
  BY DEF Later, Timer, None, Over

(* The timers and the answers of a running querier.                        *)
LEMMA RunningControl ==
    ASSUME ValuesOK, ControlOK,
           \/ timer_triggerd_general_query_timer \/ Answer \/ OtherLeaves
           \/ timer_triggerd_ret_group_timer \/ Tick
    PROVE  ControlOK' /\ querier = "running" /\ choice.tank = Tv /\ choice.tank \in Tank
<1>1. /\ protocol \in Protocols /\ choice \in Choices
      /\ startup_query_count \in Nat \cup {-1} /\ group_retransmission_count \in Nat \cup {-1}
      /\ filter_timer \in Timer /\ answer \in Timer
      /\ group_retransmission_timer \in Timer \cup {Over}
      /\ query \in Queries
      /\ lost \in Nat /\ leaves \in 0 .. MaxLeaves
      /\ querier = "running" => general_query_timer \in Nat
      /\ querier # "running" => /\ general_query_timer = None /\ filter_timer = None
                                /\ group_retransmission_timer = None /\ answer = None
  BY ControlTypes, Zenon
<1>2. querier = "running"
  <2>1. None # 0
    BY DEF None
  <2>2. QED
    BY <1>1, <2>1, Zenon DEF timer_triggerd_general_query_timer, Answer, OtherLeaves,
                      timer_triggerd_ret_group_timer, Tick
<1>3. general_query_timer \in Nat
  BY <1>1, <1>2, Zenon
<1>4. choice.tank = Tv /\ choice.tank \in Tank
  BY <1>2, ChosenValues, ChosenTank, Zenon
<1>5. PICK t \in Tank : t = Tv
  BY <1>4, Zenon
<1>6. CASE timer_triggerd_general_query_timer
  <2>1. PICK ok \in BOOLEAN : send_general_query(t, ok)
    BY <1>5, <1>6, Zenon DEF timer_triggerd_general_query_timer
  <2>2. UNCHANGED <<values, querier, filter_timer, group_retransmission_timer,
                    group_retransmission_count, leaves>>
    BY <1>6 DEF timer_triggerd_general_query_timer
  <2>3. /\ startup_query_count' \in Nat \cup {-1} /\ general_query_timer' \in Nat
        /\ query' \in Queries
        /\ \/ answer' \in Nat /\ lost' = lost
           \/ answer' = None /\ lost' = lost + 1
    BY <1>1, <2>1, GeneralQueryStep, Zenon
  <2>4. answer' \in Timer /\ lost' \in Nat
    BY <1>1, <2>3 DEF Timer
  <2>5. ControlOK'
    BY <1>1, <1>2, <2>2, <2>3, <2>4 DEF ControlOK, values
  <2>6. QED
    BY <1>2, <1>4, <2>5
<1>7. CASE Answer
  <2>1. /\ answer' = None
        /\ \/ /\ filter_timer' = Ticks(get_multicast_address_listening_interval(t))
              /\ lost' = 0
           \/ lost' = lost + 1 /\ filter_timer' = filter_timer
        /\ UNCHANGED <<values, cycle, query, group_retransmission_timer,
                       group_retransmission_count, leaves>>
    BY <1>5, <1>7, Zenon DEF Answer
  <2>2. Ticks(get_multicast_address_listening_interval(t)) \in Nat
    BY TankFields, TicksNat
  <2>3. filter_timer' \in Timer /\ answer' \in Timer /\ lost' \in Nat
    BY <1>1, <2>1, <2>2 DEF Timer
  <2>4. ControlOK'
    BY <1>1, <1>2, <2>1, <2>3 DEF ControlOK, values, cycle
  <2>5. QED
    BY <1>2, <1>4, <2>4
<1>8. CASE OtherLeaves \/ timer_triggerd_ret_group_timer
  <2>1. PICK timer \in Timer \cup {Over} : send_Q(t, timer)
    BY <1>1, <1>5, <1>8, Zenon DEF OtherLeaves, timer_triggerd_ret_group_timer
  <2>2. UNCHANGED <<values, cycle>> /\ leaves' \in 0 .. MaxLeaves
    BY <1>1, <1>8, QueriesAssumption DEF OtherLeaves, timer_triggerd_ret_group_timer
  <2>3. /\ filter_timer' \in Timer
        /\ group_retransmission_count' \in Nat \cup {-1}
        /\ group_retransmission_timer' \in Timer \cup {Over}
        /\ query' \in Queries /\ lost' = lost
        /\ answer' \in Nat \/ answer' = answer
    BY <1>1, <2>1, SendQStep, Zenon
  <2>4. answer' \in Timer
    BY <1>1, <2>3 DEF Timer
  <2>5. ControlOK'
    BY <1>1, <1>2, <2>2, <2>3, <2>4 DEF ControlOK, values, cycle
  <2>6. QED
    BY <1>2, <1>4, <2>5
<1>9. CASE Tick
  <2>1. /\ general_query_timer # 0 /\ filter_timer # 0
        /\ group_retransmission_timer # 0 /\ answer # 0
        /\ general_query_timer' = Later(general_query_timer)
        /\ filter_timer' = Later(filter_timer)
        /\ group_retransmission_timer' = Later(group_retransmission_timer)
        /\ answer' = Later(answer)
        /\ UNCHANGED <<values, querier, startup_query_count, query, group_retransmission_count,
                       lost, leaves>>
    BY <1>9, Zenon DEF Tick
  <2>2. /\ general_query_timer \in Timer \cup {Over} /\ filter_timer \in Timer \cup {Over}
        /\ answer \in Timer \cup {Over}
    BY <1>1, <1>3 DEF Timer
  <2>3. /\ general_query_timer' \in Nat /\ filter_timer' \in Timer /\ answer' \in Timer
        /\ group_retransmission_timer' \in Timer \cup {Over}
    BY <1>1, <1>3, <2>1, <2>2, LaterOK, Zenon
  <2>4. ControlOK'
    BY <1>1, <1>2, <2>1, <2>3 DEF ControlOK, values
  <2>5. QED
    BY <1>2, <1>4, <2>4
<1>10. QED
  BY <1>6, <1>7, <1>8, <1>9

(* Every step preserves the control.                                       *)
LEMMA ControlStep ==
    ASSUME ValuesOK, ControlOK, [Next]_vars PROVE ControlOK'
<1>1. CASE Configure \/ SendConfig \/ \E h \in Holders : Destroy(h)
  BY <1>1, ConfigureControl
<1>2. CASE Construct
  BY <1>2, ConstructControl
<1>3. CASE \/ timer_triggerd_general_query_timer \/ Answer \/ OtherLeaves
           \/ timer_triggerd_ret_group_timer \/ Tick
  BY <1>3, RunningControl
<1>4. CASE UNCHANGED vars
  BY <1>4 DEF ControlOK, vars, values, cycle
<1>5. QED
  BY <1>1, <1>2, <1>3, <1>4 DEF Next
(***************************************************************************)
(* The listener is kept                                                    *)
(***************************************************************************)
(* Products of milliseconds and ticks.                                     *)
LEMMA Products ==
    ASSUME NEW a \in Nat, NEW b \in Nat, NEW m \in Nat \ {0}
    PROVE  /\ (m * a) * b = m * (a * b) /\ b * (m * a) = m * (b * a)
           /\ m * a + m * b = m * (a + b)
           /\ m * a <= m * b => a <= b
           /\ a * b \in Nat
<1>1. (m * a) * b = m * (a * b) /\ b * (m * a) = m * (b * a)
  OBVIOUS
<1>2. m * a + m * b = m * (a + b)
  OBVIOUS
<1>3. m * a <= m * b => a <= b
  OBVIOUS
<1>4. a * b \in Nat
  OBVIOUS
<1>5. QED
  BY <1>1, <1>2, <1>3, <1>4

(* A number of times a number of ticks is a number of ticks.               *)
LEMMA Multiples ==
    ASSUME NEW m \in Nat \ {0}, NEW e \in Nat, e % m = 0, NEW s \in Nat
    PROVE  e * s \in Nat /\ (e * s) % m = 0
<1>1. PICK k \in Nat : e = m * k
  BY WholeTicks
<1>2. PICK n \in Nat : n = k * s
  BY Products
<1>3. e * s = m * n
  BY <1>1, <1>2, Products
<1>4. QED
  BY <1>3

(* A response of q milliseconds that fits a round of w.                    *)
LEMMA Responses ==
    ASSUME NEW m \in Nat \ {0}, NEW w \in Nat, w % m = 0,
           NEW q \in Nat, q > 0, q % m = 0, q <= w
    PROVE  /\ w \div m \in Nat /\ w = m * (w \div m)
           /\ (q - 1) \div m \in Nat /\ (q - 1) \div m < w \div m
           /\ q = m * ((q - 1) \div m + 1)
<1>1. PICK n \in Nat : w = m * n /\ w \div m = n
  BY WholeTicks
<1>2. PICK j \in Nat : q = m * j /\ j > 0 /\ (q - 1) \div m = j - 1
  BY WholeTicks
<1>3. j <= n
  <2>1. m * j <= m * n
    BY <1>1, <1>2
  <2>2. QED
    BY <2>1, Products
<1>4. (q - 1) \div m + 1 = j /\ j - 1 \in Nat
  BY <1>2
<1>5. QED
  BY <1>1, <1>2, <1>3, <1>4

(* As many rounds as v says, and a response.                               *)
LEMMA Listening ==
    ASSUME NEW m \in Nat \ {0}, NEW n \in Nat, NEW j \in Nat, NEW v \in Nat
    PROVE  (v * (m * n) + m * j) \div m = v * n + j /\ v * n \in Nat
<1>1. PICK p \in Nat : p = v * n
  BY Products
<1>2. v * (m * n) = m * p
  BY <1>1, Products
<1>3. v * (m * n) + m * j = m * (p + j)
  BY <1>2, Products
<1>4. (m * (p + j)) \div m = p + j
  BY TicksOf
<1>5. QED
  BY <1>1, <1>3, <1>4

(* Sensible values in ticks: the listening interval is as many rounds as   *)
(* the robustness variable says and a response, a response is shorter than *)
(* any round, and the last one is over before the lowered filter timer.    *)
LEMMA Times ==
    ASSUME NEW t \in Tank, Sensible(t),
           NEW R, R = Seconds(t.query_interval),
           NEW S, S = Seconds(t.startup_query_interval),
           NEW D, D = (t.query_response_interval - 1) \div Millis,
           NEW L, L = get_last_listener_query_time(t)
    PROVE  /\ R \in Nat /\ S \in Nat /\ D \in Nat /\ D < S /\ S <= R
           /\ Ticks(get_multicast_address_listening_interval(t))
                = t.robustness_variable * R + (D + 1)
           /\ L \in Nat /\ L > 0 /\ Ticks(L) \in Nat /\ (L - 1) \div Millis = Ticks(L) - 1
           /\ t.robustness_variable \in Nat /\ t.robustness_variable > 0
           /\ t.query_response_interval > 0 /\ t.last_listener_query_count > 0
<1>1. PICK m \in Nat \ {0} : m = Millis
  BY QueriesAssumption
<1>2. PICK rv \in Nat, qi \in Nat, si \in Nat, qri \in Nat, li \in Nat, lc \in Nat :
         /\ rv = t.robustness_variable /\ qi = t.query_interval
         /\ si = t.startup_query_interval /\ qri = t.query_response_interval
         /\ li = t.last_listener_query_interval /\ lc = t.last_listener_query_count
  BY TankFields
<1>3. PICK e \in Nat : e = 1000
  OBVIOUS
<1>4. /\ rv > 0 /\ qri > 0 /\ qri <= e * si /\ si <= qi /\ li > 0 /\ lc > 0
      /\ e % m = 0 /\ qri % m = 0 /\ li % m = 0
  BY <1>1, <1>2, <1>3 DEF Sensible
<1>5. /\ R = (e * qi) \div m /\ S = (e * si) \div m /\ D = (qri - 1) \div m
      /\ L = li * lc /\ Ticks(L) = L \div m
      /\ Ticks(get_multicast_address_listening_interval(t)) = (rv * (e * qi) + qri) \div m
  BY <1>1, <1>2, <1>3
     DEF Ticks, Seconds, get_last_listener_query_time, get_multicast_address_listening_interval
<1>6. e * si \in Nat /\ e * qi \in Nat /\ e * si <= e * qi
  BY <1>3, <1>4
<1>7. S \in Nat /\ D \in Nat /\ D < S
  <2>1. PICK w \in Nat : w = e * si /\ w % m = 0
    BY <1>4, Multiples
  <2>2. w \div m \in Nat /\ (qri - 1) \div m \in Nat /\ (qri - 1) \div m < w \div m
    BY <1>4, <2>1, Responses
  <2>3. QED
    BY <1>5, <2>1, <2>2
<1>8. S <= R
  <2>1. PICK a \in Int, c \in Int : a = e * si /\ c = e * qi /\ a <= c
    BY <1>6
  <2>2. a \div m <= c \div m
    BY <2>1, TicksGrow
  <2>3. QED
    BY <1>5, <2>1, <2>2, Zenon
<1>9. qri <= e * qi
  BY <1>4, <1>6
<1>10. R \in Nat /\ e * qi = m * R /\ qri = m * (D + 1)
  <2>1. PICK w \in Nat : w = e * qi /\ w % m = 0
    BY <1>4, Multiples
  <2>2. w \div m \in Nat /\ w = m * (w \div m) /\ qri = m * ((qri - 1) \div m + 1)
    BY <1>4, <1>9, <2>1, Responses
  <2>3. QED
    BY <1>5, <2>1, <2>2
<1>11. (rv * (e * qi) + qri) \div m = rv * R + (D + 1)
  <2>1. PICK j \in Nat : j = D + 1
    BY <1>7
  <2>2. (rv * (m * R) + m * j) \div m = rv * R + j
    BY <1>10, Listening
  <2>3. QED
    BY <1>10, <2>1, <2>2
<1>12. PICK i \in Nat : li = m * i /\ i > 0
  BY <1>4, WholeTicks
<1>13. L = m * (i * lc) /\ i * lc \in Nat
  BY <1>5, <1>12, Products
<1>14. L \in Nat /\ L > 0
  BY <1>4, <1>5
<1>15. L % m = 0
  <2>1. PICK n \in Nat : n = i * lc
    BY <1>13
  <2>2. L = m * n
    BY <1>13, <2>1
  <2>3. QED
    BY <2>2
<1>16. Ticks(L) \in Nat /\ (L - 1) \div m = Ticks(L) - 1
  <2>1. PICK k \in Nat : L \div m = k /\ (L > 0 => (L - 1) \div m = k - 1)
    BY <1>14, <1>15, WholeTicks
  <2>2. QED
    BY <1>5, <1>14, <2>1
<1>17. QED
  BY <1>1, <1>2, <1>4, <1>5, <1>7, <1>8, <1>10, <1>11, <1>14, <1>16
(* Kept, of a filter timer F, a general query timer G, an answer A, delays *)
(* D, rounds R, and as many losses left as left says.                      *)
KeptAt(F, G, A, D, R, left, low) ==
    /\ (A # None /\ F > A) \/ F > G + D
    /\ ~low /\ left > 0 =>
          F > G + D + (IF A # None /\ A < G THEN left - 1 ELSE left) * R

(* One round less.                                                         *)
LEMMA OneRound ==
    ASSUME NEW n \in Int, NEW R \in Nat
    PROVE  n * R = (n - 1) * R + R /\ (n - 1) * R \in Int /\ (n > 0 => (n - 1) * R >= 0)
<1>1. n * R = (n - 1) * R + R /\ (n - 1) * R \in Int
  OBVIOUS
<1>2. n > 0 => (n - 1) * R >= 0
  OBVIOUS
<1>3. QED
  BY <1>1, <1>2

(* The listener hears the general query.                                   *)
LEMMA KeptWhenHeard ==
    ASSUME NEW F \in Nat, NEW A \in Timer, NEW D \in Nat, NEW R \in Nat, NEW n \in Int, NEW low,
           KeptAt(F, 0, A, D, R, n, low),
           NEW G \in Nat, D < G, G <= R,
           NEW B \in Nat, B <= D, A # None => B <= A
    PROVE  KeptAt(F, G, B, D, R, n, low)
<1>1. F > B
  <2>1. (A # None /\ F > A) \/ F > 0 + D
    BY Zenon DEF KeptAt
  <2>2. A # None => A \in Nat
    BY DEF Timer
  <2>3. QED
    BY <2>1, <2>2
<1>2. B # None /\ B < G
  BY DEF None
<1>3. ASSUME ~low, n > 0 PROVE F > G + D + (n - 1) * R
  <2>1. ~(A # None /\ A < 0)
    BY DEF Timer, None
  <2>2. F > 0 + D + n * R
    BY <1>3, <2>1 DEF KeptAt
  <2>3. n * R = (n - 1) * R + R /\ (n - 1) * R \in Int
    BY OneRound
  <2>4. QED
    BY <2>2, <2>3
<1>4. QED
  BY <1>1, <1>2, <1>3, Zenon DEF KeptAt

(* It misses the general query.                                            *)
LEMMA KeptWhenMissed ==
    ASSUME NEW F \in Nat, NEW D \in Nat, NEW R \in Nat, NEW n \in Int, n > 0, NEW low, ~low,
           NEW A, A = None, KeptAt(F, 0, A, D, R, n, low), NEW G \in Nat, G <= R
    PROVE  KeptAt(F, G, A, D, R, n - 1, low)
<1>1. F > 0 + D + n * R
  BY DEF KeptAt
<1>2. n * R = (n - 1) * R + R /\ (n - 1) * R \in Int /\ (n - 1) * R >= 0
  BY OneRound
<1>3. F > G + D /\ F > G + D + (n - 1) * R
  BY <1>1, <1>2
<1>4. QED
  BY <1>3, Zenon DEF KeptAt

(* Its answer arrives.                                                     *)
LEMMA KeptWhenAnswered ==
    ASSUME NEW D \in Nat, NEW R \in Nat, NEW rv \in Nat, rv > 0, NEW low,
           NEW A, A = None, NEW G \in Nat, G <= R,
           NEW F, F = rv * R + (D + 1)
    PROVE  F \in Nat /\ KeptAt(F, G, A, D, R, rv - 1, low)
<1>1. rv * R = (rv - 1) * R + R /\ (rv - 1) * R \in Int /\ (rv - 1) * R >= 0
  BY OneRound
<1>2. F \in Nat /\ F > G + D /\ F > G + D + (rv - 1) * R
  BY <1>1
<1>3. QED
  BY <1>2, Zenon DEF KeptAt

(* Its answer is lost.                                                     *)
LEMMA KeptWhenLost ==
    ASSUME NEW F \in Nat, NEW D \in Nat, NEW R \in Nat, NEW n \in Int, n > 0, NEW low, ~low,
           NEW G \in Nat, G <= R, KeptAt(F, G, 0, D, R, n, low), NEW A, A = None
    PROVE  KeptAt(F, G, A, D, R, n - 1, low)
<1>1. n * R = (n - 1) * R + R /\ (n - 1) * R \in Int /\ (n - 1) * R >= 0
  BY OneRound
<1>2. 0 # None
  BY DEF None
<1>3. F > G + D + (IF 0 < G THEN n - 1 ELSE n) * R
  BY <1>2 DEF KeptAt
<1>4. F > G + D + (n - 1) * R
  BY <1>1, <1>3
<1>5. F > G + D
  BY <1>1, <1>4
<1>6. QED
  BY <1>4, <1>5, Zenon DEF KeptAt

(* Another query makes it answer sooner.                                   *)
LEMMA KeptWhenSooner ==
    ASSUME NEW F \in Nat, NEW A \in Timer, NEW D \in Nat, NEW R \in Nat, NEW n \in Int, NEW low,
           NEW G \in Nat, KeptAt(F, G, A, D, R, n, low),
           NEW B \in Nat, A # None => B <= A
    PROVE  KeptAt(F, G, B, D, R, n, low)
<1>1. B # None
  BY DEF None
<1>2. F > B \/ F > G + D
  BY DEF KeptAt, Timer
<1>3. ASSUME ~low, n > 0 PROVE F > G + D + (IF B < G THEN n - 1 ELSE n) * R
  <2>1. n * R = (n - 1) * R + R /\ (n - 1) * R \in Int
    BY OneRound
  <2>2. CASE A # None /\ A < G
    <3>1. B < G /\ F > G + D + (n - 1) * R
      BY <1>3, <2>2 DEF KeptAt, Timer
    <3>2. QED
      BY <3>1
  <2>3. CASE ~(A # None /\ A < G)
    <3>1. F > G + D + n * R
      BY <1>3, <2>3 DEF KeptAt
    <3>2. F > G + D + (n - 1) * R
      BY <2>1, <3>1
    <3>3. QED
      BY <3>1, <3>2
  <2>4. QED
    BY <2>2, <2>3
<1>4. QED
  BY <1>1, <1>2, <1>3, Zenon DEF KeptAt

(* A tick passes.                                                          *)
LEMMA KeptWhenLater ==
    ASSUME NEW F \in Nat, NEW A \in Timer, NEW D \in Nat, NEW R \in Nat, NEW n \in Int,
           NEW low, NEW low2, low => low2,
           NEW G \in Nat, KeptAt(F, G, A, D, R, n, low),
           NEW B, A = None => B = None, A # None => B = A - 1 /\ B \in Nat
    PROVE  KeptAt(F - 1, G - 1, B, D, R, n, low2)
<1>1. B = None <=> A = None
  BY DEF None
<1>2. A # None => A \in Nat
  BY DEF Timer
<1>3. B # None /\ B < G - 1 <=> A # None /\ A < G
  BY <1>1, <1>2
<1>4. PICK k \in Int : k = (IF A # None /\ A < G THEN n - 1 ELSE n)
  OBVIOUS
<1>5. PICK z \in Int : z = k * R
  OBVIOUS
<1>6. ~low2 /\ n > 0 => F > G + D + z
  BY <1>4, <1>5, Zenon DEF KeptAt
<1>7. ~low2 /\ n > 0 => F - 1 > G - 1 + D + z
  BY <1>6
<1>8. (B # None /\ F - 1 > B) \/ F - 1 > G - 1 + D
  BY <1>1, <1>2 DEF KeptAt
<1>9. (IF B # None /\ B < G - 1 THEN n - 1 ELSE n) = k
  BY <1>3, <1>4, Zenon
<1>10. QED
  BY <1>5, <1>7, <1>8, <1>9, Zenon DEF KeptAt
(* Every choice is sensible.                                               *)
AllSensible == \A c \in Choices : Sensible(c.tank)

(* The invariant in these terms.                                           *)
LEMMA KeptIs ==
    Kept <=> KeptAt(filter_timer, general_query_timer, answer, Delay, Round, Left,
                    Lowered(choice.tank, filter_timer))
  BY Zenon DEF Kept, KeptAt, Soon

(* The chosen values in ticks.                                             *)
LEMMA ChosenTimes ==
    ASSUME AllSensible, ControlOK, NEW t \in Tank, t = choice.tank
    PROVE  /\ Round \in Nat /\ Delay \in Nat /\ Left \in Int
           /\ Round = Seconds(t.query_interval)
           /\ Seconds(t.startup_query_interval) \in Nat
           /\ Delay < Seconds(t.startup_query_interval)
           /\ Seconds(t.startup_query_interval) <= Round
           /\ Delay = (t.query_response_interval - 1) \div Millis
           /\ t.query_response_interval > 0
           /\ Ticks(get_multicast_address_listening_interval(t))
                = t.robustness_variable * Round + (Delay + 1)
           /\ get_last_listener_query_time(t) > 0 /\ Ticks(get_last_listener_query_time(t)) \in Nat
           /\ (get_last_listener_query_time(t) - 1) \div Millis
                = Ticks(get_last_listener_query_time(t)) - 1
           /\ t.last_listener_query_count > 0
           /\ t.robustness_variable \in Nat /\ t.robustness_variable > 0
           /\ Left = t.robustness_variable - 1 - lost
<1>1. Sensible(t)
  BY ControlTypes, Zenon DEF AllSensible
<1>2. lost \in Nat
  BY ControlTypes, Zenon
<1>3. PICK R, S, D, L : /\ R = Seconds(t.query_interval)
                        /\ S = Seconds(t.startup_query_interval)
                        /\ D = (t.query_response_interval - 1) \div Millis
                        /\ L = get_last_listener_query_time(t)
  OBVIOUS
<1>4. /\ R = Round /\ D = Delay /\ Left = t.robustness_variable - 1 - lost
      /\ R = Seconds(t.query_interval) /\ S = Seconds(t.startup_query_interval)
  BY <1>3 DEF Round, Delay, Left
<1>5. /\ R \in Nat /\ S \in Nat /\ D \in Nat /\ D < S /\ S <= R
      /\ Ticks(get_multicast_address_listening_interval(t))
           = t.robustness_variable * R + (D + 1)
      /\ L \in Nat /\ L > 0 /\ Ticks(L) \in Nat /\ (L - 1) \div Millis = Ticks(L) - 1
      /\ t.robustness_variable \in Nat /\ t.robustness_variable > 0
      /\ t.query_response_interval > 0 /\ t.last_listener_query_count > 0
  BY <1>1, <1>3, Times
<1>6. Left \in Int
  BY <1>2, <1>4, <1>5
<1>7. D = (t.query_response_interval - 1) \div Millis /\ L = get_last_listener_query_time(t)
  BY <1>3
<1>8. QED
  BY <1>4, <1>5, <1>6, <1>7, Zenon

(* While the values stay, so do the intervals.                             *)
LEMMA SameTimes ==
    ASSUME choice' = choice PROVE Round' = Round /\ Delay' = Delay
  BY DEF Round, Delay

(* The time at the start.                                                  *)
LEMMA TimeInit ==
    ASSUME AllSensible, Init PROVE TimeOK
<1>1. /\ choice \in Choices /\ querier = "none" /\ filter_timer = None /\ lost = 0
  BY Zenon DEF Init
<1>2. choice.tank \in Tank /\ Sensible(choice.tank)
  BY <1>1, QueriesAssumption DEF AllSensible, Choice
<1>3. lost < choice.tank.robustness_variable
  BY <1>1, <1>2, TankFields DEF Sensible
<1>4. QED
  BY <1>1, <1>3 DEF TimeOK

(* The first general query.                                                *)
LEMMA TimeConstruct ==
    ASSUME AllSensible, IInv, Construct PROVE TimeOK'
<1>1. ValuesOK /\ ControlOK /\ TimeOK
  BY DEF IInv
<1>2. querier = "none" /\ filter_timer' = filter_timer /\ choice' = choice
  BY Zenon DEF Construct
<1>3. filter_timer = None /\ lost \in Nat /\ answer \in Timer /\ protocol \in Protocols
      /\ query \in Queries /\ startup_query_count \in Nat \cup {-1}
  <2>1. querier # "running"
    BY <1>2
  <2>2. QED
    BY <1>1, <2>1, ControlTypes, Zenon
<1>4. Round' = Round
  BY <1>2, SameTimes
<1>5. CASE querier' # "running"
  <2>1. lost' = lost
    BY <1>5 DEF Construct
  <2>2. QED
    BY <1>1, <1>2, <1>3, <1>5, <2>1 DEF TimeOK
<1>6. CASE querier' = "running"
  <2>1. PICK t \in Tank : t = choice.tank /\ send_general_query(t, TRUE)
    BY <1>1, <1>6, ConstructControl, Zenon
  <2>2. send_general_query(t, TRUE)
    BY <2>1, Zenon
  <2>3. /\ \/ general_query_timer' = Seconds(t.startup_query_interval)
           \/ general_query_timer' = Seconds(t.query_interval)
        /\ \/ answer' \in Nat /\ lost' = lost
           \/ answer = None /\ answer' = None /\ MayLose(t) /\ lost' = lost + 1
    BY <1>3, <2>2, GeneralQueryStep, Zenon
  <2>4. general_query_timer' <= Round'
    <3>1. Round \in Nat /\ Round = Seconds(t.query_interval)
          /\ Seconds(t.startup_query_interval) <= Round
      BY <1>1, <2>1, ChosenTimes, Zenon
    <3>2. QED
      BY <1>4, <2>3, <3>1
  <2>5. lost' < choice.tank.robustness_variable
    BY <1>1, <1>3, <2>1, <2>3, TankFields DEF TimeOK, MayLose
  <2>6. QED
    BY <1>2, <1>3, <2>4, <2>5 DEF TimeOK
<1>7. QED
  BY <1>5, <1>6

(* A later general query.                                                  *)
LEMMA TimeGeneralQuery ==
    ASSUME AllSensible, IInv, timer_triggerd_general_query_timer PROVE TimeOK'
<1>1. ValuesOK /\ ControlOK /\ TimeOK
  BY DEF IInv
<1>2. querier = "running" /\ choice.tank = Tv /\ choice.tank \in Tank
  BY <1>1, RunningControl, Zenon
<1>3. /\ lost \in Nat /\ answer \in Timer /\ protocol \in Protocols /\ filter_timer \in Timer
      /\ query \in Queries /\ startup_query_count \in Nat \cup {-1}
  BY <1>1, ControlTypes, Zenon
<1>4. PICK t \in Tank : t = choice.tank
  BY <1>2
<1>5. PICK ok \in BOOLEAN : send_general_query(t, ok)
  BY <1>2, <1>4, Zenon DEF timer_triggerd_general_query_timer
<1>6. choice' = choice /\ filter_timer' = filter_timer /\ general_query_timer = 0
  BY DEF timer_triggerd_general_query_timer, values
<1>7. Round' = Round /\ Delay' = Delay
  BY <1>6, SameTimes
<1>8. /\ Round \in Nat /\ Delay \in Nat /\ Left \in Int
      /\ Round = Seconds(t.query_interval)
      /\ Seconds(t.startup_query_interval) \in Nat
      /\ Delay < Seconds(t.startup_query_interval)
      /\ Seconds(t.startup_query_interval) <= Round
      /\ Delay = (t.query_response_interval - 1) \div Millis
      /\ t.query_response_interval > 0
      /\ t.robustness_variable \in Nat
      /\ Left = t.robustness_variable - 1 - lost
  BY <1>1, <1>4, ChosenTimes, Zenon
<1>9. /\ general_query_timer' \in Nat
      /\ \/ general_query_timer' = Seconds(t.startup_query_interval)
         \/ general_query_timer' = Seconds(t.query_interval)
  BY <1>3, <1>5, GeneralQueryStep, Zenon
<1>10. Delay < general_query_timer' /\ general_query_timer' <= Round
  BY <1>8, <1>9
<1>11. filter_timer # None => KeptAt(filter_timer, 0, answer, Delay, Round, Left,
                                     Lowered(t, filter_timer))
  BY <1>1, <1>4, <1>6, KeptIs, Zenon DEF TimeOK
<1>12. filter_timer # None => filter_timer \in Nat
  BY <1>3 DEF Timer
<1>13. /\ Lowered(choice.tank, filter_timer)' = Lowered(t, filter_timer)
       /\ Left' = t.robustness_variable - 1 - lost'
  BY <1>4, <1>6 DEF Lowered, Left
<1>14. PICK A, B, G, F, D, R, n :
          /\ A = answer /\ B = answer' /\ G = general_query_timer' /\ F = filter_timer
          /\ D = Delay /\ R = Round /\ n = Left
  OBVIOUS
<1>15. PICK low : low = Lowered(t, filter_timer)
  OBVIOUS
<1>16. CASE /\ answer' \in Nat /\ lost' = lost
            /\ t.query_response_interval > 0 =>
                  answer' <= (t.query_response_interval - 1) \div Millis
            /\ answer # None => answer' <= answer
  <2>1. answer' <= Delay /\ Left' = Left
    BY <1>8, <1>13, <1>16, Zenon
  <2>2. ASSUME filter_timer # None PROVE KeptAt(F, G, B, D, R, n, low)
    <3>1. KeptAt(F, 0, A, D, R, n, low)
      BY <1>11, <1>14, <1>15, <2>2, Zenon
    <3>2. F \in Nat /\ A \in Timer /\ D \in Nat /\ R \in Nat /\ n \in Int
      BY <1>3, <1>8, <1>12, <1>14, <2>2, Zenon
    <3>3. G \in Nat /\ D < G /\ G <= R /\ B \in Nat /\ B <= D /\ (A # None => B <= A)
      BY <1>9, <1>10, <1>14, <1>16, <2>1, Zenon
    <3>4. QED
      BY <3>1, <3>2, <3>3, KeptWhenHeard
  <2>3. filter_timer' # None => Kept'
    BY <1>6, <1>7, <1>13, <1>14, <1>15, <2>1, <2>2, KeptIs, Zenon DEF Kept, KeptAt, Soon
  <2>4. QED
    BY <1>1, <1>6, <1>7, <1>10, <1>16, <2>3, Zenon DEF TimeOK
<1>17. CASE answer = None /\ answer' = None /\ MayLose(t) /\ lost' = lost + 1
  <2>1. lost < t.robustness_variable - 1 /\ ~low
    BY <1>15, <1>17, Zenon DEF MayLose
  <2>2. n > 0 /\ Left' = n - 1 /\ lost' < t.robustness_variable
    BY <1>3, <1>8, <1>13, <1>14, <1>17, <2>1
  <2>3. ASSUME filter_timer # None PROVE KeptAt(F, G, A, D, R, n - 1, low)
    <3>1. KeptAt(F, 0, A, D, R, n, low)
      BY <1>11, <1>14, <1>15, <2>3, Zenon
    <3>2. F \in Nat /\ D \in Nat /\ R \in Nat /\ n \in Int /\ G \in Nat /\ G <= R /\ A = None
      BY <1>3, <1>8, <1>9, <1>10, <1>12, <1>14, <1>17, <2>3, Zenon
    <3>3. QED
      BY <2>1, <2>2, <3>1, <3>2, KeptWhenMissed
  <2>4. filter_timer' # None => Kept'
    <3>1. A = answer'
      BY <1>14, <1>17, Zenon
    <3>2. QED
      BY <1>6, <1>7, <1>13, <1>14, <1>15, <2>2, <2>3, <3>1, Zenon DEF Kept, KeptAt, Soon
  <2>5. QED
    BY <1>4, <1>6, <1>7, <1>10, <2>2, <2>4, Zenon DEF TimeOK
<1>18. QED
  <2>1. \/ /\ answer' \in Nat /\ lost' = lost
           /\ t.query_response_interval > 0 =>
                 answer' <= (t.query_response_interval - 1) \div Millis
           /\ answer # None => answer' <= answer
        \/ answer = None /\ answer' = None /\ MayLose(t) /\ lost' = lost + 1
    BY <1>3, <1>5, GeneralQueryStep, Zenon
  <2>2. QED
    BY <1>16, <1>17, <2>1
(* The listener answers.                                                   *)
LEMMA TimeAnswer ==
    ASSUME AllSensible, IInv, Answer PROVE TimeOK'
<1>1. ValuesOK /\ ControlOK /\ TimeOK
  BY DEF IInv
<1>2. querier = "running" /\ choice.tank = Tv /\ choice.tank \in Tank
  BY <1>1, RunningControl, Zenon
<1>3. lost \in Nat /\ filter_timer \in Timer /\ general_query_timer \in Nat
  BY <1>1, <1>2, ControlTypes, Zenon
<1>4. PICK t \in Tank : t = choice.tank
  BY <1>2
<1>5. /\ answer = 0 /\ answer' = None
      /\ \/ /\ filter_timer' = Ticks(get_multicast_address_listening_interval(t))
            /\ lost' = 0
         \/ MayLose(t) /\ lost' = lost + 1 /\ filter_timer' = filter_timer
      /\ UNCHANGED <<values, cycle>>
  BY <1>2, <1>4, Zenon DEF Answer
<1>6. choice' = choice /\ general_query_timer' = general_query_timer
  BY <1>5 DEF values, cycle
<1>7. Round' = Round /\ Delay' = Delay
  BY <1>6, SameTimes
<1>8. /\ Round \in Nat /\ Delay \in Nat /\ Left \in Int
      /\ Ticks(get_multicast_address_listening_interval(t))
           = t.robustness_variable * Round + (Delay + 1)
      /\ t.robustness_variable \in Nat /\ t.robustness_variable > 0
      /\ Left = t.robustness_variable - 1 - lost
  BY <1>1, <1>4, ChosenTimes, Zenon
<1>9. general_query_timer <= Round
  BY <1>1, <1>2 DEF TimeOK
<1>10. Left' = t.robustness_variable - 1 - lost'
  BY <1>4, <1>6 DEF Left
<1>11. PICK A, G, D, R, rv :
          /\ A = answer' /\ G = general_query_timer /\ D = Delay /\ R = Round
          /\ rv = t.robustness_variable
  OBVIOUS
<1>12. A = None /\ G \in Nat /\ D \in Nat /\ R \in Nat /\ G <= R /\ rv \in Nat /\ rv > 0
  BY <1>3, <1>5, <1>8, <1>9, <1>11, Zenon
<1>13. CASE filter_timer' = Ticks(get_multicast_address_listening_interval(t)) /\ lost' = 0
  <2>1. PICK F, low : F = filter_timer' /\ low = Lowered(choice.tank, filter_timer)'
    OBVIOUS
  <2>2. F = rv * R + (D + 1)
    BY <1>8, <1>11, <1>13, <2>1, Zenon
  <2>3. KeptAt(F, G, A, D, R, rv - 1, low)
    BY <1>12, <2>2, KeptWhenAnswered
  <2>4. Left' = rv - 1 /\ lost' < rv
    BY <1>10, <1>11, <1>12, <1>13
  <2>5. Kept'
    BY <1>6, <1>7, <1>11, <2>1, <2>3, <2>4, Zenon DEF Kept, KeptAt, Soon
  <2>6. QED
    BY <1>4, <1>6, <1>7, <1>9, <1>11, <2>4, <2>5, Zenon DEF TimeOK
<1>14. CASE MayLose(t) /\ lost' = lost + 1 /\ filter_timer' = filter_timer
  <2>1. PICK F, low, n : F = filter_timer /\ low = Lowered(t, filter_timer) /\ n = Left
    OBVIOUS
  <2>2. lost < rv - 1 /\ ~low
    BY <1>11, <1>14, <2>1, Zenon DEF MayLose
  <2>3. n \in Int /\ n > 0 /\ Left' = n - 1 /\ lost' < rv
    BY <1>3, <1>8, <1>10, <1>11, <1>14, <2>1, <2>2
  <2>4. low = Lowered(choice.tank, filter_timer)'
    BY <1>4, <1>6, <1>14, <2>1, Zenon DEF Lowered
  <2>5. ASSUME filter_timer # None PROVE KeptAt(F, G, A, D, R, n - 1, low)
    <3>1. F \in Nat
      BY <1>3, <2>1, <2>5 DEF Timer
    <3>2. KeptAt(F, G, 0, D, R, n, low)
      BY <1>1, <1>4, <1>5, <1>11, <2>1, <2>5, KeptIs, Zenon DEF TimeOK
    <3>3. QED
      BY <1>12, <2>2, <2>3, <3>1, <3>2, KeptWhenLost
  <2>6. filter_timer' # None => Kept'
    BY <1>6, <1>7, <1>11, <1>14, <2>1, <2>3, <2>4, <2>5, Zenon DEF Kept, KeptAt, Soon
  <2>7. QED
    BY <1>4, <1>6, <1>7, <1>9, <1>11, <2>3, <2>6, Zenon DEF TimeOK
<1>15. QED
  BY <1>5, <1>13, <1>14, Zenon

(* A query about the group is sent, or not needed any more.                *)
LEMMA TimeSendQ ==
    ASSUME AllSensible, IInv, OtherLeaves \/ timer_triggerd_ret_group_timer PROVE TimeOK'
<1>1. ValuesOK /\ ControlOK /\ TimeOK
  BY DEF IInv
<1>2. querier = "running" /\ choice.tank = Tv /\ choice.tank \in Tank
  BY <1>1, RunningControl, Zenon
<1>3. /\ protocol \in Protocols /\ answer \in Timer /\ query \in Queries /\ lost \in Nat
      /\ filter_timer \in Timer /\ group_retransmission_count \in Nat \cup {-1}
      /\ group_retransmission_timer \in Timer \cup {Over} /\ general_query_timer \in Nat
  BY <1>1, <1>2, ControlTypes, Zenon
<1>4. PICK t \in Tank : t = choice.tank
  BY <1>2
<1>5. PICK timer \in Timer \cup {Over} : send_Q(t, timer)
  BY <1>2, <1>3, <1>4, Zenon DEF OtherLeaves, timer_triggerd_ret_group_timer
<1>6. choice' = choice /\ general_query_timer' = general_query_timer
  BY DEF OtherLeaves, timer_triggerd_ret_group_timer, values, cycle
<1>7. Round' = Round /\ Delay' = Delay
  BY <1>6, SameTimes
<1>8. /\ Round \in Nat /\ Delay \in Nat /\ Left \in Int
      /\ get_last_listener_query_time(t) > 0 /\ Ticks(get_last_listener_query_time(t)) \in Nat
      /\ (get_last_listener_query_time(t) - 1) \div Millis
           = Ticks(get_last_listener_query_time(t)) - 1
      /\ t.last_listener_query_count > 0
  BY <1>1, <1>4, ChosenTimes, Zenon
<1>9. /\ filter_timer' = (IF timer = None THEN Ticks(get_last_listener_query_time(t))
                                          ELSE filter_timer)
      /\ lost' = lost
      /\ \/ /\ answer' \in Nat
            /\ get_last_listener_query_time(t) > 0 =>
                  answer' <= (get_last_listener_query_time(t) - 1) \div Millis
            /\ answer # None => answer' <= answer
         \/ answer' = answer /\ ~(timer = None /\ t.last_listener_query_count > 0)
  BY <1>3, <1>5, SendQStep, Zenon
<1>10. Left' = Left
  BY <1>6, <1>9 DEF Left
<1>11. /\ lost' < choice'.tank.robustness_variable
       /\ general_query_timer' <= Round'
  BY <1>1, <1>2, <1>6, <1>7, <1>9 DEF TimeOK
<1>12. CASE timer = None
  <2>1. /\ filter_timer' = Ticks(get_last_listener_query_time(t))
        /\ answer' \in Nat /\ answer' <= Ticks(get_last_listener_query_time(t)) - 1
    BY <1>8, <1>9, <1>12, Zenon
  <2>2. answer' # None /\ filter_timer' > answer' /\ filter_timer' # None
        /\ filter_timer' <= Ticks(get_last_listener_query_time(t))
    BY <1>8, <2>1 DEF None
  <2>3. Lowered(choice.tank, filter_timer)'
    BY <1>4, <1>6, <2>2, Zenon DEF Lowered
  <2>4. Kept'
    BY <2>2, <2>3, Zenon DEF Kept
  <2>5. QED
    BY <1>11, <2>4 DEF TimeOK
<1>13. CASE timer # None
  <2>1. filter_timer' = filter_timer
    BY <1>9, <1>13, Zenon
  <2>2. PICK F, G, A, B, D, R, n, low :
           /\ F = filter_timer /\ G = general_query_timer /\ A = answer /\ B = answer'
           /\ D = Delay /\ R = Round /\ n = Left /\ low = Lowered(t, filter_timer)
    OBVIOUS
  <2>3. low = Lowered(choice.tank, filter_timer)'
    BY <1>4, <1>6, <2>1, <2>2, Zenon DEF Lowered
  <2>4. ASSUME filter_timer # None PROVE KeptAt(F, G, B, D, R, n, low)
    <3>1. F \in Nat
      BY <1>3, <2>2, <2>4 DEF Timer
    <3>2. KeptAt(F, G, A, D, R, n, low)
      BY <1>1, <1>4, <2>2, <2>4, KeptIs, Zenon DEF TimeOK
    <3>3. A \in Timer /\ G \in Nat /\ D \in Nat /\ R \in Nat /\ n \in Int
      BY <1>3, <1>8, <2>2, Zenon
    <3>4. B = A \/ (B \in Nat /\ (A # None => B <= A))
      BY <1>9, <2>2, Zenon
    <3>5. CASE B = A
      BY <3>2, <3>5, Zenon
    <3>6. CASE B \in Nat /\ (A # None => B <= A)
      BY <3>1, <3>2, <3>3, <3>6, KeptWhenSooner
    <3>7. QED
      BY <3>4, <3>5, <3>6, Zenon
  <2>5. filter_timer' # None => Kept'
    BY <1>6, <1>7, <1>10, <2>1, <2>2, <2>3, <2>4, Zenon DEF Kept, KeptAt, Soon
  <2>6. QED
    BY <1>11, <2>5 DEF TimeOK
<1>14. QED
  BY <1>12, <1>13

(* Time passes.                                                            *)
LEMMA TimeTick ==
    ASSUME AllSensible, IInv, Tick PROVE TimeOK'
<1>1. ValuesOK /\ ControlOK /\ TimeOK
  BY DEF IInv
<1>2. querier = "running" /\ choice.tank = Tv /\ choice.tank \in Tank
  BY <1>1, RunningControl, Zenon
<1>3. answer \in Timer /\ lost \in Nat /\ filter_timer \in Timer /\ general_query_timer \in Nat
  BY <1>1, <1>2, ControlTypes, Zenon
<1>4. PICK t \in Tank : t = choice.tank
  BY <1>2
<1>5. /\ general_query_timer # 0 /\ filter_timer # 0 /\ answer # 0
      /\ general_query_timer' = Later(general_query_timer)
      /\ filter_timer' = Later(filter_timer)
      /\ answer' = Later(answer)
      /\ UNCHANGED <<values, querier, lost>>
  BY Zenon DEF Tick
<1>6. choice' = choice /\ lost' = lost
  BY <1>5 DEF values
<1>7. Round' = Round /\ Delay' = Delay /\ Left' = Left
  BY <1>6, SameTimes DEF Left
<1>8. /\ Round \in Nat /\ Delay \in Nat /\ Left \in Int
      /\ get_last_listener_query_time(t) > 0 /\ Ticks(get_last_listener_query_time(t)) \in Nat
  BY <1>1, <1>4, ChosenTimes, Zenon
<1>9. general_query_timer' = general_query_timer - 1
  <2>1. general_query_timer \in Timer \cup {Over}
    BY <1>3 DEF Timer
  <2>2. QED
    BY <1>3, <1>5, <2>1, LaterOK, Zenon
<1>10. /\ lost' < choice'.tank.robustness_variable
       /\ general_query_timer' <= Round'
  BY <1>1, <1>2, <1>3, <1>6, <1>7, <1>8, <1>9 DEF TimeOK
<1>11. /\ answer = None => answer' = None
       /\ answer # None => answer' = answer - 1 /\ answer' \in Nat
  BY <1>3, <1>5 DEF Timer, Later, None, Over
<1>12. /\ filter_timer = None => filter_timer' = None
       /\ filter_timer # None => filter_timer' = filter_timer - 1 /\ filter_timer \in Nat
                                 /\ filter_timer' \in Nat
  BY <1>3, <1>5 DEF Timer, Later, None, Over
<1>13. ASSUME filter_timer' # None PROVE Kept'
  <2>1. filter_timer # None /\ filter_timer \in Nat /\ filter_timer' = filter_timer - 1
        /\ filter_timer' \in Nat
    BY <1>12, <1>13, Zenon
  <2>2. PICK F, G, A, B, D, R, n, low, low2 :
           /\ F = filter_timer /\ G = general_query_timer /\ A = answer /\ B = answer'
           /\ D = Delay /\ R = Round /\ n = Left /\ low = Lowered(t, filter_timer)
           /\ low2 = Lowered(choice.tank, filter_timer)'
    OBVIOUS
  <2>3. low => low2
    <3>1. /\ low <=> filter_timer # None /\ filter_timer <= Ticks(get_last_listener_query_time(t))
          /\ low2 <=> filter_timer' # None /\ filter_timer' <= Ticks(get_last_listener_query_time(t))
      BY <1>4, <1>6, <2>2, Zenon DEF Lowered
    <3>2. filter_timer <= Ticks(get_last_listener_query_time(t)) =>
             filter_timer' <= Ticks(get_last_listener_query_time(t))
      BY <1>8, <2>1
    <3>3. QED
      BY <1>13, <3>1, <3>2, Zenon
  <2>4. KeptAt(F, G, A, D, R, n, low)
    BY <1>1, <1>4, <2>1, <2>2, KeptIs, Zenon DEF TimeOK
  <2>5. F \in Nat /\ A \in Timer /\ G \in Nat /\ D \in Nat /\ R \in Nat /\ n \in Int
    BY <1>3, <1>8, <2>1, <2>2, Zenon
  <2>6. (A = None => B = None) /\ (A # None => B = A - 1 /\ B \in Nat)
    BY <1>11, <2>2, Zenon
  <2>7. KeptAt(F - 1, G - 1, B, D, R, n, low2)
    BY <2>3, <2>4, <2>5, <2>6, KeptWhenLater
  <2>8. F - 1 = filter_timer' /\ G - 1 = general_query_timer'
    BY <1>9, <2>1, <2>2, Zenon
  <2>9. QED
    BY <1>7, <2>2, <2>7, <2>8, Zenon DEF Kept, KeptAt, Soon
<1>14. QED
  BY <1>10, <1>13 DEF TimeOK

(* The steps before there is a querier.                                    *)
LEMMA TimeConfigure ==
    ASSUME IInv, Configure \/ SendConfig \/ \E h \in Holders : Destroy(h)
    PROVE  TimeOK'
<1>1. TimeOK
  BY DEF IInv
<1>2. UNCHANGED <<choice, querier, general_query_timer, filter_timer, answer, lost>>
  BY DEF Configure, SendConfig, Destroy, cycle, UnchangedLink
<1>3. QED
  BY <1>1, <1>2 DEF TimeOK, Kept, Left, Soon, Round, Delay, Lowered

(* Every step preserves the time.                                          *)
LEMMA TimeStep ==
    ASSUME AllSensible, IInv, [Next]_vars PROVE TimeOK'
<1>1. CASE Configure \/ SendConfig \/ \E h \in Holders : Destroy(h)
  BY <1>1, TimeConfigure
<1>2. CASE Construct
  BY <1>2, TimeConstruct
<1>3. CASE timer_triggerd_general_query_timer
  BY <1>3, TimeGeneralQuery
<1>4. CASE Answer
  BY <1>4, TimeAnswer
<1>5. CASE OtherLeaves \/ timer_triggerd_ret_group_timer
  BY <1>5, TimeSendQ
<1>6. CASE Tick
  BY <1>6, TimeTick
<1>7. CASE UNCHANGED vars
  BY <1>7 DEF vars, values, cycle, IInv, TimeOK, Kept, Left, Soon, Round, Delay, Lowered
<1>8. QED
  BY <1>1, <1>2, <1>3, <1>4, <1>5, <1>6, <1>7 DEF Next

(***************************************************************************)
(* The theorems                                                            *)
(***************************************************************************)
(* The values and the control need nothing of the choices.                 *)
THEOREM ValuesInvariant == Spec => [](ValuesOK /\ ControlOK)
<1>1. Init => ValuesOK /\ ControlOK
  BY ValuesInit, ControlInit
<1>2. ValuesOK /\ ControlOK /\ [Next]_vars => (ValuesOK /\ ControlOK)'
  BY ValuesStep, ControlStep
<1>3. QED
  BY <1>1, <1>2, PTL DEF Spec

(* Every variable has its type, and every field of a query fits its width, *)
(* whatever values are configured.                                         *)
THEOREM QueriesTypeCorrect == Spec => []TypeOK
<1>1. ValuesOK /\ ControlOK => TypeOK
  <2> SUFFICES ASSUME ValuesOK, ControlOK PROVE TypeOK
    OBVIOUS
  <2>1. /\ protocol \in Protocols /\ choice \in Choices
        /\ querier \in {"none", "running", "failed"}
        /\ startup_query_count \in Nat \cup {-1} /\ group_retransmission_count \in Nat \cup {-1}
        /\ filter_timer \in Timer /\ answer \in Timer
        /\ group_retransmission_timer \in Timer \cup {Over}
        /\ query \in Queries
        /\ lost \in Nat /\ leaves \in 0 .. MaxLeaves
        /\ querier = "running" => general_query_timer \in Nat
        /\ querier # "running" => general_query_timer = None
    BY ControlTypes, Zenon
  <2>2. general_query_timer \in Timer
    BY <2>1 DEF Timer
  <2>3. /\ DOMAIN tanks \subseteq 0 .. 3 /\ \A k \in DOMAIN tanks : tanks[k] \in Tank
        /\ DOMAIN objects \subseteq Holders /\ \A h \in DOMAIN objects : objects[h] \in Object
    BY DEF ValuesOK, ObjectOK
  <2>4. QED
    BY <2>1, <2>2, <2>3, Zenon DEF TypeOK
<1>2. QED
  BY <1>1, ValuesInvariant, PTL

(* timers_values::operator=, set_new_tank and reset_to_default_tank: the   *)
(* querier keeps the values that were configured, whatever they are and in *)
(* whatever order the other objects end, and the defaults never change.    *)
THEOREM ValuesAreKept == Spec => []QuerierKeepsItsValues
<1>1. ValuesOK => QuerierKeepsItsValues
  BY ChosenValues DEF ValuesOK, QuerierKeepsItsValues
<1>2. QED
  BY <1>1, ValuesInvariant, PTL

(* qqi_to_qqic and the two maxrespi_to_maxrespc: no interval whatever is   *)
(* announced as a longer one, and what is lost is bounded.                 *)
THEOREM CodesAlwaysRoundDown == Spec => []CodesRoundDown
<1>1. ControlOK => CodesRoundDown
  BY EveryCodeRoundsDown DEF ControlOK
<1>2. QED
  BY <1>1, ValuesInvariant, PTL

(* With sensible values the three parts make up an inductive invariant.    *)
THEOREM QueriesInvariant ==
    ASSUME AllSensible PROVE Spec => []IInv
<1>1. Init => IInv
  BY ValuesInit, ControlInit, TimeInit DEF IInv
<1>2. IInv /\ [Next]_vars => IInv'
  <2> SUFFICES ASSUME IInv, [Next]_vars PROVE IInv'
    OBVIOUS
  <2>1. ValuesOK /\ ControlOK
    BY DEF IInv
  <2>2. ValuesOK' /\ ControlOK'
    BY <2>1, ValuesStep, ControlStep
  <2>3. TimeOK'
    BY TimeStep
  <2>4. QED
    BY <2>2, <2>3 DEF IInv
<1>3. QED
  BY <1>1, <1>2, PTL DEF Spec

(* With sensible values a listener that answers is never forgotten, for    *)
(* every robustness variable and every number of leaves of others: the     *)
(* filter timer is never due (querier::send_general_query,                 *)
(* querier::send_Q, get_multicast_address_listening_interval).             *)
THEOREM NobodyIsForgotten ==
    ASSUME AllSensible PROVE Spec => []ListenersAreKept
<1>1. IInv => ListenersAreKept
  <2> SUFFICES ASSUME IInv, filter_timer = 0 PROVE FALSE
    BY DEF ListenersAreKept
  <2>1. ControlOK /\ TimeOK
    BY DEF IInv
  <2>2. filter_timer # None
    BY DEF None
  <2>3. querier = "running"
    BY <2>1, <2>2, ControlTypes, Zenon
  <2>4. Kept /\ general_query_timer \in Nat /\ answer \in Timer
    BY <2>1, <2>2, <2>3, ControlTypes, Zenon DEF TimeOK
  <2>5. Delay \in Nat
    <3>1. PICK t \in Tank : t = choice.tank
      BY <2>1, ChosenTank
    <3>2. QED
      BY <2>1, <3>1, ChosenTimes, Zenon
  <2>6. (answer # None /\ 0 > answer) \/ 0 > general_query_timer + Delay
    BY <2>4, Zenon DEF Kept
  <2>7. answer # None => answer \in Nat
    BY <2>4 DEF Timer
  <2>8. QED
    BY <2>4, <2>5, <2>6, <2>7
<1>2. QED
  BY <1>1, QueriesInvariant, PTL
==============================================================================
