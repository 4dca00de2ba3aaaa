---------------------------- MODULE QuerierProofs ----------------------------
(***************************************************************************)
(* The inductive invariant of the querier, its proof and what follows from *)
(* it.  First come the operations a handler call is composed of: what each *)
(* does to a group record.  Then what each does to the invariant of the    *)
(* group, which is open for the sources just inserted until they get their *)
(* timer.  Then one lemma per handler, and the theorems.                   *)
(***************************************************************************)
EXTENDS Querier, TLAPS

(* The contexts of the handler calls.                                      *)
Ctx == [info : GaddrInfo, started : SUBSET Timer, sent : SUBSET Query,
        view : Membership]

(* A timer a handler allocates is a timer of the type, group and delay     *)
(* asked for, and never the null pointer.                                  *)
LEMMA NewTimerType ==
    ASSUME FreeStamps # {}, NEW g \in Groups, NEW type \in TimerTypes,
           NEW d \in {LLQI, LLQT, MALI, OHPI}
    PROVE  /\ NewTimer(type, g, d) \in Timer
           /\ NewTimer(type, g, d).type = type
           /\ NewTimer(type, g, d).gaddr = g
           /\ NewTimer(type, g, d) # NoTimer
<1>1. NewStamp \in Stamps
  BY DEF NewStamp, FreeStamps
<1>2. QED
  BY <1>1, NullAssumption DEF NewTimer, Timer

(* A function from some sources to list entries is a source list.          *)
LEMMA SourceListIntro ==
    ASSUME NEW S \in SUBSET Sources, NEW L \in [S -> Source]
    PROVE  L \in SourceList /\ DOMAIN L = S
  BY DEF SourceList

(* What a source list is: entries for some of the sources.                 *)
LEMMA SourceListElim ==
    ASSUME NEW L \in SourceList
    PROVE  /\ DOMAIN L \subseteq Sources
           /\ \A s \in DOMAIN L : L[s] \in Source
           /\ L \in [DOMAIN L -> Source]
  BY DEF SourceList

(* The two kinds of specific queries are well formed.                      *)
LEMMA QueryType ==
    ASSUME NEW g \in Groups, NEW b \in BOOLEAN, NEW S \in SUBSET Sources
    PROVE  GroupQuery(g, b) \in Query /\ SourceQuery(g, b, S) \in Query
<1>1. {} \in SUBSET Sources
  OBVIOUS
<1>2. GroupQuery(g, b) \in Query
  BY <1>1, Zenon DEF GroupQuery, Query
<1>3. SourceQuery(g, b, S) \in Query
  BY Zenon DEF SourceQuery, Query
<1>4. QED
  BY <1>2, <1>3

(* What mali(gaddr, filter_timer) does to a group record.                  *)
LEMMA MaliFilterLemma ==
    ASSUME FreeStamps # {}, NEW g \in Groups, NEW c \in Ctx,
           NEW r, r = mali_filter(c, g)
    PROVE  /\ r \in Ctx
           /\ r.info = [c.info EXCEPT !.shared_filter_timer =
                                          NewTimer("FILTER_TIMER", g, MALI)]
           /\ r.started = c.started \cup {NewTimer("FILTER_TIMER", g, MALI)}
<1> DEFINE ft == NewTimer("FILTER_TIMER", g, MALI)
<1>1. ft \in Timer
  BY NewTimerType DEF TimerTypes
<1> HIDE DEF ft
<1>2. r = [c EXCEPT !.info.shared_filter_timer = ft, !.started = @ \cup {ft}]
  BY DEF mali_filter, ft
<1>3. c.info \in GaddrInfo /\ c.started \subseteq Timer
  BY DEF Ctx
<1>4. [c.info EXCEPT !.shared_filter_timer = ft] \in GaddrInfo
  BY <1>1, <1>3 DEF GaddrInfo
<1>5. QED
  BY <1>1, <1>2, <1>3, <1>4 DEF Ctx, ft

(* What the sender does to the source list while it sends a source         *)
(* specific query: it counts down the sources in retransmission and        *)
(* touches no timer.                                                       *)
LEMMA SendSourceQueryLemma ==
    ASSUME NEW g \in Groups, NEW c \in Ctx,
           NEW r, r = send_source_query(c, g),
           NEW L, L = c.info.include_requested_list,
           NEW M, M = r.info.include_requested_list
    PROVE  /\ r \in Ctx
           /\ r.info = [c.info EXCEPT !.include_requested_list = M]
           /\ r.started = c.started
           /\ r.view = c.view
           /\ DOMAIN M = DOMAIN L
           /\ \A s \in DOMAIN L :
                /\ M[s].shared_source_timer = L[s].shared_source_timer
                /\ M[s].retransmission_count =
                      IF L[s].retransmission_count > 0
                      THEN L[s].retransmission_count - 1
                      ELSE L[s].retransmission_count
<1> DEFINE D  == {s \in DOMAIN L : L[s].retransmission_count > 0}
           Hi == {s \in D : is_remaining_time_greater_than(
                              c, L[s].shared_source_timer, LLQT)}
           N  == [s \in DOMAIN L |->
                    IF s \in D THEN [L[s] EXCEPT !.retransmission_count = @ - 1]
                               ELSE L[s]]
           Q  == (IF Hi # {} THEN {SourceQuery(g, TRUE, Hi)} ELSE {})
                 \cup (IF D \ Hi # {} THEN {SourceQuery(g, FALSE, D \ Hi)} ELSE {})
<1>2. c.info \in GaddrInfo /\ c.sent \subseteq Query
  BY DEF Ctx
<1>3. L \in SourceList
  BY <1>2 DEF GaddrInfo
<1>4. DOMAIN L \subseteq Sources /\ \A s \in DOMAIN L : L[s] \in Source
  BY <1>3, SourceListElim
<1>5. N \in SourceList
  <2>1. ASSUME NEW s \in DOMAIN L, L[s].retransmission_count > 0
        PROVE  [L[s] EXCEPT !.retransmission_count = @ - 1] \in Source
    BY <1>4, <2>1, TimingAssumption DEF Source
  <2>2. N \in [DOMAIN L -> Source]
    BY <1>4, <2>1
  <2>3. QED
    BY <1>4, <2>2, SourceListIntro
<1>6. Q \subseteq Query
  <2>1. Hi \in SUBSET Sources /\ D \ Hi \in SUBSET Sources
    BY <1>4
  <2> HIDE DEF Hi, D
  <2>2. SourceQuery(g, TRUE, Hi) \in Query /\ SourceQuery(g, FALSE, D \ Hi) \in Query
    BY <2>1, QueryType
  <2>3. QED
    BY <2>2
<1>7. [c.info EXCEPT !.include_requested_list = N] \in GaddrInfo
  BY <1>2, <1>5 DEF GaddrInfo
<1>8. r = [c EXCEPT !.info.include_requested_list = N, !.sent = @ \cup Q]
  BY DEF send_source_query
<1>9. /\ \A s \in DOMAIN L :
           /\ N[s].shared_source_timer = L[s].shared_source_timer
           /\ N[s].retransmission_count =
                      IF L[s].retransmission_count > 0
                      THEN L[s].retransmission_count - 1
                      ELSE L[s].retransmission_count
      /\ DOMAIN N = DOMAIN L
  BY <1>4 DEF Source
<1> HIDE DEF N, Q
<1>10. /\ r \in Ctx
       /\ r.info = [c.info EXCEPT !.include_requested_list = N]
       /\ r.started = c.started
       /\ r.view = c.view
  BY <1>2, <1>6, <1>7, <1>8 DEF Ctx
<1>11. M = N
  BY <1>2, <1>10 DEF GaddrInfo
<1>12. QED
  BY <1>9, <1>10, <1>11

(* Two group records that differ at most in the source list and its        *)
(* retransmission timer.                                                   *)
SameButSources(i, j) ==
    /\ i.filter_mode = j.filter_mode
    /\ i.shared_filter_timer = j.shared_filter_timer
    /\ i.compatibility_mode_variable = j.compatibility_mode_variable
    /\ i.older_host_present_timer = j.older_host_present_timer
    /\ i.group_retransmission_timer = j.group_retransmission_timer
    /\ i.group_retransmission_count = j.group_retransmission_count
    /\ i.exclude_list = j.exclude_list

(* What mali(gaddr, slist, tmp_slist) does to a group record.              *)
LEMMA MaliSourcesLemma ==
    ASSUME FreeStamps # {}, NEW g \in Groups, NEW c \in Ctx, NEW S,
           NEW r, r = mali_sources(c, g, S),
           NEW st, st = NewTimer("SOURCE_TIMER", g, MALI),
           NEW L, L = c.info.include_requested_list,
           NEW N, N = r.info.include_requested_list
    PROVE  /\ r \in Ctx
           /\ SameButSources(r.info, c.info)
           /\ r.info.source_retransmission_timer = c.info.source_retransmission_timer
           /\ DOMAIN N = DOMAIN L
           /\ \A s \in DOMAIN L :
                 IF s \in S THEN /\ N[s].shared_source_timer = st
                                 /\ N[s].retransmission_count = -1
                            ELSE N[s] = L[s]
           /\ c.started \subseteq r.started
           /\ S # {} => st \in r.started
<1> DEFINE M == [s \in DOMAIN L |->
                    IF s \in S THEN [shared_source_timer |-> st,
                                     retransmission_count |-> -1]
                               ELSE L[s]]
<1>1. st \in Timer
  BY NewTimerType DEF TimerTypes
<1>2. c.info \in GaddrInfo /\ c.started \subseteq Timer
  BY DEF Ctx
<1>3. L \in SourceList
  BY <1>2 DEF GaddrInfo
<1>4. M \in SourceList
  <2>1. [shared_source_timer |-> st, retransmission_count |-> -1] \in Source
    BY <1>1, TimingAssumption DEF Source
  <2>2. DOMAIN L \in SUBSET Sources /\ \A s \in DOMAIN L : L[s] \in Source
    BY <1>3, SourceListElim
  <2>3. M \in [DOMAIN L -> Source]
    BY <2>1, <2>2
  <2>4. QED
    BY <2>2, <2>3, SourceListIntro
<1> DEFINE T == IF S = {} THEN c.started ELSE c.started \cup {st}
<1>6. r = [c EXCEPT !.info.include_requested_list = M, !.started = T]
  BY DEF mali_sources
<1>8. T \subseteq Timer /\ c.started \subseteq T /\ (S # {} => st \in T)
  BY <1>1, <1>2
<1>9. /\ DOMAIN M = DOMAIN L
      /\ \A s \in DOMAIN L :
            IF s \in S THEN /\ M[s].shared_source_timer = st
                            /\ M[s].retransmission_count = -1
                       ELSE M[s] = L[s]
  OBVIOUS
<1> HIDE DEF T, M
<1> DEFINE I == [c.info EXCEPT !.include_requested_list = M]
<1>10. /\ I \in GaddrInfo /\ SameButSources(I, c.info)
       /\ I.source_retransmission_timer = c.info.source_retransmission_timer
       /\ I.include_requested_list = M
  BY <1>2, <1>4 DEF GaddrInfo, SameButSources
<1>11. r = [c EXCEPT !.info = I, !.started = T]
  BY <1>6
<1> HIDE DEF I
<1>12. r \in Ctx /\ r.info = I /\ r.started = T
  BY <1>8, <1>10, <1>11 DEF Ctx
<1>13. QED
  BY <1>8, <1>9, <1>10, <1>12

(* What send_Q for sources does to a group record: the queried sources     *)
(* not yet in retransmission get the new timer st, the others keep         *)
(* theirs, and as long as a count is left the next transmission rst is     *)
(* started.                                                                *)
LEMMA SendQSourcesLemma ==
    ASSUME FreeStamps # {}, NEW g \in Groups, NEW c \in Ctx, NEW S,
           NEW b \in BOOLEAN,
           NEW r, r = send_Q_sources(c, g, S, b),
           NEW st, st = NewTimer("SOURCE_TIMER", g, LLQT),
           NEW rst, rst = NewTimer("RET_SOURCE_TIMER", g, LLQI),
           NEW L, L = c.info.include_requested_list,
           NEW M, M = r.info.include_requested_list
    PROVE  /\ r \in Ctx
           /\ SameButSources(r.info, c.info)
           /\ DOMAIN M = DOMAIN L
           /\ \A s \in DOMAIN L :
                IF s \in S /\ L[s].retransmission_count < 1
                THEN M[s].shared_source_timer = st /\ st \in r.started
                ELSE /\ M[s].shared_source_timer = L[s].shared_source_timer
                     /\ M[s].retransmission_count <= L[s].retransmission_count
           /\ \/ ~ b /\ r = c
              \/ \A s \in DOMAIN L : M[s].retransmission_count <= 0
              \/ r.info.source_retransmission_timer = rst /\ rst \in r.started
           /\ c.started \subseteq r.started
           /\ r.view = c.view
<1> DEFINE Used == {s \in S \cap DOMAIN L : L[s].retransmission_count < 1}
           K    == [s \in DOMAIN L |->
                      IF s \in Used THEN [shared_source_timer |-> st,
                                          retransmission_count |-> LLQC]
                                    ELSE L[s]]
           T    == IF Used = {} THEN c.started ELSE c.started \cup {st}
           J    == [c.info EXCEPT !.include_requested_list = K]
           low  == [c EXCEPT !.info = J, !.started = T]
           out  == send_source_query(low, g)
           N    == out.info.include_requested_list
<1>1. st \in Timer /\ rst \in Timer
  BY NewTimerType DEF TimerTypes
<1>2. c.info \in GaddrInfo /\ c.started \subseteq Timer
  BY DEF Ctx
<1>3. L \in SourceList
  BY <1>2 DEF GaddrInfo
<1>4. DOMAIN L \subseteq Sources /\ \A s \in DOMAIN L : L[s] \in Source
  BY <1>3, SourceListElim
<1>5. K \in SourceList
  <2>1. [shared_source_timer |-> st, retransmission_count |-> LLQC] \in Source
    BY <1>1, TimingAssumption DEF Source
  <2>2. K \in [DOMAIN L -> Source]
    BY <1>4, <2>1
  <2>3. QED
    BY <1>4, <2>2, SourceListIntro
<1>6. T \subseteq Timer /\ c.started \subseteq T /\ (Used # {} => st \in T)
  BY <1>1, <1>2
<1>7. /\ DOMAIN K = DOMAIN L
      /\ \A s \in DOMAIN L :
            IF s \in S /\ L[s].retransmission_count < 1
            THEN K[s].shared_source_timer = st
            ELSE K[s] = L[s]
  OBVIOUS
<1>8. Used = {} \/ st \in T
  BY <1>6
<1>9. \A s \in DOMAIN L : s \in S /\ L[s].retransmission_count < 1 => s \in Used
  OBVIOUS
<1>10. r = CASE Used = {} /\ ~ b -> c
             [] OTHER ->
                  IF \E s \in DOMAIN N : N[s].retransmission_count > 0
                  THEN [out EXCEPT !.info.source_retransmission_timer = rst,
                                   !.started = @ \cup {rst}]
                  ELSE out
  BY DEF send_Q_sources
<1> HIDE DEF Used, K, T
<1>11. J \in GaddrInfo /\ SameButSources(J, c.info) /\ J.include_requested_list = K
  BY <1>2, <1>5 DEF GaddrInfo, SameButSources
<1> HIDE DEF J
<1>12. low \in Ctx /\ low.info = J /\ low.started = T /\ low.view = c.view
  BY <1>6, <1>11 DEF Ctx
<1> HIDE DEF low
<1>13. /\ out \in Ctx
       /\ out.info = [J EXCEPT !.include_requested_list = N]
       /\ out.started = T
       /\ out.view = c.view
       /\ DOMAIN N = DOMAIN K
       /\ \A s \in DOMAIN K :
             /\ N[s].shared_source_timer = K[s].shared_source_timer
             /\ N[s].retransmission_count =
                   IF K[s].retransmission_count > 0
                   THEN K[s].retransmission_count - 1
                   ELSE K[s].retransmission_count
  BY <1>11, <1>12, SendSourceQueryLemma
<1> HIDE DEF out
<1>14. SameButSources(out.info, c.info)
  BY <1>11, <1>13 DEF GaddrInfo, SameButSources
<1>15. N \in SourceList /\ \A s \in DOMAIN N : N[s].retransmission_count \in Int
  <2>1. N \in SourceList
    BY <1>13 DEF Ctx, GaddrInfo
  <2>2. QED
    BY <2>1, SourceListElim DEF Source
<1>b. \A s \in DOMAIN L : L[s].retransmission_count \in Int
  BY <1>4 DEF Source
<1>c. \A s \in DOMAIN L :
         IF s \in S /\ L[s].retransmission_count < 1
         THEN N[s].shared_source_timer = st
         ELSE /\ N[s].shared_source_timer = L[s].shared_source_timer
              /\ N[s].retransmission_count <= L[s].retransmission_count
  BY <1>7, <1>13, <1>b
<1>16. CASE Used = {} /\ ~ b
  <2>1. r = c
    BY <1>10, <1>16
  <2>2. QED
    BY <2>1, <1>9, <1>16, <1>b DEF SameButSources
<1>17. CASE ~ (Used = {} /\ ~ b) /\ ~ \E s \in DOMAIN N : N[s].retransmission_count > 0
  <2>1. r = out
    BY <1>10, <1>17
  <2>2. \A s \in DOMAIN L : M[s].retransmission_count <= 0
    BY <2>1, <1>7, <1>13, <1>15, <1>17
  <2>3. QED
    BY <2>1, <2>2, <1>6, <1>7, <1>9, <1>13, <1>14, <1>c
<1>18. CASE ~ (Used = {} /\ ~ b) /\ \E s \in DOMAIN N : N[s].retransmission_count > 0
  <2> DEFINE I == [out.info EXCEPT !.source_retransmission_timer = rst]
             U == T \cup {rst}
  <2>1. r = [out EXCEPT !.info = I, !.started = U]
    BY <1>10, <1>13, <1>18
  <2>2. /\ I \in GaddrInfo
        /\ I.source_retransmission_timer = rst
        /\ I.include_requested_list = N
        /\ SameButSources(I, c.info)
    BY <1>1, <1>13, <1>14 DEF Ctx, GaddrInfo, SameButSources
  <2>3. U \subseteq Timer /\ rst \in U /\ T \subseteq U
    BY <1>1, <1>6
  <2> HIDE DEF I, U
  <2>4. r \in Ctx /\ r.info = I /\ r.started = U /\ r.view = out.view
    BY <1>13, <2>1, <2>2, <2>3 DEF Ctx
  <2>5. QED
    BY <2>2, <2>3, <2>4, <1>6, <1>7, <1>9, <1>13, <1>c
<1>19. QED
  BY <1>16, <1>17, <1>18

(* Two group records that differ at most in filter timer and group         *)
(* retransmission.                                                         *)
SameButGroup(i, j) ==
    /\ i.filter_mode = j.filter_mode
    /\ i.compatibility_mode_variable = j.compatibility_mode_variable
    /\ i.older_host_present_timer = j.older_host_present_timer
    /\ i.source_retransmission_timer = j.source_retransmission_timer
    /\ i.include_requested_list = j.include_requested_list
    /\ i.exclude_list = j.exclude_list

(* The three assignments of send_Q for a group.                            *)
SetGroup(i, f, n, t) == [i EXCEPT !.shared_filter_timer = f,
                                  !.group_retransmission_count = n,
                                  !.group_retransmission_timer = t]

(* The three assignments of send_Q for a group, field by field.            *)
LEMMA SetGroupLemma ==
    ASSUME NEW i \in GaddrInfo, NEW f \in Timer \cup {NoTimer},
           NEW n \in -1 .. LLQC, NEW t \in Timer \cup {NoTimer}
    PROVE  /\ SetGroup(i, f, n, t) \in GaddrInfo
           /\ SameButGroup(SetGroup(i, f, n, t), i)
           /\ SetGroup(i, f, n, t).shared_filter_timer = f
           /\ SetGroup(i, f, n, t).group_retransmission_count = n
           /\ SetGroup(i, f, n, t).group_retransmission_timer = t
<1> DEFINE A == [i EXCEPT !.shared_filter_timer = f]
           B == [A EXCEPT !.group_retransmission_count = n]
           C == [B EXCEPT !.group_retransmission_timer = t]
<1>1. A \in GaddrInfo /\ SameButGroup(A, i) /\ A.shared_filter_timer = f
  BY DEF GaddrInfo, SameButGroup
<1>2. SetGroup(i, f, n, t) = C
  BY DEF SetGroup
<1> HIDE DEF A
<1>3. /\ B \in GaddrInfo /\ SameButGroup(B, i)
      /\ B.shared_filter_timer = f /\ B.group_retransmission_count = n
  BY <1>1 DEF GaddrInfo, SameButGroup
<1> HIDE DEF B
<1>4. QED
  BY <1>2, <1>3 DEF GaddrInfo, SameButGroup

(* What send_Q for a group does to a group record: the first query         *)
(* replaces the filter timer, and a count that is left has its             *)
(* retransmission timer started.                                           *)
LEMMA SendQGroupLemma ==
    ASSUME FreeStamps # {}, NEW g \in Groups, NEW c \in Ctx,
           NEW r, r = send_Q_group(c, g),
           NEW ft, ft = NewTimer("FILTER_TIMER", g, LLQT),
           NEW rt, rt = NewTimer("RET_GROUP_TIMER", g, LLQI)
    PROVE  /\ r \in Ctx
           /\ SameButGroup(r.info, c.info)
           /\ IF c.info.group_retransmission_timer = NoTimer
              THEN r.info.shared_filter_timer = ft /\ ft \in r.started
              ELSE r.info.shared_filter_timer = c.info.shared_filter_timer
           /\ r.info.group_retransmission_count > 0
              => r.info.group_retransmission_timer = rt /\ rt \in r.started
           /\ c.started \subseteq r.started
           /\ r.view = c.view
<1> DEFINE i     == c.info
           begin == i.group_retransmission_timer = NoTimer
           f     == IF begin THEN ft ELSE i.shared_filter_timer
           count == IF begin THEN LLQC ELSE i.group_retransmission_count
           lower == IF begin THEN {f} ELSE {}
           again == IF count > 1 THEN {rt} ELSE {}
           flag  == is_remaining_time_greater_than(c, f, LLQT)
           rt2   == IF count > 1 THEN rt ELSE i.group_retransmission_timer
<1>1. ft \in Timer /\ rt \in Timer
  BY NewTimerType DEF TimerTypes
<1>2. c.info \in GaddrInfo /\ c.started \subseteq Timer /\ c.sent \subseteq Query
  BY DEF Ctx
<1>3. /\ f \in Timer \cup {NoTimer}
      /\ rt2 \in Timer \cup {NoTimer}
      /\ count \in -1 .. LLQC
      /\ lower \subseteq Timer /\ again \subseteq Timer
  BY <1>1, <1>2, TimingAssumption DEF GaddrInfo
<1>a. /\ begin => f = ft /\ ft \in lower
      /\ ~ begin => f = i.shared_filter_timer
      /\ count > 1 => rt \in again /\ rt2 = rt
  BY <1>1, <1>2, TimingAssumption DEF GaddrInfo
<1>4. flag \in BOOLEAN
  BY Zenon DEF is_remaining_time_greater_than
<1>5. GroupQuery(g, flag) \in Query
  BY <1>4, QueryType
<1>6. r = IF count > 0
          THEN [c EXCEPT !.info = [i EXCEPT
                             !.shared_filter_timer = f,
                             !.group_retransmission_count = count - 1,
                             !.group_retransmission_timer = rt2],
                         !.started = @ \cup lower \cup again,
                         !.sent = @ \cup {GroupQuery(g, flag)}]
          ELSE [c EXCEPT !.info = [i EXCEPT
                             !.shared_filter_timer = f,
                             !.group_retransmission_count = -1,
                             !.group_retransmission_timer = NoTimer],
                         !.started = @ \cup lower]
  BY DEF send_Q_group
<1> HIDE DEF f, rt2, lower, again, flag
<1>7. CASE count > 0
  <2> DEFINE n == count - 1
             I == SetGroup(i, f, n, rt2)
             U == c.started \cup lower \cup again
             Q == c.sent \cup {GroupQuery(g, flag)}
  <2>1. r = [c EXCEPT !.info = I, !.started = U, !.sent = Q]
    BY <1>6, <1>7 DEF SetGroup
  <2>2. U \subseteq Timer /\ Q \subseteq Query
    BY <1>2, <1>3, <1>5
  <2>3. n \in -1 .. LLQC /\ (n > 0 => count > 1)
    BY <1>3, <1>7, TimingAssumption
  <2> HIDE DEF n, count
  <2>4. /\ I \in GaddrInfo /\ SameButGroup(I, c.info)
        /\ I.shared_filter_timer = f
        /\ I.group_retransmission_count = n
        /\ I.group_retransmission_timer = rt2
    BY <1>2, <1>3, <2>3, SetGroupLemma
  <2> HIDE DEF I, Q
  <2>5. r \in Ctx /\ r.info = I /\ r.started = U /\ r.view = c.view
    BY <2>1, <2>2, <2>4 DEF Ctx
  <2>6. QED
    BY <1>a, <2>3, <2>4, <2>5
<1>8. CASE ~ (count > 0)
  <2> DEFINE n == -1
             I == SetGroup(i, f, n, NoTimer)
             U == c.started \cup lower
  <2>1. r = [c EXCEPT !.info = I, !.started = U]
    BY <1>6, <1>8 DEF SetGroup
  <2>2. U \subseteq Timer
    BY <1>2, <1>3
  <2>3. n \in -1 .. LLQC /\ ~ (n > 0)
    BY TimingAssumption
  <2> HIDE DEF n, count
  <2>4. /\ I \in GaddrInfo /\ SameButGroup(I, c.info)
        /\ I.shared_filter_timer = f
        /\ I.group_retransmission_count = n
    BY <1>2, <1>3, <2>3, SetGroupLemma
  <2> HIDE DEF I
  <2>5. r \in Ctx /\ r.info = I /\ r.started = U /\ r.view = c.view
    BY <2>1, <2>2, <2>4 DEF Ctx
  <2>6. QED
    BY <1>a, <2>3, <2>4, <2>5
<1>9. QED
  BY <1>7, <1>8

(* Two group records that differ at most in their two lists.               *)
SameButLists(i, j) ==
    /\ i.filter_mode = j.filter_mode
    /\ i.shared_filter_timer = j.shared_filter_timer
    /\ i.compatibility_mode_variable = j.compatibility_mode_variable
    /\ i.older_host_present_timer = j.older_host_present_timer
    /\ i.group_retransmission_timer = j.group_retransmission_timer
    /\ i.group_retransmission_count = j.group_retransmission_count
    /\ i.source_retransmission_timer = j.source_retransmission_timer

(* Assigning the two lists of a group changes nothing else.                *)
LEMMA SetListsLemma ==
    ASSUME NEW c \in Ctx, NEW L \in SourceList, NEW E \in SUBSET Sources,
           NEW r, r = SetLists(c, L, E)
    PROVE  /\ r \in Ctx
           /\ SameButLists(r.info, c.info)
           /\ r.info.include_requested_list = L
           /\ r.info.exclude_list = E
           /\ r.started = c.started
<1> DEFINE A == [c.info EXCEPT !.include_requested_list = L]
           I == [A EXCEPT !.exclude_list = E]
<1>1. c.info \in GaddrInfo
  BY DEF Ctx
<1>2. A \in GaddrInfo /\ SameButLists(A, c.info) /\ A.include_requested_list = L
  BY <1>1 DEF GaddrInfo, SameButLists
<1>3. r = [c EXCEPT !.info = I]
  BY DEF SetLists
<1> HIDE DEF A
<1>4. /\ I \in GaddrInfo /\ SameButLists(I, c.info)
      /\ I.include_requested_list = L /\ I.exclude_list = E
  BY <1>2 DEF GaddrInfo, SameButLists
<1> HIDE DEF I
<1>5. r \in Ctx /\ r.info = I /\ r.started = c.started
  BY <1>3, <1>4 DEF Ctx
<1>6. QED
  BY <1>4, <1>5

(* Assigning the filter mode changes nothing else.                         *)
LEMMA SetModeLemma ==
    ASSUME NEW c \in Ctx, NEW m \in FilterModes, NEW r, r = SetMode(c, m)
    PROVE  /\ r \in Ctx
           /\ r.info.filter_mode = m
           /\ r.info.include_requested_list = c.info.include_requested_list
           /\ r.info.exclude_list = c.info.exclude_list
           /\ r.info.older_host_present_timer = c.info.older_host_present_timer
           /\ r.info.group_retransmission_timer = c.info.group_retransmission_timer
           /\ r.info.group_retransmission_count = c.info.group_retransmission_count
           /\ r.info.source_retransmission_timer = c.info.source_retransmission_timer
           /\ r.info.shared_filter_timer = c.info.shared_filter_timer
           /\ r.started = c.started
<1> DEFINE I == [c.info EXCEPT !.filter_mode = m]
<1>1. c.info \in GaddrInfo
  BY DEF Ctx
<1>2. r = [c EXCEPT !.info = I]
  BY DEF SetMode
<1>3. /\ I \in GaddrInfo
      /\ I.filter_mode = m
      /\ I.include_requested_list = c.info.include_requested_list
      /\ I.exclude_list = c.info.exclude_list
      /\ I.older_host_present_timer = c.info.older_host_present_timer
      /\ I.group_retransmission_timer = c.info.group_retransmission_timer
      /\ I.group_retransmission_count = c.info.group_retransmission_count
      /\ I.source_retransmission_timer = c.info.source_retransmission_timer
      /\ I.shared_filter_timer = c.info.shared_filter_timer
  BY <1>1 DEF GaddrInfo
<1> HIDE DEF I
<1>4. r \in Ctx /\ r.info = I /\ r.started = c.started
  BY <1>2, <1>3 DEF Ctx
<1>5. QED
  BY <1>3, <1>4

(* The membership of a well formed group record is well formed.            *)
LEMMA MembershipType ==
    ASSUME NEW i \in GaddrInfo
    PROVE  MembershipOf(i) \in Membership
<1>1. Requested(i) \in SUBSET Sources
  <2>1. i.include_requested_list \in SourceList
    BY DEF GaddrInfo
  <2>2. QED
    BY <2>1, SourceListElim DEF Requested
<1>2. i.exclude_list \in SUBSET Sources /\ i.filter_mode \in FilterModes
  BY DEF GaddrInfo
<1>3. QED
  BY <1>1, <1>2 DEF MembershipOf, Membership, FilterModes

(* A notification leaves the group record and the started timers alone.    *)
LEMMA NotifyLemma ==
    ASSUME NEW c \in Ctx
    PROVE  /\ Notify(c) \in Ctx
           /\ Notify(c).info = c.info
           /\ Notify(c).started = c.started
<1>1. c.info \in GaddrInfo
  BY DEF Ctx
<1>2. MembershipOf(c.info) \in Membership
  BY <1>1, MembershipType
<1>3. QED
  BY <1>2 DEF Notify, Ctx

(* l += r keeps the entries of l and adds new ones for the rest of r.      *)
LEMMA PlusLemma ==
    ASSUME NEW L \in SourceList, NEW S \in SUBSET Sources
    PROVE  /\ Plus(L, S) \in SourceList
           /\ DOMAIN Plus(L, S) = DOMAIN L \cup S
           /\ \A s \in DOMAIN L : Plus(L, S)[s] = L[s]
           /\ \A s \in S \ DOMAIN L : Plus(L, S)[s] = NewSource
<1>1. DOMAIN L \subseteq Sources /\ \A s \in DOMAIN L : L[s] \in Source
  BY SourceListElim
<1>2. NewSource \in Source
  BY TimingAssumption DEF NewSource, Source
<1>3. Plus(L, S) \in [DOMAIN L \cup S -> Source]
  BY <1>1, <1>2 DEF Plus
<1>4. Plus(L, S) \in SourceList
  BY <1>1, <1>3, SourceListIntro
<1>5. QED
  BY <1>4 DEF Plus

(* l *= r keeps the entries of l that are in r.                            *)
LEMMA TimesLemma ==
    ASSUME NEW L \in SourceList, NEW S
    PROVE  /\ Times(L, S) \in SourceList
           /\ DOMAIN Times(L, S) = DOMAIN L \cap S
           /\ \A s \in DOMAIN L \cap S : Times(L, S)[s] = L[s]
<1>1. DOMAIN L \subseteq Sources /\ \A s \in DOMAIN L : L[s] \in Source
  BY SourceListElim
<1>2. Times(L, S) \in [DOMAIN L \cap S -> Source]
  BY <1>1 DEF Times
<1>3. Times(L, S) \in SourceList
  BY <1>1, <1>2, SourceListIntro
<1>4. QED
  BY <1>3 DEF Times

-----------------------------------------------------------------------------
(* t is one of the timers in P, of this type and group.                    *)
RunIn(t, type, g, P) == t \in P /\ t.type = type /\ t.gaddr = g

(* The part of the invariant of one group that no handler may leave open:  *)
(* every source but the ones in Z, which were just inserted, has a         *)
(* running timer; a retransmission has its next transmission running; an   *)
(* older host present timer runs.                                          *)
Core(i, g, P, Z) ==
    LET L == i.include_requested_list IN
    /\ \A s \in DOMAIN L :
          IF s \in Z THEN L[s].retransmission_count < 1
                     ELSE RunIn(L[s].shared_source_timer, "SOURCE_TIMER", g, P)
    /\ (\E s \in DOMAIN L : L[s].retransmission_count > 0)
       => RunIn(i.source_retransmission_timer, "RET_SOURCE_TIMER", g, P)
    /\ i.group_retransmission_count > 0
       => RunIn(i.group_retransmission_timer, "RET_GROUP_TIMER", g, P)
    /\ i.older_host_present_timer # NoTimer
       => RunIn(i.older_host_present_timer, "OLDER_HOST_PRESENT_TIMER", g, P)

(* FilterModeInv for one group with P as the running timers.               *)
FilterPart(i, g, P) ==
    IF i.filter_mode = "EXCLUDE_MODE"
    THEN /\ RunIn(i.shared_filter_timer, "FILTER_TIMER", g, P)
         /\ Requested(i) \cap i.exclude_list = {}
    ELSE /\ i.shared_filter_timer = NoTimer
         /\ i.exclude_list = {}

(* The inductive invariant of one group.                                   *)
GroupOK(i, g, P) == Core(i, g, P, {}) /\ FilterPart(i, g, P)

(* Names for the set operations the lemmas below are instantiated with:    *)
(* the provers match a name more easily than an expanded set.              *)
Within(S, T) == S \subseteq T

Apart(S, T) == S \cap T = {}

Without(S, T) == S \ T

Joined(S, T) == S \cup T

Common(S, T) == S \cap T

(* The invariant in the middle of a handler call: P are the timers         *)
(* running before, the context adds the ones it has started.               *)
CoreIn(c, g, P, Z) == Core(c.info, g, P \cup c.started, Z)

FilterIn(c, g, P) == FilterPart(c.info, g, P \cup c.started)

GroupIn(c, g, P) == GroupOK(c.info, g, P \cup c.started)

(* M keeps the entries of L and has new sources in Z only.                 *)
NewIn(M, L, Z) ==
    \A s \in DOMAIN M :
       IF s \in DOMAIN L THEN M[s] = L[s] /\ s \notin Z
                         ELSE M[s] = NewSource /\ s \in Z

(* Two group records that differ at most in the filter timer.              *)
SameButFilterTimer(i, j) ==
    /\ i.filter_mode = j.filter_mode
    /\ i.compatibility_mode_variable = j.compatibility_mode_variable
    /\ i.older_host_present_timer = j.older_host_present_timer
    /\ i.group_retransmission_timer = j.group_retransmission_timer
    /\ i.group_retransmission_count = j.group_retransmission_count
    /\ i.source_retransmission_timer = j.source_retransmission_timer
    /\ i.include_requested_list = j.include_requested_list
    /\ i.exclude_list = j.exclude_list

(* Two group records that differ at most in the older host state.          *)
SameButOhpt(i, j) ==
    /\ i.filter_mode = j.filter_mode
    /\ i.shared_filter_timer = j.shared_filter_timer
    /\ i.group_retransmission_timer = j.group_retransmission_timer
    /\ i.group_retransmission_count = j.group_retransmission_count
    /\ i.source_retransmission_timer = j.source_retransmission_timer
    /\ i.include_requested_list = j.include_requested_list
    /\ i.exclude_list = j.exclude_list

(* What the group record of a context is made of.                          *)
LEMMA CtxInfo ==
    ASSUME NEW c \in Ctx
    PROVE  /\ c.info \in GaddrInfo
           /\ c.info.include_requested_list \in SourceList
           /\ c.info.exclude_list \in SUBSET Sources
           /\ c.info.filter_mode \in FilterModes
           /\ DOMAIN c.info.include_requested_list \in SUBSET Sources
           /\ \A s \in DOMAIN c.info.include_requested_list :
                 c.info.include_requested_list[s].retransmission_count \in Int
<1>1. c.info \in GaddrInfo
  BY DEF Ctx
<1>2. /\ c.info.include_requested_list \in SourceList
      /\ c.info.exclude_list \in SUBSET Sources
      /\ c.info.filter_mode \in FilterModes
  BY <1>1 DEF GaddrInfo
<1>3. /\ DOMAIN c.info.include_requested_list \in SUBSET Sources
      /\ \A s \in DOMAIN c.info.include_requested_list :
            c.info.include_requested_list[s] \in Source
  BY <1>2, SourceListElim
<1>4. QED
  BY <1>1, <1>2, <1>3 DEF Source

(* Starting the timers of S closes the invariant when S covers the new     *)
(* sources.                                                                *)
LEMMA MaliSourcesOK ==
    ASSUME FreeStamps # {}, NEW g \in Groups, NEW c \in Ctx, NEW P, NEW Z, NEW S,
           CoreIn(c, g, P, Z),
           Within(Z, S),
           NEW r, r = mali_sources(c, g, S)
    PROVE  /\ r \in Ctx
           /\ CoreIn(r, g, P, {})
           /\ r.info.filter_mode = c.info.filter_mode
           /\ r.info.exclude_list = c.info.exclude_list
           /\ r.info.shared_filter_timer = c.info.shared_filter_timer
           /\ DOMAIN r.info.include_requested_list
                 = DOMAIN c.info.include_requested_list
           /\ c.started \subseteq r.started
<1> DEFINE st == NewTimer("SOURCE_TIMER", g, MALI)
           L  == c.info.include_requested_list
           N  == r.info.include_requested_list
<1>1. /\ r \in Ctx
      /\ SameButSources(r.info, c.info)
      /\ r.info.source_retransmission_timer = c.info.source_retransmission_timer
      /\ DOMAIN N = DOMAIN L
      /\ \A s \in DOMAIN L :
            IF s \in S THEN /\ N[s].shared_source_timer = st
                            /\ N[s].retransmission_count = -1
                       ELSE N[s] = L[s]
      /\ c.started \subseteq r.started
      /\ S # {} => st \in r.started
  BY MaliSourcesLemma
<1>2. st.type = "SOURCE_TIMER" /\ st.gaddr = g
  BY NewTimerType DEF TimerTypes
<1> HIDE DEF st
<1>3. CoreIn(r, g, P, {})
  BY <1>1, <1>2 DEF CoreIn, Core, RunIn, SameButSources, Within
<1>4. QED
  BY <1>1, <1>3 DEF SameButSources

(* A query for S keeps the invariant and closes it for the sources in S.   *)
LEMMA SendQSourcesOK ==
    ASSUME FreeStamps # {}, NEW g \in Groups, NEW c \in Ctx, NEW P, NEW Z, NEW S,
           NEW b \in BOOLEAN,
           CoreIn(c, g, P, Z),
           NEW r, r = send_Q_sources(c, g, S, b)
    PROVE  /\ r \in Ctx
           /\ CoreIn(r, g, P, Without(Z, S))
           /\ r.info.filter_mode = c.info.filter_mode
           /\ r.info.exclude_list = c.info.exclude_list
           /\ r.info.shared_filter_timer = c.info.shared_filter_timer
           /\ DOMAIN r.info.include_requested_list
                 = DOMAIN c.info.include_requested_list
           /\ c.started \subseteq r.started
<1> DEFINE st == NewTimer("SOURCE_TIMER", g, LLQT)
           rst == NewTimer("RET_SOURCE_TIMER", g, LLQI)
           L  == c.info.include_requested_list
           M  == r.info.include_requested_list
<1>1. /\ r \in Ctx
      /\ SameButSources(r.info, c.info)
      /\ DOMAIN M = DOMAIN L
      /\ \A s \in DOMAIN L :
           IF s \in S /\ L[s].retransmission_count < 1
           THEN M[s].shared_source_timer = st /\ st \in r.started
           ELSE /\ M[s].shared_source_timer = L[s].shared_source_timer
                /\ M[s].retransmission_count <= L[s].retransmission_count
      /\ \/ r = c
         \/ \A s \in DOMAIN L : M[s].retransmission_count <= 0
         \/ r.info.source_retransmission_timer = rst /\ rst \in r.started
      /\ c.started \subseteq r.started
  BY SendQSourcesLemma
<1>2. /\ st.type = "SOURCE_TIMER" /\ st.gaddr = g
      /\ rst.type = "RET_SOURCE_TIMER" /\ rst.gaddr = g
  BY NewTimerType DEF TimerTypes
<1> HIDE DEF st, rst
<1>3. /\ \A s \in DOMAIN L : L[s].retransmission_count \in Int
      /\ \A s \in DOMAIN M : M[s].retransmission_count \in Int
  BY <1>1, CtxInfo
<1>4. \A s \in DOMAIN M :
         IF s \in Z \ S THEN M[s].retransmission_count < 1
         ELSE RunIn(M[s].shared_source_timer, "SOURCE_TIMER", g, P \cup r.started)
  <2> SUFFICES ASSUME NEW s \in DOMAIN M
               PROVE  IF s \in Z \ S THEN M[s].retransmission_count < 1
                      ELSE RunIn(M[s].shared_source_timer, "SOURCE_TIMER", g,
                                 P \cup r.started)
    OBVIOUS
  <2>1. CASE s \in S /\ L[s].retransmission_count < 1
    BY <1>1, <1>2, <2>1 DEF RunIn
  <2>2. CASE ~ (s \in S /\ L[s].retransmission_count < 1)
    BY <1>1, <1>3, <2>2 DEF CoreIn, Core, RunIn
  <2>3. QED
    BY <2>1, <2>2
<1>5. (\E s \in DOMAIN M : M[s].retransmission_count > 0)
      => RunIn(r.info.source_retransmission_timer, "RET_SOURCE_TIMER", g,
               P \cup r.started)
  <2>1. CASE r = c
    BY <2>1 DEF CoreIn, Core
  <2>2. CASE \A s \in DOMAIN L : M[s].retransmission_count <= 0
    BY <1>1, <1>3, <2>2
  <2>3. CASE r.info.source_retransmission_timer = rst /\ rst \in r.started
    BY <1>2, <2>3 DEF RunIn
  <2>4. QED
    BY <1>1, <2>1, <2>2, <2>3
<1>6. CoreIn(r, g, P, Without(Z, S))
  BY <1>1, <1>4, <1>5 DEF CoreIn, Core, RunIn, SameButSources, Without
<1>7. QED
  BY <1>1, <1>6 DEF SameButSources

(* A group query keeps the invariant of a group in EXCLUDE mode or in      *)
(* retransmission.                                                         *)
LEMMA SendQGroupOK ==
    ASSUME FreeStamps # {}, NEW g \in Groups, NEW c \in Ctx, NEW P, NEW Z,
           CoreIn(c, g, P, Z),
           FilterIn(c, g, P),
           c.info.filter_mode = "EXCLUDE_MODE"
              \/ c.info.group_retransmission_timer # NoTimer,
           NEW r, r = send_Q_group(c, g)
    PROVE  /\ r \in Ctx
           /\ CoreIn(r, g, P, Z)
           /\ FilterIn(r, g, P)
           /\ r.info.filter_mode = c.info.filter_mode
           /\ r.info.exclude_list = c.info.exclude_list
           /\ r.info.include_requested_list = c.info.include_requested_list
           /\ c.started \subseteq r.started
<1> DEFINE ft == NewTimer("FILTER_TIMER", g, LLQT)
           rt == NewTimer("RET_GROUP_TIMER", g, LLQI)
<1>1. /\ r \in Ctx
      /\ SameButGroup(r.info, c.info)
      /\ IF c.info.group_retransmission_timer = NoTimer
         THEN r.info.shared_filter_timer = ft /\ ft \in r.started
         ELSE r.info.shared_filter_timer = c.info.shared_filter_timer
      /\ r.info.group_retransmission_count > 0
         => r.info.group_retransmission_timer = rt /\ rt \in r.started
      /\ c.started \subseteq r.started
  BY SendQGroupLemma
<1>2. /\ ft.type = "FILTER_TIMER" /\ ft.gaddr = g
      /\ rt.type = "RET_GROUP_TIMER" /\ rt.gaddr = g
  BY NewTimerType DEF TimerTypes
<1> HIDE DEF ft, rt
<1>3. CoreIn(r, g, P, Z)
  BY <1>1, <1>2 DEF CoreIn, Core, RunIn, SameButGroup
<1>4. FilterIn(r, g, P)
  BY <1>1, <1>2 DEF FilterIn, FilterPart, RunIn, SameButGroup, Requested
<1>5. QED
  BY <1>1, <1>3, <1>4 DEF SameButGroup

(* Starting the filter timer of a group in EXCLUDE mode with disjoint      *)
(* lists establishes its invariant.                                        *)
LEMMA MaliFilterOK ==
    ASSUME FreeStamps # {}, NEW g \in Groups, NEW c \in Ctx, NEW P,
           CoreIn(c, g, P, {}),
           c.info.filter_mode = "EXCLUDE_MODE",
           Apart(Requested(c.info), c.info.exclude_list),
           NEW r, r = mali_filter(c, g)
    PROVE  /\ r \in Ctx
           /\ GroupIn(r, g, P)
           /\ r.info.filter_mode = c.info.filter_mode
           /\ r.info.exclude_list = c.info.exclude_list
           /\ r.info.include_requested_list = c.info.include_requested_list
           /\ c.started \subseteq r.started
<1> DEFINE ft == NewTimer("FILTER_TIMER", g, MALI)
<1>1. /\ r \in Ctx
      /\ r.info = [c.info EXCEPT !.shared_filter_timer = ft]
      /\ r.started = c.started \cup {ft}
  BY MaliFilterLemma
<1>2. ft.type = "FILTER_TIMER" /\ ft.gaddr = g
  BY NewTimerType DEF TimerTypes
<1> HIDE DEF ft
<1>3. /\ r.info.shared_filter_timer = ft
      /\ SameButFilterTimer(r.info, c.info)
  BY <1>1, CtxInfo DEF GaddrInfo, SameButFilterTimer
<1>4. CoreIn(r, g, P, {})
  BY <1>1, <1>3 DEF CoreIn, Core, RunIn, SameButFilterTimer
<1>5. FilterIn(r, g, P)
  BY <1>1, <1>2, <1>3 DEF FilterIn, FilterPart, Apart, RunIn, SameButFilterTimer, Requested
<1>6. QED
  BY <1>1, <1>3, <1>4, <1>5 DEF CoreIn, FilterIn, GroupIn, GroupOK, SameButFilterTimer

(* Assigning the lists opens the invariant for the new sources only.       *)
LEMMA SetListsOK ==
    ASSUME NEW g, NEW c \in Ctx, NEW P, CoreIn(c, g, P, {}),
           NEW M \in SourceList, NEW E \in SUBSET Sources, NEW Z,
           NewIn(M, c.info.include_requested_list, Z),
           NEW r, r = SetLists(c, M, E)
    PROVE  /\ r \in Ctx
           /\ CoreIn(r, g, P, Z)
           /\ r.info.include_requested_list = M
           /\ r.info.exclude_list = E
           /\ r.info.filter_mode = c.info.filter_mode
           /\ r.info.shared_filter_timer = c.info.shared_filter_timer
           /\ r.started = c.started
<1>1. /\ r \in Ctx
      /\ SameButLists(r.info, c.info)
      /\ r.info.include_requested_list = M
      /\ r.info.exclude_list = E
      /\ r.started = c.started
  BY SetListsLemma
<1>2. NewSource.retransmission_count = -1
  BY DEF NewSource
<1> DEFINE L == c.info.include_requested_list
<1>3. \A s \in DOMAIN M :
         \/ s \in Z /\ M[s].retransmission_count = -1
         \/ s \notin Z /\ s \in DOMAIN L /\ M[s] = L[s]
  BY <1>2 DEF NewIn
<1>c. \A s \in DOMAIN L :
         RunIn(L[s].shared_source_timer, "SOURCE_TIMER", g, P \cup c.started)
  BY DEF CoreIn, Core
<1>4. \A s \in DOMAIN M :
         IF s \in Z THEN M[s].retransmission_count < 1
         ELSE RunIn(M[s].shared_source_timer, "SOURCE_TIMER", g, P \cup r.started)
  <2> TAKE s \in DOMAIN M
  <2>1. CASE s \in Z
    BY <1>3, <2>1
  <2>2. CASE s \notin Z
    BY <1>1, <1>3, <1>c, <2>2
  <2>3. QED
    BY <2>1, <2>2
<1>5. (\E s \in DOMAIN M : M[s].retransmission_count > 0)
      => RunIn(r.info.source_retransmission_timer, "RET_SOURCE_TIMER", g,
               P \cup r.started)
  BY <1>1, <1>3 DEF CoreIn, Core, SameButLists
<1>6. CoreIn(r, g, P, Z)
  BY <1>1, <1>4, <1>5 DEF CoreIn, Core, SameButLists
<1>7. QED
  BY <1>1, <1>6 DEF SameButLists

(* Assigning the mode keeps the part of the invariant that is not about    *)
(* it.                                                                     *)
LEMMA SetModeOK ==
    ASSUME NEW g, NEW c \in Ctx, NEW P, NEW Z, CoreIn(c, g, P, Z),
           NEW m \in FilterModes, NEW r, r = SetMode(c, m)
    PROVE  /\ r \in Ctx
           /\ CoreIn(r, g, P, Z)
           /\ r.info.include_requested_list = c.info.include_requested_list
           /\ r.info.exclude_list = c.info.exclude_list
           /\ r.info.filter_mode = m
           /\ r.started = c.started
<1>1. /\ r \in Ctx
      /\ r.info.filter_mode = m
      /\ r.info.include_requested_list = c.info.include_requested_list
      /\ r.info.exclude_list = c.info.exclude_list
      /\ r.info.older_host_present_timer = c.info.older_host_present_timer
      /\ r.info.group_retransmission_timer = c.info.group_retransmission_timer
      /\ r.info.group_retransmission_count = c.info.group_retransmission_count
      /\ r.info.source_retransmission_timer = c.info.source_retransmission_timer
      /\ r.started = c.started
  BY SetModeLemma
<1>2. QED
  BY <1>1 DEF CoreIn, Core

-----------------------------------------------------------------------------
(* l += S opens the invariant for the sources that were not in l.          *)
LEMMA AddSourcesOK ==
    ASSUME NEW g, NEW c \in Ctx, NEW P, CoreIn(c, g, P, {}),
           NEW L, L = c.info.include_requested_list,
           NEW S, Within(S, Sources), NEW E, Within(E, Sources),
           NEW Z, Z = Without(S, DOMAIN L),
           NEW r, r = SetLists(c, Plus(L, S), E)
    PROVE  /\ r \in Ctx
           /\ CoreIn(r, g, P, Z)
           /\ Requested(r.info) = Joined(DOMAIN L, S)
           /\ r.info.exclude_list = E
           /\ r.info.filter_mode = c.info.filter_mode
           /\ r.info.shared_filter_timer = c.info.shared_filter_timer
           /\ r.started = c.started
<1> DEFINE M == Plus(L, S)
<1>0. E \in SUBSET Sources /\ S \in SUBSET Sources
  BY DEF Within, Without
<1>1. L \in SourceList
  BY CtxInfo
<1>2. /\ M \in SourceList
      /\ DOMAIN M = DOMAIN L \cup S
      /\ \A s \in DOMAIN L : M[s] = L[s]
      /\ \A s \in S \ DOMAIN L : M[s] = NewSource
  BY <1>0, <1>1, PlusLemma
<1> HIDE DEF M
<1>3. NewIn(M, c.info.include_requested_list, Z)
  BY <1>2 DEF NewIn, Without
<1>4. r = SetLists(c, M, E)
  BY DEF M
<1>5. /\ r \in Ctx
      /\ CoreIn(r, g, P, Z)
      /\ r.info.include_requested_list = M
      /\ r.info.exclude_list = E
      /\ r.info.filter_mode = c.info.filter_mode
      /\ r.info.shared_filter_timer = c.info.shared_filter_timer
      /\ r.started = c.started
  BY <1>0, <1>2, <1>3, <1>4, SetListsOK
<1>6. QED
  BY <1>2, <1>5 DEF Requested, Joined

(* l *= S keeps the invariant.                                             *)
LEMMA KeepSourcesOK ==
    ASSUME NEW g, NEW c \in Ctx, NEW P, CoreIn(c, g, P, {}),
           NEW L, L = c.info.include_requested_list,
           NEW S, Within(S, Sources), NEW E, Within(E, Sources),
           NEW r, r = SetLists(c, Times(L, S), E)
    PROVE  /\ r \in Ctx
           /\ CoreIn(r, g, P, {})
           /\ Requested(r.info) = Common(DOMAIN L, S)
           /\ r.info.exclude_list = E
           /\ r.info.filter_mode = c.info.filter_mode
           /\ r.info.shared_filter_timer = c.info.shared_filter_timer
           /\ r.started = c.started
<1> DEFINE M == Times(L, S)
           Z == {}
<1>0. E \in SUBSET Sources /\ S \in SUBSET Sources
  BY DEF Within, Without
<1>1. L \in SourceList
  BY CtxInfo
<1>2. /\ M \in SourceList
      /\ DOMAIN M = DOMAIN L \cap S
      /\ \A s \in DOMAIN L \cap S : M[s] = L[s]
  BY <1>1, TimesLemma
<1> HIDE DEF M
<1>3. NewIn(M, c.info.include_requested_list, Z)
  BY <1>2 DEF NewIn
<1>4. r = SetLists(c, M, E)
  BY DEF M
<1>z. Z = {}
  OBVIOUS
<1> HIDE DEF Z
<1>5. /\ r \in Ctx
      /\ CoreIn(r, g, P, Z)
      /\ r.info.include_requested_list = M
      /\ r.info.exclude_list = E
      /\ r.info.filter_mode = c.info.filter_mode
      /\ r.info.shared_filter_timer = c.info.shared_filter_timer
      /\ r.started = c.started
  BY <1>0, <1>2, <1>3, <1>4, SetListsOK
<1>6. QED
  BY <1>2, <1>5, <1>z DEF Requested, Common

(* l *= A followed by l += (A - Y) leaves exactly A - Y, with the sources  *)
(* not in l as new ones.                                                   *)
LEMMA OnlySourcesOK ==
    ASSUME NEW g, NEW c \in Ctx, NEW P, CoreIn(c, g, P, {}),
           NEW L, L = c.info.include_requested_list,
           NEW A, Within(A, Sources), NEW Y,
           NEW S, S = Without(A, Y),
           NEW E, Within(E, Sources),
           Apart(DOMAIN L, Y),
           NEW Z, Z = Without(S, DOMAIN L),
           NEW r, r = SetLists(c, Plus(Times(L, A), S), E)
    PROVE  /\ r \in Ctx
           /\ CoreIn(r, g, P, Z)
           /\ Requested(r.info) = S
           /\ r.info.exclude_list = E
           /\ r.info.filter_mode = c.info.filter_mode
           /\ r.info.shared_filter_timer = c.info.shared_filter_timer
           /\ r.started = c.started
<1> DEFINE K == Times(L, A)
           M == Plus(K, S)
<1>0. E \in SUBSET Sources /\ S \in SUBSET Sources
  BY DEF Within, Without
<1>1. L \in SourceList
  BY CtxInfo
<1>2. /\ K \in SourceList
      /\ DOMAIN K = DOMAIN L \cap A
      /\ \A s \in DOMAIN L \cap A : K[s] = L[s]
  BY <1>1, TimesLemma
<1> HIDE DEF K
<1>4. /\ M \in SourceList
      /\ DOMAIN M = DOMAIN K \cup S
      /\ \A s \in DOMAIN K : M[s] = K[s]
      /\ \A s \in S \ DOMAIN K : M[s] = NewSource
  BY <1>0, <1>2, PlusLemma
<1> HIDE DEF M
<1>a. S = A \ Y /\ Z = S \ DOMAIN L /\ DOMAIN L \cap Y = {}
  BY DEF Without, Apart
<1>b. DOMAIN M = S
  BY <1>2, <1>4, <1>a
<1>5. NewIn(M, c.info.include_requested_list, Z)
  BY <1>2, <1>4, <1>a, <1>b DEF NewIn
<1>6. r = SetLists(c, M, E)
  BY DEF M, K
<1>7. /\ r \in Ctx
      /\ CoreIn(r, g, P, Z)
      /\ r.info.include_requested_list = M
      /\ r.info.exclude_list = E
      /\ r.info.filter_mode = c.info.filter_mode
      /\ r.info.shared_filter_timer = c.info.shared_filter_timer
      /\ r.started = c.started
  BY <1>0, <1>4, <1>5, <1>6, SetListsOK
<1>8. QED
  BY <1>b, <1>7 DEF Requested

(* A query for sources that all have timers keeps the invariant as it is.  *)
LEMMA QueryKeepsOK ==
    ASSUME FreeStamps # {}, NEW g \in Groups, NEW c \in Ctx, NEW P, NEW Z, NEW S,
           NEW b \in BOOLEAN, CoreIn(c, g, P, Z),
           Apart(S, Z),
           NEW r, r = send_Q_sources(c, g, S, b)
    PROVE  /\ r \in Ctx
           /\ CoreIn(r, g, P, Z)
           /\ r.info.filter_mode = c.info.filter_mode
           /\ r.info.exclude_list = c.info.exclude_list
           /\ r.info.shared_filter_timer = c.info.shared_filter_timer
           /\ Requested(r.info) = Requested(c.info)
           /\ c.started \subseteq r.started
<1>3. Without(Z, S) = Z
  BY DEF Apart, Without
<1>4. /\ r \in Ctx
      /\ CoreIn(r, g, P, Without(Z, S))
      /\ r.info.filter_mode = c.info.filter_mode
      /\ r.info.exclude_list = c.info.exclude_list
      /\ r.info.shared_filter_timer = c.info.shared_filter_timer
      /\ DOMAIN r.info.include_requested_list
            = DOMAIN c.info.include_requested_list
      /\ c.started \subseteq r.started
  BY SendQSourcesOK
<1>5. QED
  BY <1>3, <1>4 DEF Requested

(* A query for all the new sources closes the invariant.                   *)
LEMMA QueryClearsOK ==
    ASSUME FreeStamps # {}, NEW g \in Groups, NEW c \in Ctx, NEW P, NEW Z, NEW S,
           NEW b \in BOOLEAN, CoreIn(c, g, P, Z),
           Within(Z, S),
           NEW r, r = send_Q_sources(c, g, S, b)
    PROVE  /\ r \in Ctx
           /\ CoreIn(r, g, P, {})
           /\ r.info.filter_mode = c.info.filter_mode
           /\ r.info.exclude_list = c.info.exclude_list
           /\ r.info.shared_filter_timer = c.info.shared_filter_timer
           /\ Requested(r.info) = Requested(c.info)
           /\ c.started \subseteq r.started
<1>3. Without(Z, S) = {}
  BY DEF Within, Without
<1>4. /\ r \in Ctx
      /\ CoreIn(r, g, P, Without(Z, S))
      /\ r.info.filter_mode = c.info.filter_mode
      /\ r.info.exclude_list = c.info.exclude_list
      /\ r.info.shared_filter_timer = c.info.shared_filter_timer
      /\ DOMAIN r.info.include_requested_list
            = DOMAIN c.info.include_requested_list
      /\ c.started \subseteq r.started
  BY SendQSourcesOK
<1>5. QED
  BY <1>3, <1>4 DEF Requested

(* Whatever record comes, receive_record_in_include_mode keeps the         *)
(* invariant of the group.                                                 *)
LEMMA IncludeLemma ==
    ASSUME FreeStamps # {}, NEW g \in Groups, NEW c \in Ctx, NEW P,
           GroupIn(c, g, P), c.info.filter_mode = "INCLUDE_MODE",
           NEW type \in RecordTypes, NEW B \in SUBSET Sources,
           NEW r, r = receive_record_in_include_mode(c, g, type, B)
    PROVE  r \in Ctx /\ GroupIn(r, g, P)
<1> DEFINE A == c.info.include_requested_list
           E == c.info.exclude_list
           N == B \ DOMAIN A
           K == DOMAIN A \cap B
           G == DOMAIN A \ B
           added == SetLists(c, Plus(A, B), E)
           lists == SetLists(c, Times(A, B), N)
           exclude == SetMode(lists, "EXCLUDE_MODE")
<1>1. /\ A \in SourceList /\ DOMAIN A \in SUBSET Sources
      /\ E = {} /\ c.info.shared_filter_timer = NoTimer
      /\ CoreIn(c, g, P, {})
  BY CtxInfo DEF CoreIn, GroupIn, GroupOK, FilterPart
<1>c. CoreIn(c, g, P, {})
  BY <1>1
<1>s. /\ Within(N, Sources) /\ Within(E, Sources) /\ Within(B, Sources)
      /\ N = Without(B, DOMAIN A)
      /\ Apart(K, {}) /\ Within(N, B) /\ Apart(G, N) /\ Apart(K, N)
  BY <1>1 DEF Apart, Within, Without
<1>b. PICK b \in BOOLEAN : b = FALSE
  OBVIOUS
<1>4. r = CASE type \in {"ALLOW_NEW_SOURCES", "MODE_IS_INCLUDE"} ->
              Notify(mali_sources(added, g, B))
         [] type = "BLOCK_OLD_SOURCES" ->
              send_Q_sources(c, g, K, b)
         [] type = "CHANGE_TO_EXCLUDE_MODE" ->
              Notify(mali_filter(send_Q_sources(exclude, g, K, b), g))
         [] type = "CHANGE_TO_INCLUDE_MODE" ->
              Notify(mali_sources(send_Q_sources(added, g, G, b), g, B))
         [] type = "MODE_IS_EXCLUDE" ->
              Notify(mali_filter(exclude, g))
  BY <1>b DEF receive_record_in_include_mode
<1>k. K = Common(DOMAIN A, B)
  BY DEF Common
<1>d. /\ A = c.info.include_requested_list /\ E = c.info.exclude_list
      /\ added = SetLists(c, Plus(A, B), E)
      /\ lists = SetLists(c, Times(A, B), N)
  OBVIOUS
<1> HIDE DEF N, K, G, E, A, added, lists
<1>2. /\ added \in Ctx
      /\ CoreIn(added, g, P, N)
      /\ added.info.exclude_list = {}
      /\ added.info.filter_mode = "INCLUDE_MODE"
      /\ added.info.shared_filter_timer = NoTimer
  <2>1. /\ added \in Ctx
        /\ CoreIn(added, g, P, N)
        /\ added.info.exclude_list = E
        /\ added.info.filter_mode = "INCLUDE_MODE"
        /\ added.info.shared_filter_timer = c.info.shared_filter_timer
    BY <1>c, <1>d, <1>s, AddSourcesOK
  <2>2. QED
    BY <1>1, <2>1
<1>3. /\ exclude \in Ctx
      /\ CoreIn(exclude, g, P, {})
      /\ exclude.info.filter_mode = "EXCLUDE_MODE"
      /\ Apart(Requested(exclude.info), exclude.info.exclude_list)
  <2>1. /\ lists \in Ctx
        /\ CoreIn(lists, g, P, {})
        /\ Requested(lists.info) = Common(DOMAIN A, B)
        /\ lists.info.exclude_list = N
    BY <1>1, <1>d, <1>s, KeepSourcesOK
    <2>2. "EXCLUDE_MODE" \in FilterModes
    BY DEF FilterModes
  <2>3. /\ exclude \in Ctx
        /\ CoreIn(exclude, g, P, {})
        /\ exclude.info.include_requested_list = lists.info.include_requested_list
        /\ exclude.info.exclude_list = lists.info.exclude_list
        /\ exclude.info.filter_mode = "EXCLUDE_MODE"
    BY <2>1, <2>2, SetModeOK
  <2>4. QED
    BY <1>s, <1>k, <2>1, <2>3 DEF Requested
<1> HIDE DEF exclude
<1>5. CASE type \in {"ALLOW_NEW_SOURCES", "MODE_IS_INCLUDE"}
  <2> DEFINE m == mali_sources(added, g, B)
  <2>1. /\ m \in Ctx
        /\ CoreIn(m, g, P, {})
        /\ m.info.filter_mode = "INCLUDE_MODE"
        /\ m.info.exclude_list = {}
        /\ m.info.shared_filter_timer = NoTimer
    BY <1>2, <1>s, MaliSourcesOK
  <2> HIDE DEF m
  <2>2. r = Notify(m)
    BY <1>4, <1>5 DEF m
  <2>3. r \in Ctx /\ r.info = m.info /\ r.started = m.started
    BY <2>1, <2>2, NotifyLemma
  <2>4. QED
    BY <2>1, <2>3 DEF CoreIn, GroupIn, GroupOK, FilterPart
<1>6. CASE type = "BLOCK_OLD_SOURCES"
  <2>1. r = send_Q_sources(c, g, K, b)
    BY <1>4, <1>6
  <2>2. /\ r \in Ctx
        /\ CoreIn(r, g, P, {})
        /\ r.info.filter_mode = "INCLUDE_MODE"
        /\ r.info.exclude_list = {}
        /\ r.info.shared_filter_timer = NoTimer
    BY <1>1, <1>d, <1>s, <2>1, QueryKeepsOK
  <2>3. QED
    BY <2>2 DEF CoreIn, GroupIn, GroupOK, FilterPart
<1>7. CASE type = "CHANGE_TO_EXCLUDE_MODE"
  <2> DEFINE q == send_Q_sources(exclude, g, K, b)
             m == mali_filter(q, g)
  <2>1. /\ q \in Ctx
        /\ CoreIn(q, g, P, {})
        /\ q.info.filter_mode = "EXCLUDE_MODE"
        /\ q.info.exclude_list = exclude.info.exclude_list
        /\ Requested(q.info) = Requested(exclude.info)
    BY <1>3, <1>s, QueryKeepsOK
  <2> HIDE DEF q
  <2>2. Apart(Requested(q.info), q.info.exclude_list)
    BY <1>3, <2>1
  <2>3. m \in Ctx /\ GroupIn(m, g, P)
    BY <2>1, <2>2, MaliFilterOK
  <2> HIDE DEF m
  <2>4. r = Notify(m)
    BY <1>4, <1>7 DEF m, q
  <2>5. r \in Ctx /\ r.info = m.info /\ r.started = m.started
    BY <2>3, <2>4, NotifyLemma
  <2>6. QED
    BY <2>3, <2>5 DEF GroupIn
<1>8. CASE type = "CHANGE_TO_INCLUDE_MODE"
  <2> DEFINE q == send_Q_sources(added, g, G, b)
             m == mali_sources(q, g, B)
  <2>1. /\ q \in Ctx
        /\ CoreIn(q, g, P, N)
        /\ q.info.filter_mode = "INCLUDE_MODE"
        /\ q.info.exclude_list = {}
        /\ q.info.shared_filter_timer = NoTimer
    BY <1>2, <1>s, QueryKeepsOK
  <2> HIDE DEF q
  <2>3. /\ m \in Ctx
        /\ CoreIn(m, g, P, {})
        /\ m.info.filter_mode = "INCLUDE_MODE"
        /\ m.info.exclude_list = {}
        /\ m.info.shared_filter_timer = NoTimer
    BY <2>1, <1>s, MaliSourcesOK
  <2> HIDE DEF m
  <2>4. r = Notify(m)
    BY <1>4, <1>8 DEF m, q
  <2>5. r \in Ctx /\ r.info = m.info /\ r.started = m.started
    BY <2>3, <2>4, NotifyLemma
  <2>6. QED
    BY <2>3, <2>5 DEF CoreIn, GroupIn, GroupOK, FilterPart
<1>9. CASE type = "MODE_IS_EXCLUDE"
  <2> DEFINE m == mali_filter(exclude, g)
  <2>1. m \in Ctx /\ GroupIn(m, g, P)
    BY <1>3, MaliFilterOK
  <2> HIDE DEF m
  <2>2. r = Notify(m)
    BY <1>4, <1>9 DEF m
  <2>3. r \in Ctx /\ r.info = m.info /\ r.started = m.started
    BY <2>1, <2>2, NotifyLemma
  <2>4. QED
    BY <2>1, <2>3 DEF GroupIn
<1>10. QED
  BY <1>5, <1>6, <1>7, <1>8, <1>9 DEF RecordTypes

(* Whatever record comes, receive_record_in_exclude_mode keeps the         *)
(* invariant of the group.                                                 *)
LEMMA ExcludeLemma ==
    ASSUME FreeStamps # {}, NEW g \in Groups, NEW c \in Ctx, NEW P,
           GroupIn(c, g, P), c.info.filter_mode = "EXCLUDE_MODE",
           NEW type \in RecordTypes, NEW A \in SUBSET Sources,
           NEW r, r = receive_record_in_exclude_mode(c, g, type, A)
    PROVE  r \in Ctx /\ GroupIn(r, g, P)
<1> DEFINE X == c.info.include_requested_list
           Y == c.info.exclude_list
           S == A \ Y
           YA == Y \ A
           YC == Y \cap A
           N == A \ DOMAIN X
           NS == S \ DOMAIN X
           G == (DOMAIN X \cup A) \ A
           NX == (A \ DOMAIN X) \ Y
           added == SetLists(c, Plus(X, A), YA)
           block == SetLists(c, Plus(X, S), Y)
           only == SetLists(c, Plus(Times(X, A), S), YC)
<1>1. /\ X \in SourceList /\ DOMAIN X \in SUBSET Sources
      /\ Y \in SUBSET Sources
      /\ RunIn(c.info.shared_filter_timer, "FILTER_TIMER", g, P \cup c.started)
      /\ DOMAIN X \cap Y = {}
      /\ CoreIn(c, g, P, {})
  BY CtxInfo DEF CoreIn, GroupIn, GroupOK, FilterPart, Requested
<1>2. /\ Within(A, Sources) /\ Within(S, Sources) /\ Within(Y, Sources)
      /\ Within(YA, Sources) /\ Within(YC, Sources)
      /\ Apart(DOMAIN X, Y)
      /\ S = Without(A, Y)
      /\ N = Without(A, DOMAIN X) /\ Within(N, A) /\ Apart(G, N)
      /\ NS = Without(S, DOMAIN X) /\ Within(NS, S) /\ Within(NS, NX)
      /\ Apart(Joined(DOMAIN X, A), YA)
      /\ Apart(Joined(DOMAIN X, S), Y)
      /\ Apart(S, YC)
  BY <1>1 DEF Within, Apart, Without, Joined
<1>3. PICK b \in BOOLEAN : b = FALSE
  OBVIOUS
<1>4. r = CASE type \in {"ALLOW_NEW_SOURCES", "MODE_IS_INCLUDE"} ->
              Notify(mali_sources(added, g, A))
         [] type = "BLOCK_OLD_SOURCES" ->
              send_Q_sources(block, g, S, b)
         [] type = "CHANGE_TO_EXCLUDE_MODE" ->
              Notify(mali_filter(
                  send_Q_sources(only, g, Requested(only.info), b), g))
         [] type = "CHANGE_TO_INCLUDE_MODE" ->
              Notify(mali_sources(
                  send_Q_group(send_Q_sources(added, g, G, b), g), g, A))
         [] type = "MODE_IS_EXCLUDE" ->
              Notify(mali_filter(mali_sources(only, g, NX), g))
  BY <1>3 DEF receive_record_in_exclude_mode
<1>5. /\ X = c.info.include_requested_list
      /\ added = SetLists(c, Plus(X, A), YA)
      /\ block = SetLists(c, Plus(X, S), Y)
      /\ only = SetLists(c, Plus(Times(X, A), S), YC)
  OBVIOUS
<1> HIDE DEF X, Y, S, YA, YC, N, NS, G, NX, added, block, only
<1>6. /\ added \in Ctx
      /\ CoreIn(added, g, P, N)
      /\ Requested(added.info) = Joined(DOMAIN X, A)
      /\ added.info.exclude_list = YA
      /\ added.info.filter_mode = "EXCLUDE_MODE"
      /\ added.info.shared_filter_timer = c.info.shared_filter_timer
      /\ added.started = c.started
  BY <1>1, <1>2, <1>5, AddSourcesOK
<1>7. /\ block \in Ctx
      /\ CoreIn(block, g, P, NS)
      /\ Requested(block.info) = Joined(DOMAIN X, S)
      /\ block.info.exclude_list = Y
      /\ block.info.filter_mode = "EXCLUDE_MODE"
      /\ block.info.shared_filter_timer = c.info.shared_filter_timer
      /\ block.started = c.started
  BY <1>1, <1>2, <1>5, AddSourcesOK
<1>8. /\ only \in Ctx
      /\ CoreIn(only, g, P, NS)
      /\ Requested(only.info) = S
      /\ only.info.exclude_list = YC
      /\ only.info.filter_mode = "EXCLUDE_MODE"
  BY <1>1, <1>2, <1>5, OnlySourcesOK
<1>9. ASSUME NEW m \in Ctx, c.started \subseteq m.started,
             CoreIn(m, g, P, {}),
             m.info.filter_mode = "EXCLUDE_MODE",
             m.info.shared_filter_timer = c.info.shared_filter_timer,
             Apart(Requested(m.info), m.info.exclude_list)
      PROVE  GroupIn(m, g, P)
  BY <1>1, <1>9 DEF CoreIn, GroupIn, GroupOK, FilterPart, RunIn, Apart
<1>10. ASSUME NEW m \in Ctx, GroupIn(m, g, P), r = Notify(m)
       PROVE  r \in Ctx /\ GroupIn(r, g, P)
  BY <1>10, NotifyLemma DEF GroupIn
<1>11. CASE type \in {"ALLOW_NEW_SOURCES", "MODE_IS_INCLUDE"}
  <2> DEFINE m == mali_sources(added, g, A)
  <2>1. /\ m \in Ctx
        /\ CoreIn(m, g, P, {})
        /\ m.info.filter_mode = "EXCLUDE_MODE"
        /\ m.info.exclude_list = added.info.exclude_list
        /\ m.info.shared_filter_timer = added.info.shared_filter_timer
        /\ DOMAIN m.info.include_requested_list
              = DOMAIN added.info.include_requested_list
        /\ added.started \subseteq m.started
    BY <1>2, <1>6, MaliSourcesOK
  <2>2. r = Notify(m)
    BY <1>4, <1>11
  <2> HIDE DEF m
  <2>3. Apart(Requested(m.info), m.info.exclude_list)
    BY <1>2, <1>6, <2>1 DEF Requested
  <2>4. GroupIn(m, g, P)
    BY <1>6, <1>9, <2>1, <2>3
  <2>5. QED
    BY <1>10, <2>1, <2>2, <2>4
<1>12. CASE type = "BLOCK_OLD_SOURCES"
  <2>1. r = send_Q_sources(block, g, S, b)
    BY <1>4, <1>12
  <2>2. /\ r \in Ctx
        /\ CoreIn(r, g, P, {})
        /\ r.info.filter_mode = "EXCLUDE_MODE"
        /\ r.info.exclude_list = block.info.exclude_list
        /\ r.info.shared_filter_timer = block.info.shared_filter_timer
        /\ Requested(r.info) = Requested(block.info)
        /\ block.started \subseteq r.started
    BY <1>2, <1>7, <2>1, QueryClearsOK
  <2>3. Apart(Requested(r.info), r.info.exclude_list)
    BY <1>2, <1>7, <2>2
  <2>4. QED
    BY <1>7, <1>9, <2>2, <2>3
<1>13. CASE type = "CHANGE_TO_EXCLUDE_MODE"
  <2> DEFINE q == send_Q_sources(only, g, S, b)
             m == mali_filter(q, g)
  <2>a. q = send_Q_sources(only, g, S, b) /\ Within(NS, S)
    BY <1>2
  <2>b. only \in Ctx /\ CoreIn(only, g, P, NS)
    BY <1>8
  <2> HIDE DEF q
  <2>1. /\ q \in Ctx
        /\ CoreIn(q, g, P, {})
        /\ q.info.filter_mode = only.info.filter_mode
        /\ q.info.exclude_list = only.info.exclude_list
        /\ Requested(q.info) = Requested(only.info)
    BY <2>a, <2>b, QueryClearsOK
  <2>2. r = Notify(m)
    BY <1>4, <1>8, <1>13 DEF q
  <2>3. Apart(Requested(q.info), q.info.exclude_list)
    BY <1>2, <1>8, <2>1
  <2>4. m \in Ctx /\ GroupIn(m, g, P)
    BY <1>8, <2>1, <2>3, MaliFilterOK
  <2> HIDE DEF m
  <2>5. QED
    BY <1>10, <2>2, <2>4
<1>14. CASE type = "CHANGE_TO_INCLUDE_MODE"
  <2> DEFINE q == send_Q_sources(added, g, G, b)
             h == send_Q_group(q, g)
             m == mali_sources(h, g, A)
  <2>1. /\ q \in Ctx
        /\ CoreIn(q, g, P, N)
        /\ q.info.filter_mode = "EXCLUDE_MODE"
        /\ q.info.exclude_list = added.info.exclude_list
        /\ q.info.shared_filter_timer = added.info.shared_filter_timer
        /\ Requested(q.info) = Requested(added.info)
        /\ added.started \subseteq q.started
    BY <1>2, <1>6, QueryKeepsOK
  <2>2. r = Notify(m)
    BY <1>4, <1>14
  <2> HIDE DEF q
  <2>3. Apart(Requested(q.info), q.info.exclude_list)
    BY <1>2, <1>6, <2>1
  <2>4. FilterIn(q, g, P)
    BY <1>1, <1>6, <2>1, <2>3 DEF FilterIn, FilterPart, RunIn, Apart
  <2>5. /\ h \in Ctx
        /\ CoreIn(h, g, P, N)
        /\ FilterIn(h, g, P)
        /\ h.info.filter_mode = q.info.filter_mode
        /\ h.info.exclude_list = q.info.exclude_list
        /\ h.info.include_requested_list = q.info.include_requested_list
    BY <2>1, <2>4, SendQGroupOK
  <2> HIDE DEF h
  <2>6. /\ m \in Ctx
        /\ CoreIn(m, g, P, {})
        /\ m.info.filter_mode = h.info.filter_mode
        /\ m.info.exclude_list = h.info.exclude_list
        /\ m.info.shared_filter_timer = h.info.shared_filter_timer
        /\ DOMAIN m.info.include_requested_list
              = DOMAIN h.info.include_requested_list
        /\ h.started \subseteq m.started
    BY <1>2, <2>5, MaliSourcesOK
  <2> HIDE DEF m
  <2>7. GroupIn(m, g, P)
    BY <2>1, <2>5, <2>6
       DEF CoreIn, FilterIn, GroupIn, GroupOK, FilterPart, RunIn, Requested
  <2>8. QED
    BY <1>10, <2>2, <2>6, <2>7
<1>15. CASE type = "MODE_IS_EXCLUDE"
  <2> DEFINE q == mali_sources(only, g, NX)
             m == mali_filter(q, g)
  <2>1. /\ q \in Ctx
        /\ CoreIn(q, g, P, {})
        /\ q.info.filter_mode = "EXCLUDE_MODE"
        /\ q.info.exclude_list = only.info.exclude_list
        /\ DOMAIN q.info.include_requested_list
              = DOMAIN only.info.include_requested_list
    BY <1>2, <1>8, MaliSourcesOK
  <2>2. r = Notify(m)
    BY <1>4, <1>15
  <2> HIDE DEF q
  <2>3. Apart(Requested(q.info), q.info.exclude_list)
    BY <1>2, <1>8, <2>1 DEF Requested
  <2>4. m \in Ctx /\ GroupIn(m, g, P)
    BY <2>1, <2>3, MaliFilterOK
  <2> HIDE DEF m
  <2>5. QED
    BY <1>10, <2>2, <2>4
<1>16. QED
  BY <1>11, <1>12, <1>13, <1>14, <1>15 DEF RecordTypes

(* Noting an older host keeps the invariant and the filter mode.           *)
LEMMA NoteOlderHostOK ==
    ASSUME FreeStamps # {}, NEW g \in Groups, NEW c \in Ctx, NEW P,
           GroupIn(c, g, P), NEW v \in RecordVersions,
           NEW r, r = NoteOlderHost(c, g, v)
    PROVE  r \in Ctx /\ GroupIn(r, g, P) /\ r.info.filter_mode = c.info.filter_mode
<1> DEFINE ohpt == NewTimer("OLDER_HOST_PRESENT_TIMER", g, OHPI)
           H == [c.info EXCEPT !.compatibility_mode_variable = v]
           I == [H EXCEPT !.older_host_present_timer = ohpt]
           U == c.started \cup {ohpt}
<1>1. ohpt \in Timer /\ ohpt.type = "OLDER_HOST_PRESENT_TIMER" /\ ohpt.gaddr = g
  BY NewTimerType DEF TimerTypes
<1>2. r = c \/ r = [c EXCEPT !.info = I, !.started = U]
  BY DEF NoteOlderHost
<1>3. CASE r = c
  BY <1>3
<1>4. CASE r = [c EXCEPT !.info = I, !.started = U]
  <2> HIDE DEF ohpt
  <2>1. v \in 1 .. NewestVersion
    BY VersionAssumption
  <2>2. c.info \in GaddrInfo /\ c.started \subseteq Timer
    BY DEF Ctx
  <2>3. /\ H \in GaddrInfo
        /\ SameButOhpt(H, c.info)
    BY <2>1, <2>2 DEF GaddrInfo, SameButOhpt
  <2> HIDE DEF H
  <2>4. /\ I \in GaddrInfo
        /\ SameButOhpt(I, c.info)
        /\ I.older_host_present_timer = ohpt
    BY <1>1, <2>3 DEF GaddrInfo, SameButOhpt
  <2>5. U \subseteq Timer /\ c.started \subseteq U /\ ohpt \in U
    BY <1>1, <2>2
  <2> HIDE DEF I, U
  <2>6. r \in Ctx /\ r.info = I /\ r.started = U
    BY <1>4, <2>4, <2>5 DEF Ctx
  <2>7. Core(I, g, P \cup U, {})
    BY <1>1, <2>4, <2>5 DEF GroupIn, GroupOK, Core, RunIn, SameButOhpt
  <2>8. FilterPart(I, g, P \cup U)
    BY <2>4, <2>5 DEF GroupIn, GroupOK, FilterPart, RunIn, SameButOhpt, Requested
  <2>9. QED
    BY <2>4, <2>6, <2>7, <2>8 DEF GroupIn, GroupOK, SameButOhpt
<1>5. QED
  BY <1>2, <1>3, <1>4

(* Handling a record, in compatibility mode or not, keeps the invariant.   *)
LEMMA HandleRecordOK ==
    ASSUME FreeStamps # {}, NEW g \in Groups, NEW c \in Ctx, NEW P,
           GroupIn(c, g, P),
           NEW type \in RecordTypes, NEW S \in SUBSET Sources,
           NEW r, r = HandleRecord(c, g, type, S)
    PROVE  r \in Ctx /\ GroupIn(r, g, P)
<1> DEFINE B == EffectiveList(c.info, type, S)
<1>1. B \in SUBSET Sources
  BY DEF EffectiveList
<1>2. c.info.filter_mode \in {"INCLUDE_MODE", "EXCLUDE_MODE"}
  BY CtxInfo DEF FilterModes
<1>3. \/ r = c
      \/ /\ c.info.filter_mode = "INCLUDE_MODE"
         /\ r = receive_record_in_include_mode(c, g, type, B)
      \/ /\ c.info.filter_mode = "EXCLUDE_MODE"
         /\ r = receive_record_in_exclude_mode(c, g, type, B)
  BY <1>2 DEF HandleRecord
<1> HIDE DEF B
<1>4. CASE r = c
  BY <1>4
<1>5. CASE /\ c.info.filter_mode = "INCLUDE_MODE"
           /\ r = receive_record_in_include_mode(c, g, type, B)
  BY <1>1, <1>5, IncludeLemma
<1>6. CASE /\ c.info.filter_mode = "EXCLUDE_MODE"
           /\ r = receive_record_in_exclude_mode(c, g, type, B)
  BY <1>1, <1>6, ExcludeLemma
<1>7. QED
  BY <1>3, <1>4, <1>5, <1>6

-----------------------------------------------------------------------------
(* The inductive invariant: every group of the database satisfies its      *)
(* own.                                                                    *)
GroupsOK == \A g \in DOMAIN group_info :
               GroupOK(group_info[g], g, DOMAIN timing)

IInv == TypeOK /\ GroupsOK

(* The invariant of a group depends on the running timers of that group    *)
(* only.                                                                   *)
LEMMA GroupOKMoves ==
    ASSUME NEW i, NEW g, NEW P, NEW Q, GroupOK(i, g, P),
           \A t \in P : t.gaddr = g => t \in Q
    PROVE  GroupOK(i, g, Q)
<1>1. Core(i, g, P, {}) /\ FilterPart(i, g, P)
  BY DEF GroupOK
<1>2. \A t, type : RunIn(t, type, g, P) => RunIn(t, type, g, Q)
  BY DEF RunIn
<1>3. Core(i, g, Q, {})
  BY <1>1, <1>2 DEF Core
<1>4. FilterPart(i, g, Q)
  BY <1>1, <1>2 DEF FilterPart
<1>5. QED
  BY <1>3, <1>4 DEF GroupOK

(* The neutral record of an unknown group satisfies the invariant.         *)
LEMMA NeutralOK ==
    ASSUME NEW g, NEW P
    PROVE  NeutralInfo \in GaddrInfo /\ GroupOK(NeutralInfo, g, P)
<1> DEFINE L == [s \in {} |-> NewSource]
<1>1. L \in SourceList /\ DOMAIN L = {}
  <2>1. L \in [{} -> Source] /\ {} \in SUBSET Sources
    OBVIOUS
  <2>2. QED
    BY <2>1 DEF SourceList
<1>2. -1 \in -1 .. LLQC /\ QuerierVersion \in 1 .. NewestVersion
  BY TimingAssumption, VersionAssumption
<1> HIDE DEF L
<1>3. /\ NeutralInfo.filter_mode = "INCLUDE_MODE"
      /\ NeutralInfo.shared_filter_timer = NoTimer
      /\ NeutralInfo.older_host_present_timer = NoTimer
      /\ NeutralInfo.group_retransmission_count = -1
      /\ NeutralInfo.include_requested_list = L
      /\ NeutralInfo.exclude_list = {}
      /\ NeutralInfo \in GaddrInfo
  BY <1>1, <1>2 DEF NeutralInfo, GaddrInfo, FilterModes, L
<1>4. QED
  BY <1>1, <1>3 DEF GroupOK, Core, FilterPart

(* A handler call starts from a well formed context that satisfies the     *)
(* invariant.                                                              *)
LEMMA ContextOK ==
    ASSUME IInv, NEW g \in Groups
    PROVE  /\ Context(g) \in Ctx
           /\ GroupIn(Context(g), g, DOMAIN timing)
           /\ Context(g).info = Info(g)
           /\ Context(g).started = {}
<1>1. Info(g) \in GaddrInfo /\ GroupOK(Info(g), g, DOMAIN timing)
  BY NeutralOK DEF Info, IInv, TypeOK, GroupsOK
<1>2. published[g] \in Membership
  BY DEF IInv, TypeOK
<1>3. /\ Context(g) \in Ctx
      /\ Context(g).info = Info(g)
      /\ Context(g).started = {}
  BY <1>1, <1>2 DEF Context, Ctx
<1>4. DOMAIN timing \cup {} = DOMAIN timing
  OBVIOUS
<1>5. QED
  BY <1>1, <1>3, <1>4 DEF GroupIn

(* The delay of a timer is a number.                                       *)
LEMMA DelayType ==
    ASSUME NEW t \in Timer
    PROVE  t.delay \in Int
<1>1. LLQI \in Nat /\ LLQC \in Nat
  BY TimingAssumption
<1>2. LLQI * LLQC \in Nat
  BY <1>1
<1>3. LLQT \in Nat
  BY <1>2 DEF LLQT
<1>4. QED
  BY <1>3, TimingAssumption DEF Timer

(* What the end of a handler call does to the timers and to the routing's  *)
(* view, and that both stay well formed.                                   *)
LEMMA FinishLemma ==
    ASSUME TypeOK, NEW g \in Groups, NEW c \in Ctx, NEW D, Finish(c, g, D)
    PROVE  /\ DOMAIN timing' = (DOMAIN timing \ D) \cup c.started
           /\ DOMAIN timing' \subseteq Timer
           /\ \A t \in DOMAIN timing' : timing'[t] \in Int
           /\ published' \in [Groups -> Membership]
           /\ sent' \subseteq Query
<1>1. c.started \subseteq Timer /\ c.sent \subseteq Query /\ c.view \in Membership
  BY DEF Ctx
<1>2. \A t \in c.started : t.delay \in Int
  BY <1>1, DelayType
<1>3. timing' = [t \in (DOMAIN timing \ D) \cup c.started |->
                    IF t \in c.started THEN t.delay ELSE timing[t]]
  BY DEF Finish, Start
<1>4. /\ DOMAIN timing' = (DOMAIN timing \ D) \cup c.started
      /\ \A t \in DOMAIN timing' : timing'[t] \in Int
  BY <1>2, <1>3 DEF TypeOK
<1>5. DOMAIN timing' \subseteq Timer
  BY <1>1, <1>4 DEF TypeOK
<1>6. published' \in [Groups -> Membership] /\ sent' \subseteq Query
  BY <1>1 DEF Finish, TypeOK
<1>7. QED
  BY <1>4, <1>5, <1>6

(* Storing a group record that satisfies its invariant keeps the           *)
(* invariant, as long as the other groups lose no timer.                   *)
LEMMA StoreLemma ==
    ASSUME IInv, NEW g \in Groups, NEW i \in GaddrInfo,
           group_info' = Store(g, i),
           GroupOK(i, g, DOMAIN timing'),
           \A t \in DOMAIN timing : t.gaddr # g => t \in DOMAIN timing'
    PROVE  /\ DOMAIN group_info' \subseteq Groups
           /\ \A h \in DOMAIN group_info' : group_info'[h] \in GaddrInfo
           /\ GroupsOK'
<1>1. /\ DOMAIN group_info' = DOMAIN group_info \cup {g}
      /\ group_info'[g] = i
      /\ \A h \in DOMAIN group_info : h # g => group_info'[h] = group_info[h]
  BY DEF Store
<1>2. ASSUME NEW h \in DOMAIN group_info, h # g
      PROVE  GroupOK(group_info[h], h, DOMAIN timing')
  <2>1. GroupOK(group_info[h], h, DOMAIN timing)
    BY DEF IInv, GroupsOK
  <2>2. \A t \in DOMAIN timing : t.gaddr = h => t \in DOMAIN timing'
    BY <1>2
  <2>3. QED
    BY <2>1, <2>2, GroupOKMoves
<1>3. \A h \in DOMAIN group_info' : GroupOK(group_info'[h], h, DOMAIN timing')
  BY <1>1, <1>2
<1>4. GroupsOK'
  BY <1>3 DEF GroupsOK
<1>5. QED
  BY <1>1, <1>4 DEF IInv, TypeOK

(* Erasing a group keeps the invariant, as long as the other groups lose   *)
(* no timer.                                                               *)
LEMMA EraseLemma ==
    ASSUME IInv, NEW g, group_info' = Erase(g),
           \A t \in DOMAIN timing : t.gaddr # g => t \in DOMAIN timing'
    PROVE  /\ DOMAIN group_info' \subseteq Groups
           /\ \A h \in DOMAIN group_info' : group_info'[h] \in GaddrInfo
           /\ GroupsOK'
<1>1. /\ DOMAIN group_info' = DOMAIN group_info \ {g}
      /\ \A h \in DOMAIN group_info : h # g => group_info'[h] = group_info[h]
  BY DEF Erase
<1>2. ASSUME NEW h \in DOMAIN group_info, h # g
      PROVE  GroupOK(group_info[h], h, DOMAIN timing')
  <2>1. GroupOK(group_info[h], h, DOMAIN timing)
    BY DEF IInv, GroupsOK
  <2>2. \A t \in DOMAIN timing : t.gaddr = h => t \in DOMAIN timing'
    BY <1>2
  <2>3. QED
    BY <2>1, <2>2, GroupOKMoves
<1>3. \A h \in DOMAIN group_info' : GroupOK(group_info'[h], h, DOMAIN timing')
  BY <1>1, <1>2
<1>4. GroupsOK'
  BY <1>3 DEF GroupsOK
<1>5. QED
  BY <1>1, <1>4 DEF IInv, TypeOK

(* receive_record keeps the inductive invariant.                           *)
LEMMA ReceiveRecordStep ==
    ASSUME IInv, NEW g \in Groups, NEW v \in RecordVersions,
           NEW type \in RecordTypes, NEW S \in SUBSET Sources,
           receive_record(g, v, type, S)
    PROVE  IInv'
<1> DEFINE c1 == Context(g)
           c0 == NoteOlderHost(c1, g, v)
           c  == HandleRecord(c0, g, type, S)
           P  == DOMAIN timing
<1>1. /\ FreeStamps # {}
      /\ received < MaxRecords
      /\ received' = received + 1
      /\ group_info' = Erase(g) \/ group_info' = Store(g, c.info)
      /\ Finish(c, g, {})
  BY DEF receive_record
<1>2. c1 \in Ctx /\ GroupIn(c1, g, P)
  BY ContextOK
<1> HIDE DEF c1, P
<1>3. c0 \in Ctx /\ GroupIn(c0, g, P)
  BY <1>1, <1>2, NoteOlderHostOK
<1> HIDE DEF c0
<1>4. c \in Ctx /\ GroupIn(c, g, P)
  BY <1>1, <1>3, HandleRecordOK
<1> HIDE DEF c
<1>5. /\ DOMAIN timing' = (DOMAIN timing \ {}) \cup c.started
      /\ DOMAIN timing' \subseteq Timer
      /\ \A t \in DOMAIN timing' : timing'[t] \in Int
      /\ published' \in [Groups -> Membership]
      /\ sent' \subseteq Query
  BY <1>1, <1>4, FinishLemma DEF IInv
<1>6. GroupOK(c.info, g, DOMAIN timing') /\ c.info \in GaddrInfo
  <2>1. DOMAIN timing' = P \cup c.started
    BY <1>5 DEF P
  <2>2. QED
    BY <1>4, <2>1 DEF GroupIn, Ctx
<1>7. \A t \in DOMAIN timing : t.gaddr # g => t \in DOMAIN timing'
  BY <1>5
<1>8. /\ DOMAIN group_info' \subseteq Groups
      /\ \A h \in DOMAIN group_info' : group_info'[h] \in GaddrInfo
      /\ GroupsOK'
  BY <1>1, <1>6, <1>7, StoreLemma, EraseLemma
<1>9. received' \in 0 .. MaxRecords
  BY <1>1, TimingAssumption DEF IInv, TypeOK
<1>10. QED
  BY <1>5, <1>8, <1>9 DEF IInv, TypeOK

-----------------------------------------------------------------------------
(* A timer handler keeps the inductive invariant if the invariant of its   *)
(* group holds without the delivered timer.                                *)
LEMMA DeliveredStep ==
    ASSUME IInv, NEW t \in DOMAIN timing, NEW g \in Groups, g = t.gaddr,
           NEW c \in Ctx, Finish(c, g, {t}), UNCHANGED received,
           \/ group_info' = Erase(g)
           \/ /\ group_info' = Store(g, c.info)
              /\ GroupIn(c, g, DOMAIN timing \ {t})
    PROVE  IInv'
<1>1. /\ DOMAIN timing' = (DOMAIN timing \ {t}) \cup c.started
      /\ DOMAIN timing' \subseteq Timer
      /\ \A u \in DOMAIN timing' : timing'[u] \in Int
      /\ published' \in [Groups -> Membership]
      /\ sent' \subseteq Query
  BY FinishLemma DEF IInv
<1>2. \A u \in DOMAIN timing : u.gaddr # g => u \in DOMAIN timing'
  BY <1>1
<1>3. c.info \in GaddrInfo
  BY DEF Ctx
<1>4. /\ DOMAIN group_info' \subseteq Groups
      /\ \A h \in DOMAIN group_info' : group_info'[h] \in GaddrInfo
      /\ GroupsOK'
  <2>1. CASE group_info' = Erase(g)
    BY <1>2, <2>1, EraseLemma
  <2>2. CASE /\ group_info' = Store(g, c.info)
             /\ GroupIn(c, g, DOMAIN timing \ {t})
    <3>1. GroupOK(c.info, g, DOMAIN timing')
      BY <1>1, <2>2 DEF GroupIn
    <3>2. QED
      BY <1>2, <1>3, <2>2, <3>1, StoreLemma
  <2>3. QED
    BY <2>1, <2>2
<1>5. received' \in 0 .. MaxRecords
  BY DEF IInv, TypeOK
<1>6. QED
  BY <1>1, <1>4, <1>5 DEF IInv, TypeOK

(* A pending timer belongs to a group and is not the null pointer.         *)
LEMMA TimerGroup ==
    ASSUME TypeOK, NEW t \in DOMAIN timing
    PROVE  t.gaddr \in Groups /\ t \in Timer /\ t # NoTimer
  BY NullAssumption DEF TypeOK, Timer

(* Dropping a timer no pointer of the database refers to keeps the         *)
(* invariant.                                                              *)
LEMMA OutdatedStep ==
    ASSUME IInv, NEW t \in DOMAIN timing, OutdatedTimer(t)
    PROVE  IInv'
<1>1. /\ DOMAIN timing' = DOMAIN timing \ {t}
      /\ \A u \in DOMAIN timing' : timing'[u] = timing[u]
      /\ sent' = {}
      /\ UNCHANGED <<group_info, published, received>>
  BY DEF OutdatedTimer, Start
<1>2. ASSUME NEW g \in DOMAIN group_info
      PROVE  GroupOK(group_info[g], g, DOMAIN timing')
  <2> DEFINE i == group_info[g]
             P == DOMAIN timing
             Q == DOMAIN timing'
             L == i.include_requested_list
  <2>1. Core(i, g, P, {}) /\ FilterPart(i, g, P)
    BY DEF IInv, GroupsOK, GroupOK
  <2>2. ~ PointsTo(i, t)
    BY DEF OutdatedTimer, InUse
  <2>3. /\ t # i.shared_filter_timer
        /\ t # i.older_host_present_timer
        /\ t # i.group_retransmission_timer
        /\ t # i.source_retransmission_timer
        /\ \A s \in DOMAIN L : t # L[s].shared_source_timer
    BY <2>2 DEF PointsTo, Requested
  <2>4. \A u, type : RunIn(u, type, g, P) /\ u # t => RunIn(u, type, g, Q)
    BY <1>1 DEF RunIn
  <2> HIDE DEF i, P, Q
  <2>5. Core(i, g, Q, {})
    BY <2>1, <2>3, <2>4 DEF Core
  <2>6. FilterPart(i, g, Q)
    BY <2>1, <2>3, <2>4 DEF FilterPart
  <2>7. QED
    BY <2>5, <2>6 DEF GroupOK, i, Q
<1>3. GroupsOK'
  BY <1>1, <1>2 DEF GroupsOK
<1>4. QED
  BY <1>1, <1>3 DEF IInv, TypeOK

(* The expiry of a filter timer keeps the invariant: the group leaves      *)
(* EXCLUDE mode or the database.                                           *)
LEMMA FilterTimerStep ==
    ASSUME IInv, NEW t \in DOMAIN timing, timer_triggerd_filter_timer(t)
    PROVE  IInv'
<1> DEFINE g == t.gaddr
           c == Context(g)
           l == SetLists(c, c.info.include_requested_list, {})
           m == SetMode(l, "INCLUDE_MODE")
           I == [m.info EXCEPT !.shared_filter_timer = NoTimer]
           e == [m EXCEPT !.info.shared_filter_timer = NoTimer]
           n == Notify(e)
           z == [c EXCEPT !.view = NoMembership]
           P == DOMAIN timing
           Q == DOMAIN timing \ {t}
<1>1. g \in Groups /\ t \in Timer /\ t # NoTimer
  BY TimerGroup DEF IInv
<1>2. /\ t.type = "FILTER_TIMER"
      /\ UNCHANGED received
      /\ \/ group_info' = Erase(g) /\ Finish(z, g, {t})
         \/ group_info' = Store(g, e.info) /\ Finish(n, g, {t})
  BY DEF timer_triggerd_filter_timer
<1>3. /\ c \in Ctx
      /\ GroupIn(c, g, P)
      /\ c.started = {}
  BY <1>1, ContextOK
<1> HIDE DEF c
<1>4. /\ l \in Ctx
      /\ SameButLists(l.info, c.info)
      /\ l.info.include_requested_list = c.info.include_requested_list
      /\ l.info.exclude_list = {}
      /\ l.started = {}
  <2>1. c.info.include_requested_list \in SourceList
    BY <1>3, CtxInfo
  <2>2. {} \in SUBSET Sources
    OBVIOUS
  <2>3. QED
    BY <1>3, <2>1, <2>2, SetListsLemma
<1> HIDE DEF l
<1>5. /\ m \in Ctx
      /\ m.info.filter_mode = "INCLUDE_MODE"
      /\ m.info.include_requested_list = l.info.include_requested_list
      /\ m.info.exclude_list = l.info.exclude_list
      /\ m.info.older_host_present_timer = l.info.older_host_present_timer
      /\ m.info.group_retransmission_timer = l.info.group_retransmission_timer
      /\ m.info.group_retransmission_count = l.info.group_retransmission_count
      /\ m.info.source_retransmission_timer = l.info.source_retransmission_timer
      /\ m.started = l.started
  <2>1. "INCLUDE_MODE" \in FilterModes
    BY DEF FilterModes
  <2>2. QED
    BY <1>4, <2>1, SetModeLemma
<1> HIDE DEF m
<1>6. /\ I \in GaddrInfo
      /\ SameButFilterTimer(I, m.info)
      /\ I.shared_filter_timer = NoTimer
  BY <1>5, CtxInfo DEF GaddrInfo, SameButFilterTimer
<1>7. e = [m EXCEPT !.info = I]
  OBVIOUS
<1> HIDE DEF I, e
<1>8. e \in Ctx /\ e.info = I /\ e.started = {}
  BY <1>4, <1>5, <1>6, <1>7 DEF Ctx
<1>9. n \in Ctx /\ n.info = I /\ n.started = {}
  BY <1>8, NotifyLemma
<1> HIDE DEF n
<1>10. GroupOK(I, g, Q)
  <2>1. Core(c.info, g, P, {})
    BY <1>3 DEF GroupIn, GroupOK
  <2>2. \A u, type : RunIn(u, type, g, P) /\ type # "FILTER_TIMER"
                     => RunIn(u, type, g, Q)
    BY <1>2 DEF RunIn
  <2>3. /\ I.include_requested_list = c.info.include_requested_list
        /\ I.older_host_present_timer = c.info.older_host_present_timer
        /\ I.group_retransmission_timer = c.info.group_retransmission_timer
        /\ I.group_retransmission_count = c.info.group_retransmission_count
        /\ I.source_retransmission_timer = c.info.source_retransmission_timer
        /\ I.filter_mode = "INCLUDE_MODE"
        /\ I.exclude_list = {}
    BY <1>4, <1>5, <1>6 DEF SameButLists, SameButFilterTimer
  <2> HIDE DEF P, Q, g
  <2>4. Core(I, g, Q, {})
    BY <2>1, <2>2, <2>3 DEF Core
  <2>5. FilterPart(I, g, Q)
    BY <1>6, <2>3 DEF FilterPart
  <2>6. QED
    BY <2>4, <2>5 DEF GroupOK
<1>11. GroupIn(n, g, Q)
  BY <1>9, <1>10 DEF GroupIn
<1>12. z \in Ctx
  BY <1>3 DEF Ctx, NoMembership, Membership, FilterModes
<1>13. QED
  BY <1>1, <1>2, <1>8, <1>9, <1>11, <1>12, DeliveredStep

(* The expiry of a source timer keeps the invariant: all the sources that  *)
(* share the timer leave the requested list at once.                       *)
LEMMA SourceTimerStep ==
    ASSUME IInv, NEW t \in DOMAIN timing, timer_triggerd_source_timer(t)
    PROVE  IInv'
<1> DEFINE g == t.gaddr
           c == Context(g)
           L == c.info.include_requested_list
           X == {s \in DOMAIN L : L[s].shared_source_timer = t}
           R == DOMAIN L \ X
           K == Times(L, R)
           Y == c.info.exclude_list
           YX == Y \cup X
           a == SetLists(c, K, Y)
           b == SetLists(c, K, YX)
           z == [c EXCEPT !.view = NoMembership]
           P == DOMAIN timing
           Q == DOMAIN timing \ {t}
<1>1. g \in Groups /\ t \in Timer /\ t # NoTimer
  BY TimerGroup DEF IInv
<1>2. /\ t.type = "SOURCE_TIMER"
      /\ UNCHANGED received
      /\ \/ group_info' = Erase(g) /\ Finish(z, g, {t})
         \/ /\ c.info.filter_mode = "INCLUDE_MODE"
            /\ group_info' = Store(g, a.info) /\ Finish(Notify(a), g, {t})
         \/ /\ c.info.filter_mode = "EXCLUDE_MODE"
            /\ group_info' = Store(g, b.info) /\ Finish(Notify(b), g, {t})
  BY DEF timer_triggerd_source_timer
<1>3. /\ c \in Ctx
      /\ GroupIn(c, g, P)
      /\ c.started = {}
  BY <1>1, ContextOK
<1> HIDE DEF c
<1>4. /\ L \in SourceList /\ DOMAIN L \in SUBSET Sources /\ Y \in SUBSET Sources
      /\ YX \in SUBSET Sources
  BY <1>3, CtxInfo
<1>5. /\ K \in SourceList
      /\ DOMAIN K = DOMAIN L \cap R
      /\ \A s \in DOMAIN L \cap R : K[s] = L[s]
  BY <1>4, TimesLemma
<1>6. \A s \in DOMAIN K : s \in DOMAIN L /\ K[s] = L[s] /\ s \notin X
                          /\ L[s].shared_source_timer # t
  BY <1>5
<1>7. \A s \in DOMAIN K : s \notin X
  BY <1>6
<1> HIDE DEF K, YX
<1>8. /\ a \in Ctx
      /\ SameButLists(a.info, c.info)
      /\ a.info.include_requested_list = K
      /\ a.info.exclude_list = Y
      /\ a.started = {}
  BY <1>3, <1>4, <1>5, SetListsLemma
<1>9. /\ b \in Ctx
      /\ SameButLists(b.info, c.info)
      /\ b.info.include_requested_list = K
      /\ b.info.exclude_list = YX
      /\ b.started = {}
  BY <1>3, <1>4, <1>5, SetListsLemma
<1> HIDE DEF a, b
<1>10. \A u, type : RunIn(u, type, g, P) /\ u # t => RunIn(u, type, g, Q)
  BY DEF RunIn
<1>11. \A u, type : RunIn(u, type, g, P) /\ type # "SOURCE_TIMER"
                    => RunIn(u, type, g, Q)
  BY <1>2 DEF RunIn
<1>12. Core(c.info, g, P, {}) /\ FilterPart(c.info, g, P)
  BY <1>3 DEF GroupIn, GroupOK
<1> HIDE DEF P, Q
<1>13. ASSUME NEW i, SameButLists(i, c.info), i.include_requested_list = K
       PROVE  Core(i, g, Q, {})
  <2>1. \A s \in DOMAIN K :
           RunIn(K[s].shared_source_timer, "SOURCE_TIMER", g, Q)
    BY <1>6, <1>10, <1>12 DEF Core
  <2>2. QED
    BY <1>6, <1>11, <1>12, <1>13, <2>1 DEF Core, SameButLists
<1>14. CASE group_info' = Erase(g) /\ Finish(z, g, {t})
  <2>1. z \in Ctx
    BY <1>3 DEF Ctx, NoMembership, Membership, FilterModes
  <2>2. QED
    BY <1>1, <1>2, <1>14, <2>1, DeliveredStep
<1>15. CASE /\ c.info.filter_mode = "INCLUDE_MODE"
            /\ group_info' = Store(g, a.info) /\ Finish(Notify(a), g, {t})
  <2> DEFINE n == Notify(a)
  <2>1. n \in Ctx /\ n.info = a.info /\ n.started = {}
    BY <1>8, NotifyLemma
  <2> HIDE DEF n
  <2>2. FilterPart(a.info, g, Q)
    BY <1>8, <1>12, <1>15 DEF FilterPart, SameButLists
  <2>3. Core(a.info, g, Q, {})
    BY <1>8, <1>13
  <2>4. GroupIn(n, g, Q)
    BY <2>1, <2>2, <2>3 DEF GroupIn, GroupOK
  <2>5. QED
    BY <1>1, <1>2, <1>15, <2>1, <2>4, DeliveredStep DEF n, Q
<1>16. CASE /\ c.info.filter_mode = "EXCLUDE_MODE"
            /\ group_info' = Store(g, b.info) /\ Finish(Notify(b), g, {t})
  <2> DEFINE n == Notify(b)
  <2>1. n \in Ctx /\ n.info = b.info /\ n.started = {}
    BY <1>9, NotifyLemma
  <2> HIDE DEF n
  <2>2. DOMAIN K \cap YX = {}
    BY <1>6, <1>12, <1>16 DEF FilterPart, Requested, YX
  <2>3. FilterPart(b.info, g, Q)
    BY <1>9, <1>11, <1>12, <1>16, <2>2 DEF FilterPart, SameButLists, Requested
  <2>4. Core(b.info, g, Q, {})
    BY <1>9, <1>13
  <2>5. GroupIn(n, g, Q)
    BY <2>1, <2>3, <2>4 DEF GroupIn, GroupOK
  <2>6. QED
    BY <1>1, <1>2, <1>16, <2>1, <2>5, DeliveredStep DEF n, Q
<1>17. QED
  BY <1>2, <1>14, <1>15, <1>16

(* A group retransmission keeps the invariant although its timer has been  *)
(* used up: send_Q schedules the next one while queries are left.          *)
LEMMA RetGroupTimerStep ==
    ASSUME IInv, NEW t \in DOMAIN timing, timer_triggerd_ret_group_timer(t)
    PROVE  IInv'
<1> DEFINE g == t.gaddr
           c == Context(g)
           r == send_Q_group(c, g)
           ft == NewTimer("FILTER_TIMER", g, LLQT)
           rt == NewTimer("RET_GROUP_TIMER", g, LLQI)
           P == DOMAIN timing
           Q == DOMAIN timing \ {t}
           U == Q \cup r.started
<1>1. g \in Groups /\ t \in Timer /\ t # NoTimer
  BY TimerGroup DEF IInv
<1>2. /\ t.type = "RET_GROUP_TIMER"
      /\ t = group_info[g].group_retransmission_timer
      /\ g \in DOMAIN group_info
      /\ UNCHANGED received
      /\ FreeStamps # {}
      /\ group_info' = Store(g, r.info)
      /\ Finish(r, g, {t})
  BY DEF timer_triggerd_ret_group_timer
<1>3. /\ c \in Ctx
      /\ GroupIn(c, g, P)
      /\ c.started = {}
      /\ c.info.group_retransmission_timer # NoTimer
  BY <1>1, <1>2, ContextOK DEF Info
<1>4. /\ ft.type = "FILTER_TIMER" /\ ft.gaddr = g
      /\ rt.type = "RET_GROUP_TIMER" /\ rt.gaddr = g
  BY <1>1, <1>2, NewTimerType DEF TimerTypes
<1> HIDE DEF c
<1>5. /\ r \in Ctx
      /\ SameButGroup(r.info, c.info)
      /\ r.info.shared_filter_timer = c.info.shared_filter_timer
      /\ r.info.group_retransmission_count > 0
         => r.info.group_retransmission_timer = rt /\ rt \in r.started
  BY <1>1, <1>2, <1>3, SendQGroupLemma
<1>6. \A u, type : RunIn(u, type, g, P) /\ type # "RET_GROUP_TIMER"
                   => RunIn(u, type, g, U)
  BY <1>2 DEF RunIn
<1>7. rt \in r.started => RunIn(rt, "RET_GROUP_TIMER", g, U)
  BY <1>4 DEF RunIn
<1>8. Core(c.info, g, P, {}) /\ FilterPart(c.info, g, P)
  BY <1>3 DEF GroupIn, GroupOK
<1> HIDE DEF g, r, rt, P, U
<1>9. Core(r.info, g, U, {})
  BY <1>5, <1>6, <1>7, <1>8 DEF Core, SameButGroup
<1>10. FilterPart(r.info, g, U)
  BY <1>5, <1>6, <1>8 DEF FilterPart, SameButGroup, Requested
<1>11. GroupIn(r, g, Q)
  BY <1>9, <1>10 DEF GroupIn, GroupOK, U
<1>12. g = t.gaddr
  BY DEF g
<1>13. QED
  BY <1>1, <1>2, <1>5, <1>11, <1>12, DeliveredStep

(* A source retransmission keeps the invariant although its timer has      *)
(* been used up.                                                           *)
LEMMA RetSourceTimerStep ==
    ASSUME IInv, NEW t \in DOMAIN timing, timer_triggerd_ret_source_timer(t)
    PROVE  IInv'
<1> DEFINE g == t.gaddr
           c == Context(g)
           S == {}
           r == send_Q_sources(c, g, S, TRUE)
           st == NewTimer("SOURCE_TIMER", g, LLQT)
           rst == NewTimer("RET_SOURCE_TIMER", g, LLQI)
           L == c.info.include_requested_list
           M == r.info.include_requested_list
           P == DOMAIN timing
           Q == DOMAIN timing \ {t}
           U == Q \cup r.started
<1>1. g \in Groups /\ t \in Timer /\ t # NoTimer
  BY TimerGroup DEF IInv
<1>2. /\ t.type = "RET_SOURCE_TIMER"
      /\ UNCHANGED received
      /\ FreeStamps # {}
      /\ group_info' = Store(g, r.info)
      /\ Finish(r, g, {t})
  BY DEF timer_triggerd_ret_source_timer
<1>3. /\ c \in Ctx
      /\ GroupIn(c, g, P)
      /\ c.started = {}
  BY <1>1, <1>2, ContextOK
<1>4. rst.type = "RET_SOURCE_TIMER" /\ rst.gaddr = g
  BY <1>1, <1>2, NewTimerType DEF TimerTypes
<1> HIDE DEF c
<1>5. PICK b \in BOOLEAN : b = TRUE
  OBVIOUS
<1>6. r = send_Q_sources(c, g, S, b)
  BY <1>5
<1>s. \A s \in DOMAIN L : s \notin S
  OBVIOUS
<1> HIDE DEF r, S, rst, st
<1>7. /\ r \in Ctx
      /\ SameButSources(r.info, c.info)
      /\ DOMAIN M = DOMAIN L
      /\ \A s \in DOMAIN L :
           IF s \in S /\ L[s].retransmission_count < 1
           THEN M[s].shared_source_timer = st /\ st \in r.started
           ELSE /\ M[s].shared_source_timer = L[s].shared_source_timer
                /\ M[s].retransmission_count <= L[s].retransmission_count
      /\ \/ ~ b /\ r = c
         \/ \A s \in DOMAIN L : M[s].retransmission_count <= 0
         \/ r.info.source_retransmission_timer = rst /\ rst \in r.started
  BY <1>1, <1>2, <1>3, <1>6, SendQSourcesLemma DEF st, rst
<1>8. \/ \A s \in DOMAIN M : M[s].retransmission_count <= 0
      \/ r.info.source_retransmission_timer = rst /\ rst \in r.started
  BY <1>5, <1>7
<1>9. \A s \in DOMAIN M : /\ s \in DOMAIN L
                          /\ M[s].shared_source_timer = L[s].shared_source_timer
  BY <1>7, <1>s
<1>10. \A s \in DOMAIN M : M[s].retransmission_count \in Int
  BY <1>7, CtxInfo
<1>11. \A u, type : RunIn(u, type, g, P) /\ type # "RET_SOURCE_TIMER"
                    => RunIn(u, type, g, U)
  BY <1>2 DEF RunIn
<1>12. rst \in r.started => RunIn(rst, "RET_SOURCE_TIMER", g, U)
  BY <1>4 DEF RunIn
<1>13. Core(c.info, g, P, {}) /\ FilterPart(c.info, g, P)
  BY <1>3 DEF GroupIn, GroupOK
<1> HIDE DEF g, P, U
<1>14. \A s \in DOMAIN M :
          RunIn(M[s].shared_source_timer, "SOURCE_TIMER", g, U)
  BY <1>9, <1>11, <1>13 DEF Core
<1>15. (\E s \in DOMAIN M : M[s].retransmission_count > 0)
       => RunIn(r.info.source_retransmission_timer, "RET_SOURCE_TIMER", g, U)
  BY <1>8, <1>10, <1>12
<1>16. Core(r.info, g, U, {})
  BY <1>7, <1>11, <1>13, <1>14, <1>15 DEF Core, SameButSources
<1>17. FilterPart(r.info, g, U)
  BY <1>7, <1>11, <1>13 DEF FilterPart, SameButSources, Requested
<1>18. GroupIn(r, g, Q)
  BY <1>16, <1>17 DEF GroupIn, GroupOK, U
<1>19. g = t.gaddr
  BY DEF g
<1>20. QED
  BY <1>1, <1>2, <1>7, <1>18, <1>19, DeliveredStep

(* The expiry of an older host present timer keeps the invariant: the      *)
(* group is back at the newest version or has a new timer.                 *)
LEMMA OlderHostTimerStep ==
    ASSUME IInv, NEW t \in DOMAIN timing,
           timer_triggerd_older_host_present_timer(t)
    PROVE  IInv'
<1> DEFINE g == t.gaddr
           c == Context(g)
           v == c.info.compatibility_mode_variable
           d == IF is_newest_version(v + 1) THEN MALI ELSE OHPI
           ohpt == NewTimer("OLDER_HOST_PRESENT_TIMER", g, d)
           I == [c.info EXCEPT !.older_host_present_timer = NoTimer]
           o == [c EXCEPT !.info.older_host_present_timer = NoTimer]
           H == [c.info EXCEPT !.compatibility_mode_variable = v + 1]
           J == [H EXCEPT !.older_host_present_timer = ohpt]
           n == [c EXCEPT !.info = J, !.started = {ohpt}]
           P == DOMAIN timing
           Q == DOMAIN timing \ {t}
<1>1. g \in Groups /\ t \in Timer /\ t # NoTimer
  BY TimerGroup DEF IInv
<1>2. /\ t.type = "OLDER_HOST_PRESENT_TIMER"
      /\ UNCHANGED received
      /\ FreeStamps # {}
      /\ \/ group_info' = Store(g, o.info) /\ Finish(Notify(o), g, {t})
         \/ /\ ~ is_newest_version(v)
            /\ group_info' = Store(g, n.info) /\ Finish(n, g, {t})
  BY DEF timer_triggerd_older_host_present_timer
<1>3. /\ c \in Ctx
      /\ GroupIn(c, g, P)
      /\ c.started = {}
  BY <1>1, ContextOK
<1>4. c.info \in GaddrInfo /\ v \in 1 .. NewestVersion
  BY <1>3, CtxInfo DEF GaddrInfo
<1>5. Core(c.info, g, P, {}) /\ FilterPart(c.info, g, P)
  BY <1>3 DEF GroupIn, GroupOK
<1>6. /\ ohpt \in Timer
      /\ ohpt.type = "OLDER_HOST_PRESENT_TIMER" /\ ohpt.gaddr = g
  <2>1. d \in {LLQI, LLQT, MALI, OHPI}
    OBVIOUS
  <2> HIDE DEF d
  <2>2. QED
    BY <1>1, <1>2, <2>1, NewTimerType DEF TimerTypes
<1>7. \A u, type, T : RunIn(u, type, g, P) /\ type # "OLDER_HOST_PRESENT_TIMER"
                      => RunIn(u, type, g, Q \cup T)
  BY <1>2 DEF RunIn
<1>8. RunIn(ohpt, "OLDER_HOST_PRESENT_TIMER", g, Q \cup {ohpt})
  BY <1>6 DEF RunIn
<1> HIDE DEF c, P, Q, ohpt
<1>9. ASSUME NEW i, NEW T, SameButOhpt(i, c.info),
             i.older_host_present_timer # NoTimer
             => RunIn(i.older_host_present_timer, "OLDER_HOST_PRESENT_TIMER",
                      g, Q \cup T)
      PROVE  GroupOK(i, g, Q \cup T)
  <2> DEFINE V == Q \cup T
  <2>1. \A u, type : RunIn(u, type, g, P) /\ type # "OLDER_HOST_PRESENT_TIMER"
                     => RunIn(u, type, g, V)
    BY <1>7
  <2>2. i.older_host_present_timer # NoTimer
        => RunIn(i.older_host_present_timer, "OLDER_HOST_PRESENT_TIMER", g, V)
    BY <1>9
  <2> HIDE DEF V, g
  <2>3. Core(i, g, V, {})
    BY <1>5, <1>9, <2>1, <2>2 DEF Core, SameButOhpt
  <2>4. FilterPart(i, g, V)
    BY <1>5, <1>9, <2>1 DEF FilterPart, SameButOhpt, Requested
  <2>5. QED
    BY <2>3, <2>4 DEF GroupOK, V
<1>10. CASE group_info' = Store(g, o.info) /\ Finish(Notify(o), g, {t})
  <2>1. /\ I \in GaddrInfo
        /\ SameButOhpt(I, c.info)
        /\ I.older_host_present_timer = NoTimer
    BY <1>4 DEF GaddrInfo, SameButOhpt
  <2>2. o = [c EXCEPT !.info = I]
    OBVIOUS
  <2> DEFINE m == Notify(o)
  <2> HIDE DEF I, o
  <2>3. o \in Ctx /\ o.info = I /\ o.started = {}
    BY <1>3, <2>1, <2>2 DEF Ctx
  <2>4. m \in Ctx /\ m.info = I /\ m.started = {}
    BY <2>3, NotifyLemma
  <2>5. GroupIn(m, g, Q)
    BY <1>9, <2>1, <2>4 DEF GroupIn
  <2>6. QED
    BY <1>1, <1>2, <1>10, <2>3, <2>4, <2>5, DeliveredStep DEF Q
<1>11. CASE /\ ~ is_newest_version(v)
            /\ group_info' = Store(g, n.info) /\ Finish(n, g, {t})
  <2>1. v + 1 \in 1 .. NewestVersion
    BY <1>4, <1>11, VersionAssumption DEF is_newest_version
  <2>2. H \in GaddrInfo /\ SameButOhpt(H, c.info)
    BY <1>4, <2>1 DEF GaddrInfo, SameButOhpt
  <2> HIDE DEF H
  <2>3. /\ J \in GaddrInfo
        /\ SameButOhpt(J, c.info)
        /\ J.older_host_present_timer = ohpt
    BY <1>6, <2>2 DEF GaddrInfo, SameButOhpt
  <2> HIDE DEF J
  <2>4. n \in Ctx /\ n.info = J /\ n.started = {ohpt}
    BY <1>3, <1>6, <2>3 DEF Ctx
  <2> HIDE DEF n
  <2>5. GroupIn(n, g, Q)
    BY <1>8, <1>9, <2>3, <2>4 DEF GroupIn
  <2>6. QED
    BY <1>1, <1>2, <1>11, <2>4, <2>5, DeliveredStep DEF Q
<1>12. QED
  BY <1>2, <1>10, <1>11

-----------------------------------------------------------------------------
(* The empty database satisfies the inductive invariant.                   *)
LEMMA InitInvariant == Init => IInv
<1> SUFFICES ASSUME Init PROVE IInv
  OBVIOUS
<1>1. DOMAIN group_info = {} /\ DOMAIN timing = {}
  BY DEF Init
<1>2. published \in [Groups -> Membership]
  BY DEF Init, NoMembership, Membership, FilterModes
<1>3. received \in 0 .. MaxRecords
  BY TimingAssumption DEF Init
<1>4. QED
  BY <1>1, <1>2, <1>3 DEF Init, IInv, TypeOK, GroupsOK

(* The passage of time keeps the inductive invariant.                      *)
LEMMA TickStep == IInv /\ Tick => IInv'
<1> SUFFICES ASSUME IInv, Tick PROVE IInv'
  OBVIOUS
<1>1. /\ DOMAIN timing' = DOMAIN timing
      /\ \A t \in DOMAIN timing : timing'[t] = timing[t] - 1
      /\ sent' = {}
      /\ UNCHANGED <<group_info, published, received>>
  BY DEF Tick
<1>2. GroupsOK'
  BY <1>1 DEF IInv, GroupsOK
<1>3. QED
  BY <1>1, <1>2 DEF IInv, TypeOK

(* The receivers build records of known types over known sources.          *)
LEMMA RecordsType ==
    ASSUME NEW v, NEW r \in Records(v)
    PROVE  r[1] \in RecordTypes /\ r[2] \in SUBSET Sources
  BY DEF Records, RecordTypes

(* Every step keeps the inductive invariant.                               *)
LEMMA NextInvariant == IInv /\ [Next]_vars => IInv'
<1> SUFFICES ASSUME IInv, [Next]_vars PROVE IInv'
  OBVIOUS
<1>1. CASE ReceiveRecord
  <2>1. PICK g \in Groups, v \in RecordVersions :
           \E r \in Records(v) : receive_record(g, v, r[1], r[2])
    BY <1>1 DEF ReceiveRecord
  <2>2. PICK r \in Records(v) : receive_record(g, v, r[1], r[2])
    BY <2>1
  <2>3. r[1] \in RecordTypes /\ r[2] \in SUBSET Sources
    BY RecordsType
  <2>4. QED
    BY <2>2, <2>3, ReceiveRecordStep
<1>2. CASE TimerTriggered
  <2>1. PICK t \in DOMAIN timing : timer_triggerd(t)
    BY <1>2 DEF TimerTriggered
  <2>2. QED
    BY <2>1, OutdatedStep, FilterTimerStep, SourceTimerStep, RetGroupTimerStep,
       RetSourceTimerStep, OlderHostTimerStep DEF timer_triggerd
<1>3. CASE Tick
  BY <1>3, TickStep
<1>4. CASE UNCHANGED vars
  BY <1>4 DEF vars, IInv, TypeOK, GroupsOK
<1>5. QED
  BY <1>1, <1>2, <1>3, <1>4 DEF Next

(* The inductive invariant holds in every reachable state, for any number  *)
(* of groups, sources, records and time units and with timers delivered    *)
(* as late as one likes.                                                   *)
THEOREM Invariance == Spec => []IInv
<1>1. QED
  BY InitInvariant, NextInvariant, PTL DEF Spec

(* The querier's database, timers, queries and notifications stay well     *)
(* formed.                                                                 *)
THEOREM TypeCorrect == Spec => []TypeOK
<1>1. IInv => TypeOK
  BY DEF IInv
<1>2. QED
  BY <1>1, Invariance, PTL

(* No source of the membership database is ever without a running source   *)
(* timer: receive_record and the timer handlers never create the zombie    *)
(* the comments of querier.cpp warn of.                                    *)
THEOREM ZombieFree == Spec => []NoZombieSource
<1>1. IInv => NoZombieSource
  BY DEF IInv, GroupsOK, GroupOK, Core, RunIn, NoZombieSource, Running, Requested
<1>2. QED
  BY <1>1, Invariance, PTL

(* A group in EXCLUDE mode always has a running filter timer and disjoint  *)
(* lists, a group in INCLUDE mode never has either.                        *)
THEOREM FilterModeCorrect == Spec => []FilterModeInv
<1>1. IInv => FilterModeInv
  BY DEF IInv, GroupsOK, GroupOK, FilterPart, RunIn, FilterModeInv, Running
<1>2. QED
  BY <1>1, Invariance, PTL

(* A source or a group with queries left to send always has its next       *)
(* transmission scheduled.                                                 *)
THEOREM RetransmissionCorrect == Spec => []RetransmissionScheduled
<1>1. IInv => RetransmissionScheduled
  BY DEF IInv, GroupsOK, GroupOK, Core, RunIn, RetransmissionScheduled, Running,
         Requested
<1>2. QED
  BY <1>1, Invariance, PTL
=============================================================================
