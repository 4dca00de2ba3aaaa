------------------------- MODULE QuerierRefinement -------------------------
(***************************************************************************)
(* The querier implements the router filter state of RFC 3810, and what    *)
(* the routing is told follows the database.  QuerierProofs has shown that *)
(* the timers of a group are in order; here is what every handler does to  *)
(* the part of a group record that others see: filter mode, the two lists, *)
(* and the state of older hosts.  The last part is about the races between *)
(* the timers of a group.                                                  *)
(***************************************************************************)
EXTENDS QuerierProofs

(* The router filter state a group record stands for.                      *)
ShapeOf(i) == [mode |-> i.filter_mode, requested |-> Requested(i), excluded |-> i.exclude_list]

(* Two group records with the same filter state and state of older hosts.  *)
SameShape(i, j) ==
    /\ i.filter_mode = j.filter_mode
    /\ Requested(i) = Requested(j)
    /\ i.exclude_list = j.exclude_list
    /\ i.compatibility_mode_variable = j.compatibility_mode_variable
    /\ i.older_host_present_timer = j.older_host_present_timer

(* They are the same to the routing.                                       *)
LEMMA SameShapeMembership ==
    ASSUME NEW i, NEW j, SameShape(i, j)
    PROVE  ShapeOf(i) = ShapeOf(j) /\ MembershipOf(i) = MembershipOf(j)
  BY DEF SameShape, ShapeOf, MembershipOf, is_under_backward_compatibility_effects

-----------------------------------------------------------------------------
(* The operations of a handler call.  Starting timers and sending queries  *)
(* changes nothing that others see.                                        *)
Quiet(r, c) == r \in Ctx /\ SameShape(r.info, c.info) /\ r.view = c.view

(* Two such operations in a row.                                           *)
LEMMA QuietTrans ==
    ASSUME NEW a, NEW b, NEW c, Quiet(a, b), Quiet(b, c)
    PROVE  Quiet(a, c)
  BY DEF Quiet, SameShape

(* mali for sources is one.                                                *)
LEMMA MaliSourcesQuiet ==
    ASSUME FreeStamps # {}, NEW g \in Groups, NEW c \in Ctx, NEW S,
           NEW r, r = mali_sources(c, g, S)
    PROVE  Quiet(r, c)
<1> DEFINE st == NewTimer("SOURCE_TIMER", g, MALI)
           L == c.info.include_requested_list
           N == r.info.include_requested_list
<1>1. r \in Ctx /\ SameButSources(r.info, c.info) /\ DOMAIN N = DOMAIN L
  BY MaliSourcesLemma
<1>2. r.view = c.view
  BY DEF mali_sources, Ctx
<1>3. QED
  BY <1>1, <1>2 DEF Quiet, SameShape, SameButSources, Requested

(* mali for the filter timer is one.                                       *)
LEMMA MaliFilterQuiet ==
    ASSUME FreeStamps # {}, NEW g \in Groups, NEW c \in Ctx,
           NEW r, r = mali_filter(c, g)
    PROVE  Quiet(r, c)
<1> DEFINE ft == NewTimer("FILTER_TIMER", g, MALI)
<1>1. r \in Ctx /\ r.info = [c.info EXCEPT !.shared_filter_timer = ft]
  BY MaliFilterLemma
<1>2. r.view = c.view
  BY DEF mali_filter, Ctx
<1> HIDE DEF ft
<1>3. c.info \in GaddrInfo
  BY DEF Ctx
<1>4. QED
  BY <1>1, <1>2, <1>3 DEF Quiet, SameShape, Requested, GaddrInfo

(* send_Q for sources is one.                                              *)
LEMMA SendQSourcesQuiet ==
    ASSUME FreeStamps # {}, NEW g \in Groups, NEW c \in Ctx, NEW S, NEW b \in BOOLEAN,
           NEW r, r = send_Q_sources(c, g, S, b)
    PROVE  Quiet(r, c)
<1> DEFINE st == NewTimer("SOURCE_TIMER", g, LLQT)
           rst == NewTimer("RET_SOURCE_TIMER", g, LLQI)
           L == c.info.include_requested_list
           M == r.info.include_requested_list
<1>1. /\ r \in Ctx /\ SameButSources(r.info, c.info) /\ DOMAIN M = DOMAIN L
      /\ r.view = c.view
  BY SendQSourcesLemma
<1>2. QED
  BY <1>1 DEF Quiet, SameShape, SameButSources, Requested

(* send_Q for a group is one.                                              *)
LEMMA SendQGroupQuiet ==
    ASSUME FreeStamps # {}, NEW g \in Groups, NEW c \in Ctx,
           NEW r, r = send_Q_group(c, g)
    PROVE  Quiet(r, c)
<1> DEFINE ft == NewTimer("FILTER_TIMER", g, LLQT)
           rt == NewTimer("RET_GROUP_TIMER", g, LLQI)
<1>1. r \in Ctx /\ SameButGroup(r.info, c.info) /\ r.view = c.view
  BY SendQGroupLemma
<1>2. QED
  BY <1>1 DEF Quiet, SameShape, SameButGroup, Requested

(* A record that has this filter state and the older hosts of j.           *)
HasShape(i, m, R, E, j) ==
    /\ i.filter_mode = m /\ Requested(i) = R /\ i.exclude_list = E
    /\ i.compatibility_mode_variable = j.compatibility_mode_variable
    /\ i.older_host_present_timer = j.older_host_present_timer

(* Assigning the lists.                                                    *)
LEMMA SetListsShape ==
    ASSUME NEW c \in Ctx, NEW L \in SourceList, NEW E \in SUBSET Sources,
           NEW r, r = SetLists(c, L, E)
    PROVE  /\ r \in Ctx /\ r.view = c.view
           /\ HasShape(r.info, c.info.filter_mode, DOMAIN L, E, c.info)
<1>1. /\ r \in Ctx /\ SameButLists(r.info, c.info)
      /\ r.info.include_requested_list = L /\ r.info.exclude_list = E
  BY SetListsLemma
<1>2. r.view = c.view
  BY DEF SetLists, Ctx
<1>3. QED
  BY <1>1, <1>2 DEF HasShape, SameButLists, Requested

(* Assigning the filter mode.                                              *)
LEMMA SetModeShape ==
    ASSUME NEW c \in Ctx, NEW m \in FilterModes, NEW r, r = SetMode(c, m)
    PROVE  /\ r \in Ctx /\ r.view = c.view
           /\ HasShape(r.info, m, Requested(c.info), c.info.exclude_list, c.info)
<1>1. /\ r \in Ctx /\ r.info.filter_mode = m
      /\ r.info.include_requested_list = c.info.include_requested_list
      /\ r.info.exclude_list = c.info.exclude_list
      /\ r.info.older_host_present_timer = c.info.older_host_present_timer
  BY SetModeLemma
<1>2. c.info \in GaddrInfo
  BY DEF Ctx
<1>3. r = [c EXCEPT !.info = [c.info EXCEPT !.filter_mode = m]]
  BY DEF SetMode
<1>4. r.view = c.view /\ r.info = [c.info EXCEPT !.filter_mode = m]
  BY <1>3 DEF Ctx
<1>5. r.info.compatibility_mode_variable = c.info.compatibility_mode_variable
  BY <1>2, <1>4 DEF GaddrInfo
<1>6. QED
  BY <1>1, <1>4, <1>5 DEF HasShape, Requested

(* The notification at the end of a handler.                               *)
LEMMA NotifyTells ==
    ASSUME NEW c \in Ctx, NEW r, r = Notify(c)
    PROVE  r \in Ctx /\ r.info = c.info /\ r.view = MembershipOf(r.info)
<1>1. r \in Ctx /\ r.info = c.info
  BY NotifyLemma
<1>2. r.view = MembershipOf(c.info)
  BY DEF Notify, Ctx
<1>3. QED
  BY <1>1, <1>2

(* r differs from the context c in this filter state only, and the routing *)
(* has read it (told) or still has its old view.                           *)
Effect(r, c, m, R, E, told) ==
    /\ r \in Ctx
    /\ HasShape(r.info, m, R, E, c.info)
    /\ IF told THEN r.view = MembershipOf(r.info) ELSE r.view = c.view

(* Starting timers and sending queries after an assignment.                *)
LEMMA QuietEffect ==
    ASSUME NEW a, NEW c, NEW m, NEW R, NEW E, Effect(a, c, m, R, E, FALSE),
           NEW r, Quiet(r, a)
    PROVE  Effect(r, c, m, R, E, FALSE)
  BY DEF Effect, Quiet, SameShape, HasShape

(* Notifying the routing at the end.                                       *)
LEMMA NotifyEffect ==
    ASSUME NEW a, NEW c, NEW m, NEW R, NEW E, Effect(a, c, m, R, E, FALSE),
           NEW r, r = Notify(a)
    PROVE  Effect(r, c, m, R, E, TRUE)
<1>1. a \in Ctx /\ HasShape(a.info, m, R, E, c.info)
  BY DEF Effect
<1>2. r \in Ctx /\ r.info = a.info /\ r.view = MembershipOf(r.info)
  BY <1>1, NotifyTells
<1>3. QED
  BY <1>1, <1>2 DEF Effect

(* What receive_record_in_include_mode does to the filter state.           *)
IncludeTable(r, c, type, A, B) ==
    CASE type \in {"ALLOW_NEW_SOURCES", "MODE_IS_INCLUDE", "CHANGE_TO_INCLUDE_MODE"} ->
           Effect(r, c, "INCLUDE_MODE", A \cup B, {}, TRUE)
      [] type = "BLOCK_OLD_SOURCES" ->
           Effect(r, c, "INCLUDE_MODE", A, {}, FALSE)
      [] type \in {"CHANGE_TO_EXCLUDE_MODE", "MODE_IS_EXCLUDE"} ->
           Effect(r, c, "EXCLUDE_MODE", A \cap B, B \ A, TRUE)

(* Each case of receive_record_in_include_mode, with its calls, does what  *)
(* its row says.                                                           *)
LEMMA IncludeEffect ==
    ASSUME FreeStamps # {}, NEW g \in Groups, NEW c \in Ctx,
           c.info.filter_mode = "INCLUDE_MODE", c.info.exclude_list = {},
           NEW type \in RecordTypes, NEW B \in SUBSET Sources,
           NEW r, r = receive_record_in_include_mode(c, g, type, B)
    PROVE  IncludeTable(r, c, type, Requested(c.info), B)
<1> DEFINE L == c.info.include_requested_list
           A == DOMAIN L
           F == c.info.exclude_list
           N == B \ A
           K == A \cap B
           G == A \ B
           U == A \cup B
           P == Plus(L, B)
           T == Times(L, B)
           added == SetLists(c, P, F)
           lists == SetLists(c, T, N)
           exclude == SetMode(lists, "EXCLUDE_MODE")
<1>1. L \in SourceList /\ A \in SUBSET Sources /\ F \in SUBSET Sources
  BY CtxInfo
<1>2. P \in SourceList /\ DOMAIN P = U
  BY <1>1, PlusLemma
<1>3. T \in SourceList /\ DOMAIN T = K
  BY <1>1, TimesLemma
<1>4. N \in SUBSET Sources
  OBVIOUS
<1>5. PICK b \in BOOLEAN : b = FALSE
  OBVIOUS
<1>6. r = CASE type \in {"ALLOW_NEW_SOURCES", "MODE_IS_INCLUDE"} ->
              Notify(mali_sources(added, g, B))
         [] type = "BLOCK_OLD_SOURCES" ->
              send_Q_sources(c, g, K, b)
         [] type = "CHANGE_TO_EXCLUDE_MODE" ->
              Notify(mali_filter(send_Q_sources(exclude, g, K, b), g))
         [] type = "CHANGE_TO_INCLUDE_MODE" ->
              Notify(mali_sources(send_Q_sources(added, g, G, b), g, B))
         [] type = "MODE_IS_EXCLUDE" ->
              Notify(mali_filter(exclude, g))
  BY <1>5 DEF receive_record_in_include_mode
<1>7. Requested(c.info) = A
  BY DEF Requested
<1>8. Effect(c, c, "INCLUDE_MODE", A, {}, FALSE)
  BY <1>7 DEF Effect, HasShape
<1> HIDE DEF N, K, G, P, T, A, U
<1>9. Effect(added, c, "INCLUDE_MODE", U, {}, FALSE)
  <2>1. /\ added \in Ctx /\ added.view = c.view
        /\ HasShape(added.info, c.info.filter_mode, DOMAIN P, F, c.info)
    BY <1>1, <1>2, SetListsShape
  <2>2. QED
    BY <1>2, <2>1 DEF Effect, HasShape
<1>10. Effect(exclude, c, "EXCLUDE_MODE", K, N, FALSE)
  <2>1. /\ lists \in Ctx /\ lists.view = c.view
        /\ HasShape(lists.info, c.info.filter_mode, DOMAIN T, N, c.info)
    BY <1>3, <1>4, SetListsShape
  <2> HIDE DEF lists
  <2>2. /\ exclude \in Ctx /\ exclude.view = lists.view
        /\ HasShape(exclude.info, "EXCLUDE_MODE", Requested(lists.info),
                    lists.info.exclude_list, lists.info)
    BY <2>1, SetModeShape DEF FilterModes
  <2>3. QED
    BY <1>3, <2>1, <2>2 DEF Effect, HasShape
<1>11. added \in Ctx /\ exclude \in Ctx
  BY <1>9, <1>10 DEF Effect
<1> HIDE DEF added, exclude
<1>12. CASE type \in {"ALLOW_NEW_SOURCES", "MODE_IS_INCLUDE"}
  <2> DEFINE a == mali_sources(added, g, B)
  <2>1. Quiet(a, added)
    BY <1>11, MaliSourcesQuiet
  <2>2. r = Notify(a)
    BY <1>6, <1>12
  <2> HIDE DEF a
  <2>3. Effect(r, c, "INCLUDE_MODE", U, {}, TRUE)
    BY <1>9, <2>1, <2>2, QuietEffect, NotifyEffect
  <2>4. QED
    BY <1>7, <1>12, <2>3 DEF IncludeTable, U
<1>13. CASE type = "BLOCK_OLD_SOURCES"
  <2>1. r = send_Q_sources(c, g, K, b)
    BY <1>6, <1>13
  <2>2. Quiet(r, c)
    BY <2>1, SendQSourcesQuiet
  <2>3. Effect(r, c, "INCLUDE_MODE", A, {}, FALSE)
    BY <1>8, <2>2, QuietEffect
  <2>4. QED
    BY <1>7, <1>13, <2>3 DEF IncludeTable
<1>14. CASE type = "CHANGE_TO_EXCLUDE_MODE"
  <2> DEFINE q == send_Q_sources(exclude, g, K, b)
             a == mali_filter(q, g)
  <2>1. Quiet(q, exclude)
    BY <1>11, SendQSourcesQuiet
  <2>2. r = Notify(a)
    BY <1>6, <1>14
  <2> HIDE DEF q
  <2>3. Quiet(a, q)
    BY <2>1, MaliFilterQuiet DEF Quiet
  <2> HIDE DEF a
  <2>4. Effect(r, c, "EXCLUDE_MODE", K, N, TRUE)
    BY <1>10, <2>1, <2>2, <2>3, QuietEffect, NotifyEffect
  <2>5. QED
    BY <1>7, <1>14, <2>4 DEF IncludeTable, K, N
<1>15. CASE type = "CHANGE_TO_INCLUDE_MODE"
  <2> DEFINE q == send_Q_sources(added, g, G, b)
             a == mali_sources(q, g, B)
  <2>1. Quiet(q, added)
    BY <1>11, SendQSourcesQuiet
  <2>2. r = Notify(a)
    BY <1>6, <1>15
  <2> HIDE DEF q
  <2>3. Quiet(a, q)
    BY <2>1, MaliSourcesQuiet DEF Quiet
  <2> HIDE DEF a
  <2>4. Effect(r, c, "INCLUDE_MODE", U, {}, TRUE)
    BY <1>9, <2>1, <2>2, <2>3, QuietEffect, NotifyEffect
  <2>5. QED
    BY <1>7, <1>15, <2>4 DEF IncludeTable, U
<1>16. CASE type = "MODE_IS_EXCLUDE"
  <2> DEFINE a == mali_filter(exclude, g)
  <2>1. Quiet(a, exclude)
    BY <1>11, MaliFilterQuiet
  <2>2. r = Notify(a)
    BY <1>6, <1>16
  <2> HIDE DEF a
  <2>3. Effect(r, c, "EXCLUDE_MODE", K, N, TRUE)
    BY <1>10, <2>1, <2>2, QuietEffect, NotifyEffect
  <2>4. QED
    BY <1>7, <1>16, <2>3 DEF IncludeTable, K, N
<1>17. QED
  BY <1>12, <1>13, <1>14, <1>15, <1>16 DEF RecordTypes

(* What receive_record_in_exclude_mode does to the filter state.           *)
ExcludeTable(r, c, type, X, Y, A) ==
    CASE type \in {"ALLOW_NEW_SOURCES", "MODE_IS_INCLUDE", "CHANGE_TO_INCLUDE_MODE"} ->
           Effect(r, c, "EXCLUDE_MODE", X \cup A, Y \ A, TRUE)
      [] type = "BLOCK_OLD_SOURCES" ->
           Effect(r, c, "EXCLUDE_MODE", X \cup (A \ Y), Y, FALSE)
      [] type \in {"CHANGE_TO_EXCLUDE_MODE", "MODE_IS_EXCLUDE"} ->
           Effect(r, c, "EXCLUDE_MODE", A \ Y, Y \cap A, TRUE)

(* Each case of receive_record_in_exclude_mode, with its calls, does what  *)
(* its row says; the two lists of the group are disjoint.                  *)
LEMMA ExcludeEffect ==
    ASSUME FreeStamps # {}, NEW g \in Groups, NEW c \in Ctx,
           c.info.filter_mode = "EXCLUDE_MODE",
           Requested(c.info) \cap c.info.exclude_list = {},
           NEW type \in RecordTypes, NEW A \in SUBSET Sources,
           NEW r, r = receive_record_in_exclude_mode(c, g, type, A)
    PROVE  ExcludeTable(r, c, type, Requested(c.info), c.info.exclude_list, A)
<1> DEFINE L == c.info.include_requested_list
           X == DOMAIN L
           Y == c.info.exclude_list
           S == A \ Y
           YA == Y \ A
           YC == Y \cap A
           G == (X \cup A) \ A
           NX == (A \ X) \ Y
           U == X \cup A
           V == X \cup S
           P == Plus(L, A)
           Q == Plus(L, S)
           T == Times(L, A)
           W == Plus(T, S)
           added == SetLists(c, P, YA)
           block == SetLists(c, Q, Y)
           only == SetLists(c, W, YC)
<1>1. /\ L \in SourceList /\ X \in SUBSET Sources /\ Y \in SUBSET Sources
      /\ S \in SUBSET Sources /\ YA \in SUBSET Sources /\ YC \in SUBSET Sources
  BY CtxInfo
<1>2. P \in SourceList /\ DOMAIN P = U
  BY <1>1, PlusLemma
<1>3. Q \in SourceList /\ DOMAIN Q = V
  BY <1>1, PlusLemma
<1>4. W \in SourceList /\ DOMAIN W = S
  <2>1. T \in SourceList /\ DOMAIN T = X \cap A
    BY <1>1, TimesLemma
  <2>2. X \cap Y = {}
    BY DEF Requested
  <2> HIDE DEF T
  <2>3. W \in SourceList /\ DOMAIN W = DOMAIN T \cup S
    BY <1>1, <2>1, PlusLemma
  <2>4. QED
    BY <2>1, <2>2, <2>3
<1>5. PICK b \in BOOLEAN : b = FALSE
  OBVIOUS
<1>6. r = CASE type \in {"ALLOW_NEW_SOURCES", "MODE_IS_INCLUDE"} ->
              Notify(mali_sources(added, g, A))
         [] type = "BLOCK_OLD_SOURCES" ->
              send_Q_sources(block, g, S, b)
         [] type = "CHANGE_TO_EXCLUDE_MODE" ->
              Notify(mali_filter(
                  send_Q_sources(only, g, Requested(only.info), b), g))
         [] type = "CHANGE_TO_INCLUDE_MODE" ->
              Notify(mali_sources(
                  send_Q_group(send_Q_sources(added, g, G, b), g), g, A))
         [] type = "MODE_IS_EXCLUDE" ->
              Notify(mali_filter(mali_sources(only, g, NX), g))
  BY <1>5 DEF receive_record_in_exclude_mode
<1>7. Requested(c.info) = X
  BY DEF Requested
<1> HIDE DEF X, S, YA, YC, G, NX, U, V, P, Q, T, W
<1>8. Effect(added, c, "EXCLUDE_MODE", U, YA, FALSE)
  <2>1. /\ added \in Ctx /\ added.view = c.view
        /\ HasShape(added.info, c.info.filter_mode, DOMAIN P, YA, c.info)
    BY <1>1, <1>2, SetListsShape
  <2>2. QED
    BY <1>2, <2>1 DEF Effect, HasShape
<1>9. Effect(block, c, "EXCLUDE_MODE", V, Y, FALSE)
  <2>1. /\ block \in Ctx /\ block.view = c.view
        /\ HasShape(block.info, c.info.filter_mode, DOMAIN Q, Y, c.info)
    BY <1>1, <1>3, SetListsShape
  <2>2. QED
    BY <1>3, <2>1 DEF Effect, HasShape
<1>10. Effect(only, c, "EXCLUDE_MODE", S, YC, FALSE)
  <2>1. /\ only \in Ctx /\ only.view = c.view
        /\ HasShape(only.info, c.info.filter_mode, DOMAIN W, YC, c.info)
    BY <1>1, <1>4, SetListsShape
  <2>2. QED
    BY <1>4, <2>1 DEF Effect, HasShape
<1>11. added \in Ctx /\ block \in Ctx /\ only \in Ctx
  BY <1>8, <1>9, <1>10 DEF Effect
<1> HIDE DEF added, block, only
<1>12. CASE type \in {"ALLOW_NEW_SOURCES", "MODE_IS_INCLUDE"}
  <2> DEFINE a == mali_sources(added, g, A)
  <2>1. Quiet(a, added)
    BY <1>11, MaliSourcesQuiet
  <2>2. r = Notify(a)
    BY <1>6, <1>12
  <2> HIDE DEF a
  <2>3. Effect(r, c, "EXCLUDE_MODE", U, YA, TRUE)
    BY <1>8, <2>1, <2>2, QuietEffect, NotifyEffect
  <2>4. QED
    BY <1>7, <1>12, <2>3 DEF ExcludeTable, U, YA
<1>13. CASE type = "BLOCK_OLD_SOURCES"
  <2>1. r = send_Q_sources(block, g, S, b)
    BY <1>6, <1>13
  <2>2. Quiet(r, block)
    BY <1>11, <2>1, SendQSourcesQuiet
  <2>3. Effect(r, c, "EXCLUDE_MODE", V, Y, FALSE)
    BY <1>9, <2>2, QuietEffect
  <2>4. QED
    BY <1>7, <1>13, <2>3 DEF ExcludeTable, V, S
<1>14. CASE type = "CHANGE_TO_EXCLUDE_MODE"
  <2> DEFINE R == Requested(only.info)
             q == send_Q_sources(only, g, R, b)
             a == mali_filter(q, g)
  <2>1. Quiet(q, only)
    BY <1>11, SendQSourcesQuiet
  <2>2. r = Notify(a)
    BY <1>6, <1>14
  <2> HIDE DEF q
  <2>3. Quiet(a, q)
    BY <2>1, MaliFilterQuiet DEF Quiet
  <2> HIDE DEF a
  <2>4. Effect(r, c, "EXCLUDE_MODE", S, YC, TRUE)
    BY <1>10, <2>1, <2>2, <2>3, QuietEffect, NotifyEffect
  <2>5. QED
    BY <1>7, <1>14, <2>4 DEF ExcludeTable, S, YC
<1>15. CASE type = "CHANGE_TO_INCLUDE_MODE"
  <2> DEFINE q == send_Q_sources(added, g, G, b)
             h == send_Q_group(q, g)
             a == mali_sources(h, g, A)
  <2>1. Quiet(q, added)
    BY <1>11, SendQSourcesQuiet
  <2>2. r = Notify(a)
    BY <1>6, <1>15
  <2> HIDE DEF q
  <2>3. Quiet(h, q)
    BY <2>1, SendQGroupQuiet DEF Quiet
  <2> HIDE DEF h
  <2>4. Quiet(a, h)
    BY <2>3, MaliSourcesQuiet DEF Quiet
  <2> HIDE DEF a
  <2>5. Effect(r, c, "EXCLUDE_MODE", U, YA, TRUE)
    BY <1>8, <2>1, <2>2, <2>3, <2>4, QuietEffect, NotifyEffect
  <2>6. QED
    BY <1>7, <1>15, <2>5 DEF ExcludeTable, U, YA
<1>16. CASE type = "MODE_IS_EXCLUDE"
  <2> DEFINE q == mali_sources(only, g, NX)
             a == mali_filter(q, g)
  <2>1. Quiet(q, only)
    BY <1>11, MaliSourcesQuiet
  <2>2. r = Notify(a)
    BY <1>6, <1>16
  <2> HIDE DEF q
  <2>3. Quiet(a, q)
    BY <2>1, MaliFilterQuiet DEF Quiet
  <2> HIDE DEF a
  <2>4. Effect(r, c, "EXCLUDE_MODE", S, YC, TRUE)
    BY <1>10, <2>1, <2>2, <2>3, QuietEffect, NotifyEffect
  <2>5. QED
    BY <1>7, <1>16, <2>4 DEF ExcludeTable, S, YC
<1>17. QED
  BY <1>12, <1>13, <1>14, <1>15, <1>16 DEF RecordTypes

-----------------------------------------------------------------------------
(* r has the filter state st and the older hosts of c.  The routing has    *)
(* read r's membership, but after BLOCK it may have the view of c, and     *)
(* then the membership is the one of c too.                                *)
Outcome(r, c, type, st) ==
    /\ r \in Ctx
    /\ ShapeOf(r.info) = st
    /\ r.info.compatibility_mode_variable = c.info.compatibility_mode_variable
    /\ r.info.older_host_present_timer = c.info.older_host_present_timer
    /\ \/ r.view = MembershipOf(r.info)
       \/ /\ type = "BLOCK_OLD_SOURCES"
          /\ r.view = c.view /\ MembershipOf(r.info) = MembershipOf(c.info)

(* A group record that was notified.                                       *)
LEMMA ToldOutcome ==
    ASSUME NEW r, NEW c, NEW type, NEW m, NEW R, NEW E, Effect(r, c, m, R, E, TRUE)
    PROVE  Outcome(r, c, type, [mode |-> m, requested |-> R, excluded |-> E])
  BY DEF Effect, Outcome, HasShape, ShapeOf

(* A group record that was not: its membership has to be the old one.      *)
LEMMA UntoldOutcome ==
    ASSUME NEW r, NEW c, NEW type, type = "BLOCK_OLD_SOURCES",
           NEW m, NEW R, NEW E, Effect(r, c, m, R, E, FALSE),
           m = c.info.filter_mode,
           IF m = "INCLUDE_MODE" THEN R = Requested(c.info) ELSE E = c.info.exclude_list
    PROVE  Outcome(r, c, type, [mode |-> m, requested |-> R, excluded |-> E])
<1>1. MembershipOf(r.info) = MembershipOf(c.info)
  BY DEF Effect, HasShape, MembershipOf, is_under_backward_compatibility_effects
<1>2. QED
  BY <1>1 DEF Effect, Outcome, HasShape, ShapeOf

(* In INCLUDE mode a record takes the filter state where the table of RFC  *)
(* 3810 says.                                                              *)
LEMMA IncludeOutcome ==
    ASSUME FreeStamps # {}, NEW g \in Groups, NEW c \in Ctx,
           c.info.filter_mode = "INCLUDE_MODE", c.info.exclude_list = {},
           NEW type \in RecordTypes, NEW B \in SUBSET Sources,
           NEW r, r = receive_record_in_include_mode(c, g, type, B)
    PROVE  Outcome(r, c, type, RFC3810!NewState(ShapeOf(c.info), type, B))
<1> DEFINE A == Requested(c.info)
           U == A \cup B
           K == A \cap B
           N == B \ A
<1>1. IncludeTable(r, c, type, A, B)
  BY IncludeEffect
<1>2. ShapeOf(c.info).mode = "INCLUDE_MODE" /\ ShapeOf(c.info).requested = A
  BY DEF ShapeOf
<1>3. RFC3810!NewState(ShapeOf(c.info), type, B) =
        CASE type \in {"ALLOW_NEW_SOURCES", "MODE_IS_INCLUDE", "CHANGE_TO_INCLUDE_MODE"} ->
               [mode |-> "INCLUDE_MODE", requested |-> U, excluded |-> {}]
          [] type = "BLOCK_OLD_SOURCES" ->
               [mode |-> "INCLUDE_MODE", requested |-> A, excluded |-> {}]
          [] type \in {"CHANGE_TO_EXCLUDE_MODE", "MODE_IS_EXCLUDE"} ->
               [mode |-> "EXCLUDE_MODE", requested |-> K, excluded |-> N]
  BY <1>2 DEF RFC3810!NewState, RFC3810!NewIncludeState, RFC3810!Include, RFC3810!Exclude
<1> HIDE DEF A
<1>4. CASE type \in {"ALLOW_NEW_SOURCES", "MODE_IS_INCLUDE", "CHANGE_TO_INCLUDE_MODE"}
  <2>1. Effect(r, c, "INCLUDE_MODE", U, {}, TRUE)
    BY <1>1, <1>4 DEF IncludeTable
  <2> HIDE DEF U
  <2>2. Outcome(r, c, type, [mode |-> "INCLUDE_MODE", requested |-> U, excluded |-> {}])
    BY <2>1, ToldOutcome
  <2>3. RFC3810!NewState(ShapeOf(c.info), type, B)
         = [mode |-> "INCLUDE_MODE", requested |-> U, excluded |-> {}]
    BY <1>3, <1>4
  <2>4. QED
    BY <2>2, <2>3
<1>5. CASE type = "BLOCK_OLD_SOURCES"
  <2>1. Effect(r, c, "INCLUDE_MODE", A, {}, FALSE)
    BY <1>1, <1>5 DEF IncludeTable
  <2>2. A = Requested(c.info)
    BY DEF A
  <2>3. Outcome(r, c, type, [mode |-> "INCLUDE_MODE", requested |-> A, excluded |-> {}])
    BY <1>5, <2>1, <2>2, UntoldOutcome
  <2>4. RFC3810!NewState(ShapeOf(c.info), type, B)
         = [mode |-> "INCLUDE_MODE", requested |-> A, excluded |-> {}]
    BY <1>3, <1>5
  <2>5. QED
    BY <2>3, <2>4
<1>6. CASE type \in {"CHANGE_TO_EXCLUDE_MODE", "MODE_IS_EXCLUDE"}
  <2>1. Effect(r, c, "EXCLUDE_MODE", K, N, TRUE)
    BY <1>1, <1>6 DEF IncludeTable
  <2> HIDE DEF K, N
  <2>2. Outcome(r, c, type, [mode |-> "EXCLUDE_MODE", requested |-> K, excluded |-> N])
    BY <2>1, ToldOutcome
  <2>3. RFC3810!NewState(ShapeOf(c.info), type, B)
         = [mode |-> "EXCLUDE_MODE", requested |-> K, excluded |-> N]
    BY <1>3, <1>6
  <2>4. QED
    BY <2>2, <2>3
<1>7. QED
  BY <1>4, <1>5, <1>6 DEF RecordTypes

(* In EXCLUDE mode too.                                                    *)
LEMMA ExcludeOutcome ==
    ASSUME FreeStamps # {}, NEW g \in Groups, NEW c \in Ctx,
           c.info.filter_mode = "EXCLUDE_MODE",
           Requested(c.info) \cap c.info.exclude_list = {},
           NEW type \in RecordTypes, NEW A \in SUBSET Sources,
           NEW r, r = receive_record_in_exclude_mode(c, g, type, A)
    PROVE  Outcome(r, c, type, RFC3810!NewState(ShapeOf(c.info), type, A))
<1> DEFINE X == Requested(c.info)
           Y == c.info.exclude_list
           U == X \cup A
           V == X \cup (A \ Y)
           YA == Y \ A
           YC == Y \cap A
           S == A \ Y
<1>1. ExcludeTable(r, c, type, X, Y, A)
  BY ExcludeEffect
<1>2. /\ ShapeOf(c.info).mode = "EXCLUDE_MODE" /\ ShapeOf(c.info).requested = X
      /\ ShapeOf(c.info).excluded = Y
  BY DEF ShapeOf
<1>3. RFC3810!NewState(ShapeOf(c.info), type, A) =
        CASE type \in {"ALLOW_NEW_SOURCES", "MODE_IS_INCLUDE", "CHANGE_TO_INCLUDE_MODE"} ->
               [mode |-> "EXCLUDE_MODE", requested |-> U, excluded |-> YA]
          [] type = "BLOCK_OLD_SOURCES" ->
               [mode |-> "EXCLUDE_MODE", requested |-> V, excluded |-> Y]
          [] type \in {"CHANGE_TO_EXCLUDE_MODE", "MODE_IS_EXCLUDE"} ->
               [mode |-> "EXCLUDE_MODE", requested |-> S, excluded |-> YC]
  BY <1>2 DEF RFC3810!NewState, RFC3810!NewExcludeState, RFC3810!Include, RFC3810!Exclude
<1> HIDE DEF X
<1>4. CASE type \in {"ALLOW_NEW_SOURCES", "MODE_IS_INCLUDE", "CHANGE_TO_INCLUDE_MODE"}
  <2>1. Effect(r, c, "EXCLUDE_MODE", U, YA, TRUE)
    BY <1>1, <1>4 DEF ExcludeTable
  <2> HIDE DEF U, YA
  <2>2. Outcome(r, c, type, [mode |-> "EXCLUDE_MODE", requested |-> U, excluded |-> YA])
    BY <2>1, ToldOutcome
  <2>3. RFC3810!NewState(ShapeOf(c.info), type, A)
         = [mode |-> "EXCLUDE_MODE", requested |-> U, excluded |-> YA]
    BY <1>3, <1>4
  <2>4. QED
    BY <2>2, <2>3
<1>5. CASE type = "BLOCK_OLD_SOURCES"
  <2>1. Effect(r, c, "EXCLUDE_MODE", V, Y, FALSE)
    BY <1>1, <1>5 DEF ExcludeTable
  <2> HIDE DEF V
  <2>2. Outcome(r, c, type, [mode |-> "EXCLUDE_MODE", requested |-> V, excluded |-> Y])
    BY <1>5, <2>1, UntoldOutcome
  <2>3. RFC3810!NewState(ShapeOf(c.info), type, A)
         = [mode |-> "EXCLUDE_MODE", requested |-> V, excluded |-> Y]
    BY <1>3, <1>5
  <2>4. QED
    BY <2>2, <2>3
<1>6. CASE type \in {"CHANGE_TO_EXCLUDE_MODE", "MODE_IS_EXCLUDE"}
  <2>1. Effect(r, c, "EXCLUDE_MODE", S, YC, TRUE)
    BY <1>1, <1>6 DEF ExcludeTable
  <2> HIDE DEF S, YC
  <2>2. Outcome(r, c, type, [mode |-> "EXCLUDE_MODE", requested |-> S, excluded |-> YC])
    BY <2>1, ToldOutcome
  <2>3. RFC3810!NewState(ShapeOf(c.info), type, A)
         = [mode |-> "EXCLUDE_MODE", requested |-> S, excluded |-> YC]
    BY <1>3, <1>6
  <2>4. QED
    BY <2>2, <2>3
<1>7. QED
  BY <1>4, <1>5, <1>6 DEF RecordTypes

(* The source list that counts: an older host on the link empties the one  *)
(* of TO_EX and BLOCK.                                                     *)
TableList(info, type, S) ==
    IF /\ is_in_backward_compatibility_mode(info)
       /\ type \in {"CHANGE_TO_EXCLUDE_MODE", "BLOCK_OLD_SOURCES"}
    THEN {} ELSE S

(* A BLOCK without sources changes nothing.                                *)
LEMMA BlockNothing ==
    ASSUME NEW i, i.filter_mode \in FilterModes,
           i.filter_mode = "INCLUDE_MODE" => i.exclude_list = {}
    PROVE  RFC3810!NewState(ShapeOf(i), "BLOCK_OLD_SOURCES", {}) = ShapeOf(i)
<1> DEFINE X == Requested(i)
           Y == i.exclude_list
<1>1. X \cup ({} \ Y) = X
  OBVIOUS
<1>2. ShapeOf(i).mode = i.filter_mode /\ ShapeOf(i).requested = X /\ ShapeOf(i).excluded = Y
  BY DEF ShapeOf
<1>3. CASE i.filter_mode = "INCLUDE_MODE"
  <2>1. RFC3810!NewState(ShapeOf(i), "BLOCK_OLD_SOURCES", {})
          = [mode |-> "INCLUDE_MODE", requested |-> X, excluded |-> {}]
    BY <1>2, <1>3 DEF RFC3810!NewState, RFC3810!NewIncludeState, RFC3810!Include
  <2>2. QED
    BY <1>3, <2>1 DEF ShapeOf
<1>4. CASE i.filter_mode = "EXCLUDE_MODE"
  <2>1. RFC3810!NewState(ShapeOf(i), "BLOCK_OLD_SOURCES", {})
          = [mode |-> "EXCLUDE_MODE", requested |-> X, excluded |-> Y]
    BY <1>1, <1>2, <1>4 DEF RFC3810!NewState, RFC3810!NewExcludeState, RFC3810!Exclude
  <2>2. QED
    BY <1>4, <2>1 DEF ShapeOf
<1>5. QED
  BY <1>3, <1>4 DEF FilterModes

(* HandleRecord takes the filter state where the tables say, in            *)
(* compatibility mode with the list that counts.                           *)
LEMMA HandleRecordOutcome ==
    ASSUME FreeStamps # {}, NEW g \in Groups, NEW c \in Ctx, NEW P, GroupIn(c, g, P),
           NEW type \in RecordTypes, NEW S \in SUBSET Sources,
           NEW r, r = HandleRecord(c, g, type, S)
    PROVE  Outcome(r, c, type,
               RFC3810!NewState(ShapeOf(c.info), type, TableList(c.info, type, S)))
<1> DEFINE B == EffectiveList(c.info, type, S)
           T == TableList(c.info, type, S)
           old == is_in_backward_compatibility_mode(c.info)
<1>1. B \in SUBSET Sources
  BY DEF EffectiveList
<1>2. c.info.filter_mode \in FilterModes
  BY CtxInfo
<1>3. /\ c.info.filter_mode = "EXCLUDE_MODE" => Requested(c.info) \cap c.info.exclude_list = {}
      /\ c.info.filter_mode # "EXCLUDE_MODE" => c.info.exclude_list = {}
  BY DEF GroupIn, GroupOK, FilterPart
<1>4. CASE old /\ type = "BLOCK_OLD_SOURCES"
  <2>1. r = c
    BY <1>4 DEF HandleRecord
  <2>2. T = {}
    BY <1>4 DEF TableList
  <2>3. RFC3810!NewState(ShapeOf(c.info), type, T) = ShapeOf(c.info)
    <3>1. c.info.filter_mode = "INCLUDE_MODE" => c.info.exclude_list = {}
      BY <1>3
    <3>2. RFC3810!NewState(ShapeOf(c.info), "BLOCK_OLD_SOURCES", {}) = ShapeOf(c.info)
      BY <1>2, <3>1, BlockNothing
    <3>3. QED
      BY <1>4, <2>2, <3>2
  <2>4. Outcome(r, c, type, ShapeOf(c.info))
    BY <1>4, <2>1 DEF Outcome
  <2>5. QED
    BY <2>3, <2>4
<1>5. CASE ~ (old /\ type = "BLOCK_OLD_SOURCES")
  <2>1. T = B
    BY <1>5 DEF TableList, EffectiveList, RecordTypes
  <2>2. r = IF c.info.filter_mode = "INCLUDE_MODE"
            THEN receive_record_in_include_mode(c, g, type, B)
            ELSE receive_record_in_exclude_mode(c, g, type, B)
    BY <1>5 DEF HandleRecord
  <2> HIDE DEF B
  <2>3. Outcome(r, c, type, RFC3810!NewState(ShapeOf(c.info), type, B))
    <3>1. CASE c.info.filter_mode = "INCLUDE_MODE"
      BY <1>1, <1>3, <2>2, <3>1, IncludeOutcome
    <3>2. CASE c.info.filter_mode = "EXCLUDE_MODE"
      BY <1>1, <1>3, <2>2, <3>2, ExcludeOutcome
    <3>3. QED
      BY <1>2, <3>1, <3>2 DEF FilterModes
  <2>4. QED
    BY <2>1, <2>3
<1>6. QED
  BY <1>4, <1>5

(* Noting an older host leaves the filter state and the view alone; if it  *)
(* changes anything it starts the older host present timer.                *)
LEMMA NoteOlderHostEffect ==
    ASSUME FreeStamps # {}, NEW g \in Groups, NEW c \in Ctx, NEW v \in RecordVersions,
           NEW r, r = NoteOlderHost(c, g, v)
    PROVE  /\ r \in Ctx /\ ShapeOf(r.info) = ShapeOf(c.info) /\ r.view = c.view
           /\ r.info.older_host_present_timer # NoTimer \/ r = c
           /\ is_newest_version(v) => r = c
<1> DEFINE ohpt == NewTimer("OLDER_HOST_PRESENT_TIMER", g, OHPI)
           H == [c.info EXCEPT !.compatibility_mode_variable = v]
           I == [H EXCEPT !.older_host_present_timer = ohpt]
           U == c.started \cup {ohpt}
<1>1. ohpt \in Timer /\ ohpt # NoTimer
  BY NewTimerType DEF TimerTypes
<1>2. r = c \/ r = [c EXCEPT !.info = I, !.started = U]
  BY DEF NoteOlderHost
<1>3. is_newest_version(v) => r = c
  BY DEF NoteOlderHost
<1>4. CASE r = c
  BY <1>4
<1>5. CASE r = [c EXCEPT !.info = I, !.started = U]
  <2> HIDE DEF ohpt
  <2>1. v \in 1 .. NewestVersion
    BY VersionAssumption
  <2>2. c.info \in GaddrInfo /\ c.started \subseteq Timer
    BY DEF Ctx
  <2>3. H \in GaddrInfo /\ SameButOhpt(H, c.info)
    BY <2>1, <2>2 DEF GaddrInfo, SameButOhpt
  <2> HIDE DEF H
  <2>4. /\ I \in GaddrInfo /\ SameButOhpt(I, c.info)
        /\ I.older_host_present_timer = ohpt
    BY <1>1, <2>3 DEF GaddrInfo, SameButOhpt
  <2>5. U \subseteq Timer
    BY <1>1, <2>2
  <2> HIDE DEF I, U
  <2>6. r \in Ctx /\ r.info = I /\ r.view = c.view
    BY <1>5, <2>4, <2>5 DEF Ctx
  <2>7. ShapeOf(r.info) = ShapeOf(c.info)
    BY <2>4, <2>6 DEF ShapeOf, SameButOhpt, Requested
  <2>8. QED
    BY <1>1, <1>3, <2>4, <2>6, <2>7
<1>6. QED
  BY <1>2, <1>4, <1>5

-----------------------------------------------------------------------------
(* The steps.  A handler call replaces the record of one group by i, or    *)
(* erases a group that i leaves unused, and the routing then has the view  *)
(* v of this group.                                                        *)
Replaced(g, i, v) ==
    /\ i \in GaddrInfo
    /\ published' = [published EXCEPT ![g] = v]
    /\ \/ group_info' = Store(g, i)
       \/ group_info' = Erase(g) /\ ShapeOf(i) = ShapeOf(NeutralInfo)

(* What the routing was told is what the database says, or both are as     *)
(* they were.                                                              *)
Told(g, i, v) ==
    \/ v = MembershipOf(i)
    \/ v = published[g] /\ MembershipOf(i) = MembershipOf(Info(g))

(* The state of older hosts changes only with a running timer or for the   *)
(* newest version, and no timer starts without an older host.              *)
HostsOK(g, i) ==
    LET j == Info(g) IN
    /\ \/ is_newest_version(i.compatibility_mode_variable)
       \/ i.older_host_present_timer # NoTimer
       \/ /\ i.compatibility_mode_variable = j.compatibility_mode_variable
          /\ i.older_host_present_timer = j.older_host_present_timer
       \/ group_info' = Erase(g)
    /\ RecordVersions \subseteq {NewestVersion} /\ j.older_host_present_timer = NoTimer
       => i.older_host_present_timer = NoTimer

(* A group record in INCLUDE mode without sources.                         *)
Unused(i) == i.filter_mode = "INCLUDE_MODE" /\ Requested(i) = {}

(* An unused record is stored only where one was, or in the compatibility  *)
(* mode of an older querier version.                                       *)
UseOK(g, i) ==
    group_info' = Store(g, i) /\ Unused(i)
    => /\ Unused(Info(g))
       /\ \/ g \in DOMAIN group_info
          \/ ~ is_newest_version(Info(g).compatibility_mode_variable)

Changes(g, i, v) == Replaced(g, i, v) /\ Told(g, i, v) /\ HostsOK(g, i) /\ UseOK(g, i)

(* The filter state and the membership of a group without a record.        *)
LEMMA NeutralShape ==
    /\ ShapeOf(NeutralInfo) = [mode |-> "INCLUDE_MODE", requested |-> {}, excluded |-> {}]
    /\ MembershipOf(NeutralInfo) = NoMembership
    /\ NeutralInfo.older_host_present_timer = NoTimer
    /\ NeutralInfo.compatibility_mode_variable = QuerierVersion
<1>1. /\ NeutralInfo.filter_mode = "INCLUDE_MODE"
      /\ NeutralInfo.older_host_present_timer = NoTimer
      /\ NeutralInfo.compatibility_mode_variable = QuerierVersion
      /\ DOMAIN NeutralInfo.include_requested_list = {}
      /\ NeutralInfo.exclude_list = {}
  BY DEF NeutralInfo
<1>2. QED
  BY <1>1 DEF ShapeOf, MembershipOf, NoMembership, Requested,
              is_under_backward_compatibility_effects

(* A record whose filter state is the neutral one is unused.               *)
LEMMA UnusedShape ==
    ASSUME NEW i, i.exclude_list = {}
    PROVE  Unused(i) <=> ShapeOf(i) = ShapeOf(NeutralInfo)
  BY NeutralShape DEF Unused, ShapeOf

(* The records older hosts send are never BLOCK.                           *)
LEMMA OlderRecords ==
    ASSUME NEW v, NEW r \in Records(v), ~ is_newest_version(v)
    PROVE  r[1] # "BLOCK_OLD_SOURCES"
  BY DEF Records

(* A received record changes one group as the tables say.                  *)
LEMMA ReceiveRecordChanges ==
    ASSUME IInv, NEW g \in Groups, NEW v \in RecordVersions,
           NEW type \in RecordTypes, NEW S \in SUBSET Sources,
           is_newest_version(v) \/ type # "BLOCK_OLD_SOURCES",
           receive_record(g, v, type, S),
           NEW c0, c0 = NoteOlderHost(Context(g), g, v),
           NEW c, c = HandleRecord(c0, g, type, S)
    PROVE  /\ Changes(g, c.info, c.view)
           /\ ShapeOf(c.info) = RFC3810!NewState(ShapeOf(Info(g)), type,
                                                 TableList(c0.info, type, S))
<1> DEFINE k == Context(g)
           P == DOMAIN timing
           new == RFC3810!NewState(ShapeOf(c0.info), type, TableList(c0.info, type, S))
           old == is_in_backward_compatibility_mode(c0.info)
<1>1. /\ FreeStamps # {}
      /\ group_info' = IF ErasedByRecord(c0.info, c.info, type)
                       THEN Erase(g) ELSE Store(g, c.info)
      /\ Finish(c, g, {})
  BY DEF receive_record
<1>2. /\ k \in Ctx /\ GroupIn(k, g, P) /\ k.info = Info(g) /\ k.view = published[g]
  BY ContextOK DEF Context
<1>3. c0 = NoteOlderHost(k, g, v)
  OBVIOUS
<1> HIDE DEF k, P
<1>4. c0 \in Ctx /\ GroupIn(c0, g, P)
  BY <1>1, <1>2, <1>3, NoteOlderHostOK
<1>5. /\ ShapeOf(c0.info) = ShapeOf(k.info) /\ c0.view = k.view
      /\ c0.info.older_host_present_timer # NoTimer \/ c0 = k
      /\ is_newest_version(v) => c0 = k
  BY <1>1, <1>2, <1>3, NoteOlderHostEffect
<1>6. Outcome(c, c0, type, new)
  BY <1>1, <1>4, HandleRecordOutcome
<1>7. c \in Ctx /\ GroupIn(c, g, P)
  BY <1>1, <1>4, HandleRecordOK
<1>8. ShapeOf(c.info) = new
  BY <1>6 DEF Outcome
<1>9. published' = [published EXCEPT ![g] = c.view]
  BY <1>1 DEF Finish
<1>10. \A i \in {c.info, c0.info} : i.filter_mode = "INCLUDE_MODE" => i.exclude_list = {}
  BY <1>4, <1>7 DEF GroupIn, GroupOK, FilterPart
<1>11. Replaced(g, c.info, c.view)
  <2>1. ErasedByRecord(c0.info, c.info, type) => ShapeOf(c.info) = ShapeOf(NeutralInfo)
    BY <1>10, UnusedShape DEF ErasedByRecord, Unused
  <2>2. c.info \in GaddrInfo
    BY <1>7 DEF Ctx
  <2>3. QED
    BY <1>1, <1>9, <2>1, <2>2 DEF Replaced
<1>12. Told(g, c.info, c.view)
  <2>1. CASE c.view = MembershipOf(c.info)
    BY <2>1 DEF Told
  <2>2. CASE /\ type = "BLOCK_OLD_SOURCES"
             /\ c.view = c0.view /\ MembershipOf(c.info) = MembershipOf(c0.info)
    BY <1>2, <1>5, <2>2 DEF Told
  <2>3. QED
    BY <1>6, <2>1, <2>2 DEF Outcome
<1>13. HostsOK(g, c.info)
  <2>1. /\ c.info.compatibility_mode_variable = c0.info.compatibility_mode_variable
        /\ c.info.older_host_present_timer = c0.info.older_host_present_timer
    BY <1>6 DEF Outcome
  <2>2. RecordVersions \subseteq {NewestVersion} => c0 = k
    BY <1>5 DEF is_newest_version
  <2>3. QED
    BY <1>2, <1>5, <2>1, <2>2 DEF HostsOK
<1>14. UseOK(g, c.info)
  <2> SUFFICES ASSUME group_info' = Store(g, c.info), Unused(c.info)
               PROVE  /\ Unused(Info(g))
                      /\ \/ g \in DOMAIN group_info
                         \/ ~ is_newest_version(Info(g).compatibility_mode_variable)
    BY DEF UseOK
  <2>1. CASE old /\ type = "BLOCK_OLD_SOURCES"
    <3>1. c = c0
      BY <2>1 DEF HandleRecord
    <3>2. c0 = k
      BY <1>5, <2>1
    <3>3. QED
      BY <1>2, <2>1, <3>1, <3>2 DEF is_in_backward_compatibility_mode
  <2>2. CASE ~ (old /\ type = "BLOCK_OLD_SOURCES")
    <3>1. c0.info.filter_mode = "INCLUDE_MODE"
      <4>1. c0.info.filter_mode \in FilterModes
        BY <1>4, CtxInfo
      <4>2. ASSUME c0.info.filter_mode = "EXCLUDE_MODE" PROVE FALSE
        <5>1. ShapeOf(c0.info).mode = "EXCLUDE_MODE"
          BY <4>2 DEF ShapeOf
        <5>2. new.mode = "EXCLUDE_MODE"
          BY <5>1 DEF RFC3810!NewState, RFC3810!NewExcludeState, RFC3810!Exclude, RecordTypes
        <5>3. c.info.filter_mode = "EXCLUDE_MODE"
          BY <1>8, <5>2 DEF ShapeOf
        <5>4. QED
          BY <5>3 DEF Unused
      <4>3. QED
        BY <4>1, <4>2 DEF FilterModes
    <3>2. ErasedByRecord(c0.info, c.info, type)
      BY <2>2, <3>1 DEF ErasedByRecord, Unused
    <3>3. group_info' = Erase(g) /\ g \notin DOMAIN group_info'
      BY <1>1, <3>2 DEF Erase
    <3>4. g \in DOMAIN group_info'
      BY DEF Store
    <3>5. QED
      BY <3>3, <3>4
  <2>3. QED
    BY <2>1, <2>2
<1>15. QED
  BY <1>2, <1>5, <1>8, <1>11, <1>12, <1>13, <1>14 DEF Changes

(* The group of a due timer: its record, and its context.                  *)
LEMMA DueContext ==
    ASSUME IInv, NEW t \in DOMAIN timing, NEW g, g = t.gaddr
    PROVE  /\ g \in Groups /\ t \in Timer /\ t # NoTimer
           /\ Context(g) \in Ctx
           /\ Context(g).info = Info(g) /\ Context(g).view = published[g]
           /\ Info(g) \in GaddrInfo
           /\ Info(g).filter_mode = "INCLUDE_MODE" => Info(g).exclude_list = {}
<1>1. g \in Groups /\ t \in Timer /\ t # NoTimer
  BY TimerGroup DEF IInv
<1>2. /\ Context(g) \in Ctx /\ Context(g).info = Info(g)
      /\ GroupIn(Context(g), g, DOMAIN timing)
  BY <1>1, ContextOK
<1>3. Context(g).view = published[g]
  BY DEF Context
<1>4. Info(g).filter_mode = "INCLUDE_MODE" => Info(g).exclude_list = {}
  BY <1>2 DEF GroupIn, GroupOK, FilterPart
<1>5. QED
  BY <1>1, <1>2, <1>3, <1>4 DEF Ctx

(* Erasing a group and telling the routing that nothing is left.           *)
LEMMA ErasedChanges ==
    ASSUME NEW g, group_info' = Erase(g), published' = [published EXCEPT ![g] = NoMembership]
    PROVE  Changes(g, NeutralInfo, NoMembership)
<1>1. NeutralInfo \in GaddrInfo
  BY NeutralOK
<1>2. group_info' # Store(g, NeutralInfo)
  BY DEF Erase, Store
<1>3. QED
  BY <1>1, <1>2, NeutralShape DEF Changes, Replaced, Told, HostsOK, UseOK

(* Storing a record that differs in the filter state, or not even in that, *)
(* and notifying the routing.                                              *)
LEMMA StoredChanges ==
    ASSUME NEW g, g \in DOMAIN group_info, NEW c, Effect(c, Context(g), c.info.filter_mode,
               Requested(c.info), c.info.exclude_list, TRUE),
           Context(g).info = Info(g),
           Unused(c.info) => Unused(Info(g)),
           group_info' = Store(g, c.info), published' = [published EXCEPT ![g] = c.view]
    PROVE  Changes(g, c.info, c.view)
<1>1. c.info \in GaddrInfo
  BY DEF Effect, Ctx
<1>2. QED
  BY <1>1 DEF Effect, HasShape, Changes, Replaced, Told, HostsOK, UseOK

(* Storing a record after queries and timers.                              *)
LEMMA QuietChanges ==
    ASSUME NEW g, g \in DOMAIN group_info, NEW c, Quiet(c, Context(g)),
           Context(g).info = Info(g), Context(g).view = published[g],
           group_info' = Store(g, c.info), published' = [published EXCEPT ![g] = c.view]
    PROVE  Changes(g, c.info, c.view) /\ ShapeOf(c.info) = ShapeOf(Info(g))
<1>1. /\ ShapeOf(c.info) = ShapeOf(Info(g))
      /\ MembershipOf(c.info) = MembershipOf(Info(g))
  BY SameShapeMembership DEF Quiet
<1>2. c.info \in GaddrInfo
  BY DEF Quiet, Ctx
<1>3. c.view = published[g]
  BY DEF Quiet
<1>4. Unused(c.info) => Unused(Info(g))
  BY DEF Quiet, SameShape, Unused
<1>5. HostsOK(g, c.info)
  BY DEF Quiet, SameShape, HostsOK
<1>6. QED
  BY <1>1, <1>2, <1>3, <1>4, <1>5 DEF Changes, Replaced, Told, UseOK

(* The expiry of a filter timer ends EXCLUDE mode and drops the exclude    *)
(* list.                                                                   *)
LEMMA FilterTimerChanges ==
    ASSUME IInv, NEW t \in DOMAIN timing, timer_triggerd_filter_timer(t),
           NEW g, g = t.gaddr
    PROVE  /\ Info(g).filter_mode = "EXCLUDE_MODE"
           /\ \E i, v : /\ Changes(g, i, v)
                        /\ ShapeOf(i) = [mode |-> "INCLUDE_MODE",
                                         requested |-> Requested(Info(g)), excluded |-> {}]
<1> DEFINE c == Context(g)
           L == c.info.include_requested_list
           l == SetLists(c, L, {})
           m == SetMode(l, "INCLUDE_MODE")
           I == [m.info EXCEPT !.shared_filter_timer = NoTimer]
           e == [m EXCEPT !.info.shared_filter_timer = NoTimer]
           n == Notify(e)
           z == [c EXCEPT !.view = NoMembership]
           R == Requested(Info(g))
<1>1. /\ g \in Groups /\ c \in Ctx /\ c.info = Info(g) /\ c.view = published[g]
  BY DueContext
<1>2. /\ g \in DOMAIN group_info
      /\ Info(g).filter_mode = "EXCLUDE_MODE"
      /\ \/ /\ Requested(c.info) = {}
            /\ group_info' = Erase(g) /\ Finish(z, g, {t})
         \/ /\ Requested(c.info) # {}
            /\ group_info' = Store(g, e.info) /\ Finish(n, g, {t})
  BY DEF timer_triggerd_filter_timer, Info
<1>3. CASE /\ Requested(c.info) = {}
           /\ group_info' = Erase(g) /\ Finish(z, g, {t})
  <2>1. z.view = NoMembership
    BY <1>1 DEF Ctx
  <2>2. Changes(g, NeutralInfo, NoMembership)
    BY <1>3, <2>1, ErasedChanges DEF Finish
  <2>3. ShapeOf(NeutralInfo) = [mode |-> "INCLUDE_MODE", requested |-> R, excluded |-> {}]
    BY <1>1, <1>3, NeutralShape
  <2>4. QED
    BY <1>2, <2>2, <2>3
<1>4. CASE /\ Requested(c.info) # {}
           /\ group_info' = Store(g, e.info) /\ Finish(n, g, {t})
  <2>1. L \in SourceList /\ {} \in SUBSET Sources
    BY <1>1, CtxInfo
  <2>2. DOMAIN L = R
    BY <1>1 DEF Requested
  <2> HIDE DEF c
  <2>3. /\ l \in Ctx /\ l.view = c.view
        /\ HasShape(l.info, c.info.filter_mode, DOMAIN L, {}, c.info)
    BY <1>1, <2>1, SetListsShape
  <2> HIDE DEF l
  <2>4. /\ m \in Ctx /\ m.view = l.view
        /\ HasShape(m.info, "INCLUDE_MODE", Requested(l.info), l.info.exclude_list, l.info)
    BY <2>3, SetModeShape DEF FilterModes
  <2> HIDE DEF m
  <2>5. I \in GaddrInfo /\ SameButFilterTimer(I, m.info)
    BY <2>4, CtxInfo DEF GaddrInfo, SameButFilterTimer
  <2>6. e = [m EXCEPT !.info = I]
    OBVIOUS
  <2> HIDE DEF I, e
  <2>7. e \in Ctx /\ e.info = I /\ e.view = m.view
    BY <2>4, <2>5, <2>6 DEF Ctx
  <2>8. Effect(e, c, "INCLUDE_MODE", R, {}, FALSE)
    BY <2>2, <2>3, <2>4, <2>5, <2>7 DEF Effect, HasShape, SameButFilterTimer, Requested
  <2>9. Effect(n, c, "INCLUDE_MODE", R, {}, TRUE)
    BY <2>8, NotifyEffect
  <2>10. n.info = e.info
    BY <2>7, NotifyLemma
  <2> HIDE DEF n
  <2>11. ShapeOf(n.info) = [mode |-> "INCLUDE_MODE", requested |-> R, excluded |-> {}]
    BY <2>9 DEF Effect, HasShape, ShapeOf
  <2>12. /\ Effect(n, c, n.info.filter_mode, Requested(n.info), n.info.exclude_list, TRUE)
         /\ ~ Unused(n.info)
    BY <1>1, <1>4, <2>9 DEF Effect, HasShape, Unused
  <2>13. published' = [published EXCEPT ![g] = n.view]
    BY <1>4 DEF Finish
  <2>14. Changes(g, n.info, n.view)
    BY <1>1, <1>2, <1>4, <2>10, <2>12, <2>13, StoredChanges DEF c
  <2>15. QED
    BY <1>2, <2>11, <2>14
<1>5. QED
  BY <1>2, <1>3, <1>4

(* The sources of a list that share a timer.                               *)
SharedBy(L, t) == {s \in DOMAIN L : L[s].shared_source_timer = t}

(* The filter state j stands for without the sources in X.                 *)
ExpiredShape(j, X) ==
    IF j.filter_mode = "INCLUDE_MODE"
    THEN [mode |-> "INCLUDE_MODE", requested |-> Requested(j) \ X, excluded |-> {}]
    ELSE [mode |-> "EXCLUDE_MODE", requested |-> Requested(j) \ X,
          excluded |-> j.exclude_list \cup X]

(* The expiry of a source timer removes the sources that share it from the *)
(* requested list, and in EXCLUDE mode adds them to the exclude list.      *)
LEMMA SourceTimerChanges ==
    ASSUME IInv, NEW t \in DOMAIN timing, timer_triggerd_source_timer(t),
           NEW g, g = t.gaddr,
           NEW L, L = Info(g).include_requested_list,
           NEW X, X = SharedBy(L, t)
    PROVE  /\ g \in DOMAIN group_info
           /\ \E i, v : Changes(g, i, v) /\ ShapeOf(i) = ExpiredShape(Info(g), X)
<1> DEFINE c == Context(g)
           D == DOMAIN L \ X
           K == Times(L, D)
           Y == c.info.exclude_list
           YX == Y \cup X
           a == SetLists(c, K, Y)
           b == SetLists(c, K, YX)
           na == Notify(a)
           nb == Notify(b)
           z == [c EXCEPT !.view = NoMembership]
           R == Requested(Info(g)) \ X
<1>1. /\ g \in Groups /\ c \in Ctx /\ c.info = Info(g) /\ c.view = published[g]
      /\ Info(g).filter_mode = "INCLUDE_MODE" => Y = {}
  BY DueContext
<1>2. /\ g \in DOMAIN group_info
      /\ \/ /\ c.info.filter_mode = "INCLUDE_MODE" /\ DOMAIN K = {}
            /\ group_info' = Erase(g) /\ Finish(z, g, {t})
         \/ /\ c.info.filter_mode = "INCLUDE_MODE" /\ DOMAIN K # {}
            /\ group_info' = Store(g, a.info) /\ Finish(na, g, {t})
         \/ /\ c.info.filter_mode = "EXCLUDE_MODE"
            /\ group_info' = Store(g, b.info) /\ Finish(nb, g, {t})
  BY <1>1 DEF timer_triggerd_source_timer, SharedBy
<1>3. L \in SourceList /\ Y \in SUBSET Sources /\ YX \in SUBSET Sources
  BY <1>1, CtxInfo DEF SharedBy
<1>4. K \in SourceList /\ DOMAIN K = R
  <2>1. K \in SourceList /\ DOMAIN K = DOMAIN L \cap D
    BY <1>3, TimesLemma
  <2>2. QED
    BY <2>1 DEF Requested
<1> HIDE DEF c, K, Y, YX
<1>5. CASE /\ c.info.filter_mode = "INCLUDE_MODE" /\ DOMAIN K = {}
           /\ group_info' = Erase(g) /\ Finish(z, g, {t})
  <2>1. z.view = NoMembership
    BY <1>1 DEF Ctx
  <2>2. Changes(g, NeutralInfo, NoMembership)
    BY <1>5, <2>1, ErasedChanges DEF Finish
  <2>3. ShapeOf(NeutralInfo) = [mode |-> "INCLUDE_MODE", requested |-> R, excluded |-> {}]
    BY <1>4, <1>5, NeutralShape
  <2>4. QED
    BY <1>1, <1>2, <1>5, <2>2, <2>3 DEF ExpiredShape
<1>6. CASE /\ c.info.filter_mode = "INCLUDE_MODE" /\ DOMAIN K # {}
           /\ group_info' = Store(g, a.info) /\ Finish(na, g, {t})
  <2>1. /\ a \in Ctx /\ a.view = c.view
        /\ HasShape(a.info, c.info.filter_mode, DOMAIN K, Y, c.info)
    BY <1>1, <1>3, <1>4, SetListsShape
  <2>2. Y = {}
    BY <1>1, <1>6
  <2>3. Effect(a, c, "INCLUDE_MODE", R, {}, FALSE)
    BY <1>4, <1>6, <2>1, <2>2 DEF Effect, HasShape
  <2> HIDE DEF a
  <2>4. Effect(na, c, "INCLUDE_MODE", R, {}, TRUE)
    BY <2>3, NotifyEffect
  <2>5. na.info = a.info
    BY <2>1, NotifyLemma
  <2> HIDE DEF na
  <2>6. ShapeOf(na.info) = [mode |-> "INCLUDE_MODE", requested |-> R, excluded |-> {}]
    BY <2>4 DEF Effect, HasShape, ShapeOf
  <2>7. /\ Effect(na, c, na.info.filter_mode, Requested(na.info), na.info.exclude_list, TRUE)
        /\ ~ Unused(na.info)
    BY <1>4, <1>6, <2>4 DEF Effect, HasShape, Unused
  <2>8. published' = [published EXCEPT ![g] = na.view]
    BY <1>6 DEF Finish
  <2>9. Changes(g, na.info, na.view)
    BY <1>1, <1>2, <1>6, <2>5, <2>7, <2>8, StoredChanges DEF c
  <2>10. QED
    BY <1>1, <1>2, <1>6, <2>6, <2>9 DEF ExpiredShape
<1>7. CASE /\ c.info.filter_mode = "EXCLUDE_MODE"
           /\ group_info' = Store(g, b.info) /\ Finish(nb, g, {t})
  <2>1. /\ b \in Ctx /\ b.view = c.view
        /\ HasShape(b.info, c.info.filter_mode, DOMAIN K, YX, c.info)
    BY <1>1, <1>3, <1>4, SetListsShape
  <2>2. Effect(b, c, "EXCLUDE_MODE", R, YX, FALSE)
    BY <1>4, <1>7, <2>1 DEF Effect, HasShape
  <2> HIDE DEF b
  <2>3. Effect(nb, c, "EXCLUDE_MODE", R, YX, TRUE)
    BY <2>2, NotifyEffect
  <2>4. nb.info = b.info
    BY <2>1, NotifyLemma
  <2> HIDE DEF nb
  <2>5. ShapeOf(nb.info) = [mode |-> "EXCLUDE_MODE", requested |-> R, excluded |-> YX]
    BY <2>3 DEF Effect, HasShape, ShapeOf
  <2>6. /\ Effect(nb, c, nb.info.filter_mode, Requested(nb.info), nb.info.exclude_list, TRUE)
        /\ ~ Unused(nb.info)
    BY <2>3 DEF Effect, HasShape, Unused
  <2>7. published' = [published EXCEPT ![g] = nb.view]
    BY <1>7 DEF Finish
  <2>8. Changes(g, nb.info, nb.view)
    BY <1>1, <1>2, <1>7, <2>4, <2>6, <2>7, StoredChanges DEF c
  <2>9. YX = Info(g).exclude_list \cup X
    BY <1>1 DEF YX, Y
  <2>10. QED
    BY <1>1, <1>2, <1>7, <2>5, <2>8, <2>9 DEF ExpiredShape
<1>8. QED
  BY <1>2, <1>5, <1>6, <1>7

(* A step that changes no filter state.                                    *)
Silent(g) == \E i, v : Changes(g, i, v) /\ ShapeOf(i) = ShapeOf(Info(g))

(* A group retransmission changes no filter state.                         *)
LEMMA RetGroupTimerChanges ==
    ASSUME IInv, NEW t \in DOMAIN timing, timer_triggerd_ret_group_timer(t),
           NEW g, g = t.gaddr
    PROVE  Silent(g)
<1> DEFINE c == Context(g)
           r == send_Q_group(c, g)
<1>1. /\ g \in Groups /\ c \in Ctx /\ c.info = Info(g) /\ c.view = published[g]
  BY DueContext
<1>2. /\ FreeStamps # {} /\ g \in DOMAIN group_info
      /\ group_info' = Store(g, r.info) /\ published' = [published EXCEPT ![g] = r.view]
  BY DEF timer_triggerd_ret_group_timer, Finish
<1> HIDE DEF c
<1>3. Quiet(r, c)
  BY <1>1, <1>2, SendQGroupQuiet
<1> HIDE DEF r
<1>4. Changes(g, r.info, r.view) /\ ShapeOf(r.info) = ShapeOf(Info(g))
  BY <1>1, <1>2, <1>3, QuietChanges DEF c
<1>5. QED
  BY <1>4 DEF Silent

(* Nor does a source retransmission.                                       *)
LEMMA RetSourceTimerChanges ==
    ASSUME IInv, NEW t \in DOMAIN timing, timer_triggerd_ret_source_timer(t),
           NEW g, g = t.gaddr
    PROVE  Silent(g)
<1> DEFINE c == Context(g)
           r == send_Q_sources(c, g, {}, TRUE)
<1>1. /\ g \in Groups /\ c \in Ctx /\ c.info = Info(g) /\ c.view = published[g]
  BY DueContext
<1>2. /\ FreeStamps # {} /\ g \in DOMAIN group_info
      /\ group_info' = Store(g, r.info) /\ published' = [published EXCEPT ![g] = r.view]
  BY DEF timer_triggerd_ret_source_timer, Finish
<1> HIDE DEF c
<1>3. PICK b \in BOOLEAN : b = TRUE
  OBVIOUS
<1>4. r = send_Q_sources(c, g, {}, b)
  BY <1>3
<1> HIDE DEF r
<1>5. Quiet(r, c)
  BY <1>1, <1>2, <1>4, SendQSourcesQuiet
<1>6. Changes(g, r.info, r.view) /\ ShapeOf(r.info) = ShapeOf(Info(g))
  BY <1>1, <1>2, <1>5, QuietChanges DEF c
<1>7. QED
  BY <1>6 DEF Silent

(* Nor does an older host present timer: a group on its way back to the    *)
(* newest version stays under the effects, and the routing is told when    *)
(* they end.                                                               *)
LEMMA OlderHostTimerChanges ==
    ASSUME IInv, NEW t \in DOMAIN timing, timer_triggerd_older_host_present_timer(t),
           NEW g, g = t.gaddr
    PROVE  Silent(g)
<1> DEFINE c == Context(g)
           v == c.info.compatibility_mode_variable
           d == IF is_newest_version(v + 1) THEN MALI ELSE OHPI
           ohpt == NewTimer("OLDER_HOST_PRESENT_TIMER", g, d)
           I == [c.info EXCEPT !.older_host_present_timer = NoTimer]
           o == [c EXCEPT !.info.older_host_present_timer = NoTimer]
           m == Notify(o)
           H == [c.info EXCEPT !.compatibility_mode_variable = v + 1]
           J == [H EXCEPT !.older_host_present_timer = ohpt]
           n == [c EXCEPT !.info = J, !.started = {ohpt}]
<1>1. /\ g \in Groups /\ c \in Ctx /\ c.info = Info(g) /\ c.view = published[g]
      /\ t # NoTimer
  BY DueContext
<1>2. /\ FreeStamps # {} /\ g \in DOMAIN group_info
      /\ t = group_info[g].older_host_present_timer
      /\ \/ /\ is_newest_version(v)
            /\ group_info' = Store(g, o.info) /\ Finish(m, g, {t})
         \/ /\ ~ is_newest_version(v)
            /\ group_info' = Store(g, n.info) /\ Finish(n, g, {t})
  BY DEF timer_triggerd_older_host_present_timer
<1>3. Info(g).older_host_present_timer # NoTimer
  BY <1>1, <1>2 DEF Info
<1>4. c.info \in GaddrInfo /\ v \in 1 .. NewestVersion
  BY <1>1, CtxInfo DEF GaddrInfo
<1>5. ohpt \in Timer /\ ohpt # NoTimer
  <2>1. d \in {LLQI, LLQT, MALI, OHPI}
    OBVIOUS
  <2> HIDE DEF d
  <2>2. QED
    BY <1>1, <1>2, <2>1, NewTimerType DEF TimerTypes
<1> HIDE DEF c, ohpt
<1>6. CASE /\ is_newest_version(v)
           /\ group_info' = Store(g, o.info) /\ Finish(m, g, {t})
  <2>1. /\ I \in GaddrInfo /\ SameButOhpt(I, c.info)
        /\ I.compatibility_mode_variable = v
    BY <1>4 DEF GaddrInfo, SameButOhpt
  <2>2. o = [c EXCEPT !.info = I]
    OBVIOUS
  <2> HIDE DEF I, o
  <2>3. o \in Ctx /\ o.info = I
    BY <1>1, <2>1, <2>2 DEF Ctx
  <2>4. m \in Ctx /\ m.info = o.info /\ m.view = MembershipOf(m.info)
    BY <2>3, NotifyTells
  <2> HIDE DEF m
  <2>5. ShapeOf(m.info) = ShapeOf(Info(g)) /\ (Unused(m.info) => Unused(Info(g)))
    BY <1>1, <2>1, <2>3, <2>4 DEF ShapeOf, Unused, Requested, SameButOhpt
  <2>6. HostsOK(g, m.info)
    BY <1>3, <1>6, <2>1, <2>3, <2>4 DEF HostsOK
  <2>7. Replaced(g, m.info, m.view)
    BY <1>6, <2>1, <2>3, <2>4 DEF Replaced, Finish
  <2>8. Changes(g, m.info, m.view)
    BY <1>2, <2>4, <2>5, <2>6, <2>7 DEF Changes, Told, UseOK
  <2>9. QED
    BY <2>5, <2>8 DEF Silent
<1>7. CASE /\ ~ is_newest_version(v)
           /\ group_info' = Store(g, n.info) /\ Finish(n, g, {t})
  <2>1. v + 1 \in 1 .. NewestVersion
    BY <1>4, <1>7, VersionAssumption DEF is_newest_version
  <2>2. H \in GaddrInfo /\ SameButOhpt(H, c.info)
    BY <1>4, <2>1 DEF GaddrInfo, SameButOhpt
  <2> HIDE DEF H
  <2>3. /\ J \in GaddrInfo /\ SameButOhpt(J, c.info)
        /\ J.older_host_present_timer = ohpt
    BY <1>5, <2>2 DEF GaddrInfo, SameButOhpt
  <2> HIDE DEF J
  <2>4. n \in Ctx /\ n.info = J /\ n.view = c.view
    BY <1>1, <1>5, <2>3 DEF Ctx
  <2> HIDE DEF n
  <2>5. ShapeOf(n.info) = ShapeOf(Info(g)) /\ (Unused(n.info) => Unused(Info(g)))
    BY <1>1, <2>3, <2>4 DEF ShapeOf, Unused, Requested, SameButOhpt
  <2>6. HostsOK(g, n.info)
    BY <1>3, <1>5, <2>3, <2>4 DEF HostsOK
  <2>7. Replaced(g, n.info, n.view)
    BY <1>7, <2>3, <2>4 DEF Replaced, Finish
  <2>8. Told(g, n.info, n.view)
    BY <1>1, <1>3, <1>5, <2>3, <2>4
       DEF Told, MembershipOf, is_under_backward_compatibility_effects
  <2>9. Changes(g, n.info, n.view)
    BY <1>2, <2>5, <2>6, <2>7, <2>8 DEF Changes, UseOK
  <2>10. QED
    BY <2>5, <2>9 DEF Silent
<1>8. QED
  BY <1>2, <1>6, <1>7

-----------------------------------------------------------------------------
(* The state of the abstract specification.                                *)
AbstractState == [g \in Groups |-> FilterStateOf(g)]

(* The group records after a step that changes one group.                  *)
LEMMA InfoAfter ==
    ASSUME NEW g, NEW i, NEW v, Changes(g, i, v)
    PROVE  /\ \A h : h # g => Info(h)' = Info(h)
           /\ \/ group_info' = Store(g, i) /\ Info(g)' = i
              \/ /\ group_info' = Erase(g) /\ Info(g)' = NeutralInfo
                 /\ ShapeOf(i) = ShapeOf(NeutralInfo)
<1>1. CASE group_info' = Store(g, i)
  <2>1. /\ DOMAIN group_info' = DOMAIN group_info \cup {g}
        /\ group_info'[g] = i
        /\ \A h \in DOMAIN group_info : h # g => group_info'[h] = group_info[h]
    BY <1>1 DEF Store
  <2>2. NeutralInfo' = NeutralInfo
    BY DEF NeutralInfo, NewSource
  <2>3. QED
    BY <1>1, <2>1, <2>2 DEF Info
<1>2. CASE group_info' = Erase(g) /\ ShapeOf(i) = ShapeOf(NeutralInfo)
  <2>1. /\ DOMAIN group_info' = DOMAIN group_info \ {g}
        /\ \A h \in DOMAIN group_info : h # g => group_info'[h] = group_info[h]
    BY <1>2 DEF Erase
  <2>2. NeutralInfo' = NeutralInfo
    BY DEF NeutralInfo, NewSource
  <2>3. QED
    BY <1>2, <2>1, <2>2 DEF Info
<1>3. QED
  BY <1>1, <1>2 DEF Changes, Replaced

(* The abstract state after it.                                            *)
LEMMA AbstractAfter ==
    ASSUME NEW g \in Groups, NEW i, NEW v, Changes(g, i, v)
    PROVE  /\ AbstractState' = [AbstractState EXCEPT ![g] = ShapeOf(i)]
           /\ AbstractState[g] = ShapeOf(Info(g))
<1>1. \A h \in Groups : FilterStateOf(h) = ShapeOf(Info(h))
  BY DEF FilterStateOf, ShapeOf
<1>2. \A h \in Groups : FilterStateOf(h)' = ShapeOf(Info(h)')
  BY DEF FilterStateOf, ShapeOf
<1>3. /\ \A h : h # g => Info(h)' = Info(h)
      /\ ShapeOf(Info(g)') = ShapeOf(i)
  BY InfoAfter
<1>4. \A h \in Groups : FilterStateOf(h)' = IF h = g THEN ShapeOf(i) ELSE FilterStateOf(h)
  BY <1>1, <1>2, <1>3
<1>5. AbstractState' = [h \in Groups |-> FilterStateOf(h)']
  BY DEF AbstractState
<1>6. QED
  BY <1>1, <1>4, <1>5 DEF AbstractState

(* A received record is the report of the abstract specification.          *)
LEMMA ReportStep ==
    ASSUME IInv, NEW g \in Groups, NEW v \in RecordVersions,
           NEW type \in RecordTypes, NEW S \in SUBSET Sources,
           is_newest_version(v) \/ type # "BLOCK_OLD_SOURCES",
           receive_record(g, v, type, S),
           NEW T, T = TableList(NoteOlderHost(Context(g), g, v).info, type, S)
    PROVE  RFC3810!Report(g, type, T) /\ T \in SUBSET Sources
<1> DEFINE c0 == NoteOlderHost(Context(g), g, v)
           c == HandleRecord(c0, g, type, S)
<1>1. /\ Changes(g, c.info, c.view)
      /\ ShapeOf(c.info) = RFC3810!NewState(ShapeOf(Info(g)), type, T)
  BY ReceiveRecordChanges
<1> HIDE DEF c
<1>2. /\ AbstractState' = [AbstractState EXCEPT ![g] = ShapeOf(c.info)]
      /\ AbstractState[g] = ShapeOf(Info(g))
  BY <1>1, AbstractAfter
<1>3. AbstractState' = [AbstractState EXCEPT ![g] =
                           RFC3810!NewState(AbstractState[g], type, T)]
  BY <1>1, <1>2
<1>4. T \in SUBSET Sources
  BY DEF TableList
<1>5. QED
  BY <1>3, <1>4 DEF RFC3810!Report, AbstractState

(* The expiry of a filter timer is the expiry of the abstract one.         *)
LEMMA FilterExpiresStep ==
    ASSUME IInv, NEW t \in DOMAIN timing, timer_triggerd_filter_timer(t)
    PROVE  RFC3810!FilterExpires(t.gaddr) /\ t.gaddr \in Groups
<1> DEFINE g == t.gaddr
           R == Requested(Info(g))
<1>1. g \in Groups
  BY DueContext
<1>2. Info(g).filter_mode = "EXCLUDE_MODE"
  BY FilterTimerChanges
<1>3. PICK i, v : /\ Changes(g, i, v)
                  /\ ShapeOf(i) = [mode |-> "INCLUDE_MODE", requested |-> R, excluded |-> {}]
  BY FilterTimerChanges
<1> HIDE DEF g
<1>4. /\ AbstractState' = [AbstractState EXCEPT ![g] = ShapeOf(i)]
      /\ AbstractState[g] = ShapeOf(Info(g))
  BY <1>1, <1>3, AbstractAfter
<1>5. AbstractState[g].mode = "EXCLUDE_MODE" /\ AbstractState[g].requested = R
  BY <1>2, <1>4 DEF ShapeOf
<1>6. ShapeOf(i) = RFC3810!Include(AbstractState[g].requested)
  BY <1>3, <1>5 DEF RFC3810!Include
<1>7. RFC3810!FilterExpires(g)
  BY <1>4, <1>5, <1>6 DEF RFC3810!FilterExpires, AbstractState
<1>8. QED
  BY <1>1, <1>7 DEF g

(* The expiry of a source timer is the expiry of the sources that share it *)
LEMMA SourcesExpireStep ==
    ASSUME IInv, NEW t \in DOMAIN timing, timer_triggerd_source_timer(t),
           NEW L, L = Info(t.gaddr).include_requested_list,
           NEW X, X = SharedBy(L, t)
    PROVE  RFC3810!SourcesExpire(t.gaddr, X) /\ t.gaddr \in Groups /\ X \in SUBSET Sources
<1> DEFINE g == t.gaddr
           R == Requested(Info(g))
           Y == Info(g).exclude_list
<1>1. g \in Groups /\ Info(g) \in GaddrInfo
  BY DueContext
<1>2. PICK i, v : Changes(g, i, v) /\ ShapeOf(i) = ExpiredShape(Info(g), X)
  BY SourceTimerChanges
<1>3. X \subseteq R
  BY DEF Requested, SharedBy
<1>4. X \in SUBSET Sources
  <2>1. L \in SourceList
    BY <1>1 DEF GaddrInfo
  <2>2. QED
    BY <2>1, SourceListElim DEF SharedBy
<1> HIDE DEF g, R, Y
<1>5. /\ AbstractState' = [AbstractState EXCEPT ![g] = ShapeOf(i)]
      /\ AbstractState[g] = ShapeOf(Info(g))
  BY <1>1, <1>2, AbstractAfter
<1>6. /\ AbstractState[g].mode = Info(g).filter_mode
      /\ AbstractState[g].requested = R /\ AbstractState[g].excluded = Y
  BY <1>5 DEF ShapeOf, R, Y
<1>7. ShapeOf(i) = IF AbstractState[g].mode = "INCLUDE_MODE"
                   THEN RFC3810!Include(AbstractState[g].requested \ X)
                   ELSE RFC3810!Exclude(AbstractState[g].requested \ X,
                                        AbstractState[g].excluded \cup X)
  BY <1>2, <1>6 DEF RFC3810!Include, RFC3810!Exclude, ExpiredShape, R, Y
<1>8. RFC3810!SourcesExpire(g, X)
  BY <1>3, <1>5, <1>6, <1>7 DEF RFC3810!SourcesExpire, AbstractState
<1>9. QED
  BY <1>1, <1>4, <1>8 DEF g

(* A step that changes no filter state leaves the abstract state alone.    *)
LEMMA SilentStep ==
    ASSUME NEW g \in Groups, Silent(g)
    PROVE  UNCHANGED AbstractState
<1>1. PICK i, v : Changes(g, i, v) /\ ShapeOf(i) = ShapeOf(Info(g))
  BY DEF Silent
<1>2. /\ AbstractState' = [AbstractState EXCEPT ![g] = ShapeOf(i)]
      /\ AbstractState[g] = ShapeOf(Info(g))
  BY <1>1, AbstractAfter
<1>3. QED
  BY <1>1, <1>2 DEF AbstractState

(* The state the abstract specification talks about is AbstractState.      *)
LEMMA RefinementStep ==
    ASSUME IInv, [Next]_vars
    PROVE  RFC3810!Next \/ UNCHANGED AbstractState
<1>1. CASE ReceiveRecord
  <2>1. PICK g \in Groups, v \in RecordVersions :
           \E r \in Records(v) : receive_record(g, v, r[1], r[2])
    BY <1>1 DEF ReceiveRecord
  <2>2. PICK r \in Records(v) : receive_record(g, v, r[1], r[2])
    BY <2>1
  <2> DEFINE type == r[1]
             S == r[2]
             T == TableList(NoteOlderHost(Context(g), g, v).info, type, S)
  <2>3. type \in RecordTypes /\ S \in SUBSET Sources
    BY RecordsType
  <2>4. is_newest_version(v) \/ type # "BLOCK_OLD_SOURCES"
    BY OlderRecords
  <2>5. receive_record(g, v, type, S)
    BY <2>2
  <2> HIDE DEF type, S
  <2>6. RFC3810!Report(g, type, T) /\ T \in SUBSET Sources
    BY <2>3, <2>4, <2>5, ReportStep
  <2> HIDE DEF T
  <2>7. type \in RFC3810!RecordTypes
    BY <2>3 DEF RecordTypes, RFC3810!RecordTypes
  <2>8. QED
    BY <2>6, <2>7 DEF RFC3810!Next
<1>2. CASE TimerTriggered
  <2>1. PICK t \in DOMAIN timing : timer_triggerd(t)
    BY <1>2 DEF TimerTriggered
  <2> DEFINE g == t.gaddr
             L == Info(g).include_requested_list
             X == SharedBy(L, t)
  <2>2. g \in Groups
    BY DueContext
  <2>3. CASE OutdatedTimer(t)
    BY <2>3 DEF OutdatedTimer, AbstractState, FilterStateOf, Info
  <2>4. CASE timer_triggerd_filter_timer(t)
    BY <2>4, FilterExpiresStep DEF RFC3810!Next
  <2>5. CASE timer_triggerd_source_timer(t)
    <3>1. RFC3810!SourcesExpire(g, X) /\ X \in SUBSET Sources
      BY <2>5, SourcesExpireStep
    <3> HIDE DEF X, g
    <3>2. QED
      BY <2>2, <3>1 DEF RFC3810!Next
  <2>6. CASE timer_triggerd_ret_group_timer(t)
    BY <2>2, <2>6, RetGroupTimerChanges, SilentStep
  <2>7. CASE timer_triggerd_ret_source_timer(t)
    BY <2>2, <2>7, RetSourceTimerChanges, SilentStep
  <2>8. CASE timer_triggerd_older_host_present_timer(t)
    BY <2>2, <2>8, OlderHostTimerChanges, SilentStep
  <2>9. QED
    BY <2>1, <2>3, <2>4, <2>5, <2>6, <2>7, <2>8 DEF timer_triggerd
<1>3. CASE Tick \/ UNCHANGED vars
  BY <1>3 DEF Tick, vars, AbstractState, FilterStateOf, Info
<1>4. QED
  BY <1>1, <1>2, <1>3 DEF Next

(* The querier implements the router filter state of RFC 3810: whatever    *)
(* records arrive in whatever order from hosts of whatever versions, and   *)
(* however late the timers are delivered, the filter mode and the lists of *)
(* every group change only by a row of the tables or by an expiry.         *)
THEOREM Refinement == Spec => ImplementsFilterState
<1>1. Init => RFC3810!Init
  <2> SUFFICES ASSUME Init PROVE RFC3810!Init
    OBVIOUS
  <2>1. \A g \in Groups : Info(g) = NeutralInfo
    BY DEF Init, Info
  <2>2. \A g \in Groups : FilterStateOf(g) = RFC3810!Include({})
    BY <2>1, NeutralShape DEF FilterStateOf, ShapeOf, RFC3810!Include
  <2>3. QED
    BY <2>2 DEF RFC3810!Init
<1>2. IInv /\ [Next]_vars => [RFC3810!Next]_([g \in Groups |-> FilterStateOf(g)])
  BY RefinementStep DEF AbstractState
<1>3. QED
  BY <1>1, <1>2, Invariance, PTL DEF Spec, ImplementsFilterState, RFC3810!Spec

(* Every record changes the lists and the mode as its own row of the       *)
(* tables says, a filter timer ends EXCLUDE mode, and a source timer       *)
(* expires exactly the sources that share it.                              *)
THEOREM TablesFollowed == Spec => StepsFollowTables
<1>1. IInv => StepFollowsTables
  <2> SUFFICES ASSUME IInv PROVE StepFollowsTables
    OBVIOUS
  <2>1. ASSUME NEW g \in Groups, NEW v \in RecordVersions, NEW r \in Records(v),
               receive_record(g, v, r[1], r[2])
        PROVE  RFC3810!Report(g, r[1],
                  TableList(NoteOlderHost(Context(g), g, v).info, r[1], r[2]))
    <3> DEFINE type == r[1]
               S == r[2]
               T == TableList(NoteOlderHost(Context(g), g, v).info, type, S)
    <3>1. type \in RecordTypes /\ S \in SUBSET Sources
      BY RecordsType
    <3>2. is_newest_version(v) \/ type # "BLOCK_OLD_SOURCES"
      BY OlderRecords
    <3>3. receive_record(g, v, type, S)
      BY <2>1
    <3> HIDE DEF type, S
    <3>4. RFC3810!Report(g, type, T)
      BY <3>1, <3>2, <3>3, ReportStep
    <3>5. QED
      BY <3>4 DEF type, S
  <2>2. ASSUME NEW t \in DOMAIN timing, timer_triggerd_filter_timer(t)
        PROVE  RFC3810!FilterExpires(t.gaddr)
    BY <2>2, FilterExpiresStep
  <2>3. ASSUME NEW t \in DOMAIN timing, timer_triggerd_source_timer(t)
        PROVE  RFC3810!SourcesExpire(t.gaddr,
                  SharedBy(Info(t.gaddr).include_requested_list, t))
    BY <2>3, SourcesExpireStep
  <2>4. QED
    BY <2>1, <2>2, <2>3 DEF StepFollowsTables, TableList, SharedBy
<1>2. QED
  BY <1>1, Invariance, PTL DEF StepsFollowTables

-----------------------------------------------------------------------------
(* What a step does to the database and the views, whichever it is.        *)
SomeGroupChanges == \E g \in Groups : \E i, v : Changes(g, i, v)

(* Every step changes one group or none.                                   *)
LEMMA StepChanges ==
    ASSUME IInv, [Next]_vars
    PROVE  SomeGroupChanges \/ UNCHANGED <<group_info, published>>
<1>1. CASE ReceiveRecord
  <2>1. PICK g \in Groups, v \in RecordVersions :
           \E r \in Records(v) : receive_record(g, v, r[1], r[2])
    BY <1>1 DEF ReceiveRecord
  <2>2. PICK r \in Records(v) : receive_record(g, v, r[1], r[2])
    BY <2>1
  <2> DEFINE type == r[1]
             S == r[2]
             c0 == NoteOlderHost(Context(g), g, v)
             c == HandleRecord(c0, g, type, S)
  <2>3. type \in RecordTypes /\ S \in SUBSET Sources
    BY RecordsType
  <2>4. is_newest_version(v) \/ type # "BLOCK_OLD_SOURCES"
    BY OlderRecords
  <2>5. receive_record(g, v, type, S)
    BY <2>2
  <2> HIDE DEF type, S
  <2>6. Changes(g, c.info, c.view)
    BY <2>3, <2>4, <2>5, ReceiveRecordChanges
  <2>7. QED
    BY <2>6 DEF SomeGroupChanges
<1>2. CASE TimerTriggered
  <2>1. PICK t \in DOMAIN timing : timer_triggerd(t)
    BY <1>2 DEF TimerTriggered
  <2> DEFINE g == t.gaddr
             L == Info(g).include_requested_list
             X == SharedBy(L, t)
  <2>2. g \in Groups
    BY DueContext
  <2>3. CASE OutdatedTimer(t)
    BY <2>3 DEF OutdatedTimer
  <2>4. CASE timer_triggerd_filter_timer(t)
    <3>1. \E i, v : Changes(g, i, v)
      BY <2>4, FilterTimerChanges
    <3>2. QED
      BY <2>2, <3>1 DEF SomeGroupChanges
  <2>5. CASE timer_triggerd_source_timer(t)
    <3>1. \E i, v : Changes(g, i, v) /\ ShapeOf(i) = ExpiredShape(Info(g), X)
      BY <2>5, SourceTimerChanges
    <3>2. QED
      BY <2>2, <3>1 DEF SomeGroupChanges
  <2>6. CASE \/ timer_triggerd_ret_group_timer(t)
             \/ timer_triggerd_ret_source_timer(t)
             \/ timer_triggerd_older_host_present_timer(t)
    <3>1. Silent(g)
      BY <2>6, RetGroupTimerChanges, RetSourceTimerChanges, OlderHostTimerChanges
    <3>2. QED
      BY <2>2, <3>1 DEF Silent, SomeGroupChanges
  <2>7. QED
    BY <2>1, <2>3, <2>4, <2>5, <2>6 DEF timer_triggerd
<1>3. CASE Tick \/ UNCHANGED vars
  BY <1>3 DEF Tick, vars
<1>4. QED
  BY <1>1, <1>2, <1>3 DEF Next

(* What the database asks for is the membership of the group's record.     *)
LEMMA MembershipOfInfo ==
    ASSUME NEW g
    PROVE  get_group_membership_infos(g) = MembershipOf(Info(g))
  BY NeutralShape DEF get_group_membership_infos, Info

(* Likewise after a step.                                                  *)
LEMMA MembershipOfInfoNext ==
    ASSUME NEW g
    PROVE  get_group_membership_infos(g)' = MembershipOf(Info(g)')
<1>1. NeutralInfo' = NeutralInfo /\ NoMembership' = NoMembership
  BY DEF NeutralInfo, NewSource, NoMembership
<1>2. CASE g \in DOMAIN group_info'
  BY <1>2 DEF get_group_membership_infos, Info, MembershipOf, Requested,
              is_under_backward_compatibility_effects
<1>3. CASE g \notin DOMAIN group_info'
  BY <1>1, <1>3, NeutralShape DEF get_group_membership_infos, Info
<1>4. QED
  BY <1>2, <1>3

(* No listener is cut off: whatever a group asks for, in the newest        *)
(* version or for an older host, the routing has been told to forward it,  *)
(* although older host steps and ignored records do not notify.            *)
THEOREM NobodyIsCutOff == Spec => []PublishedCoversCurrent
<1>1. Init => PublishedCoversCurrent
  <2> SUFFICES ASSUME Init, NEW g \in Groups
               PROVE  Accepted(get_group_membership_infos(g)) \subseteq Accepted(published[g])
    BY DEF PublishedCoversCurrent
  <2>1. get_group_membership_infos(g) = NoMembership /\ published[g] = NoMembership
    BY DEF Init, get_group_membership_infos
  <2>2. QED
    BY <2>1
<1>2. IInv /\ PublishedCoversCurrent /\ [Next]_vars => PublishedCoversCurrent'
  <2> SUFFICES ASSUME IInv, PublishedCoversCurrent, [Next]_vars
               PROVE  PublishedCoversCurrent'
    OBVIOUS
  <2>1. CASE UNCHANGED <<group_info, published>>
    BY <2>1 DEF PublishedCoversCurrent, get_group_membership_infos
  <2>2. CASE SomeGroupChanges
    <3>0. PICK g \in Groups : \E i, v : Changes(g, i, v)
      BY <2>2 DEF SomeGroupChanges
    <3>1. PICK i, v : Changes(g, i, v)
      BY <3>0
    <3>2. /\ \A h \in Groups : h # g => published'[h] = published[h]
          /\ published'[g] = v
      BY <3>1 DEF Changes, Replaced, IInv, TypeOK
    <3>3. ASSUME NEW h \in Groups
          PROVE  Accepted(MembershipOf(Info(h)')) \subseteq Accepted(published'[h])
      <4>1. Accepted(MembershipOf(Info(h))) \subseteq Accepted(published[h])
        BY MembershipOfInfo DEF PublishedCoversCurrent
      <4>2. CASE h # g
        BY <3>1, <3>2, <4>1, <4>2, InfoAfter
      <4>3. CASE h = g
        <5>1. CASE Info(g)' = i
          BY <3>1, <3>2, <4>1, <4>3, <5>1 DEF Changes, Told
        <5>2. CASE Info(g)' = NeutralInfo
          <6>1. Accepted(MembershipOf(NeutralInfo)) = {}
            BY NeutralShape DEF NoMembership, Accepted
          <6>2. QED
            BY <4>3, <5>2, <6>1
        <5>3. QED
          BY <3>1, <5>1, <5>2, InfoAfter
      <4>4. QED
        BY <4>2, <4>3
    <3>4. ASSUME NEW h \in Groups
          PROVE  (Accepted(get_group_membership_infos(h)) \subseteq Accepted(published[h]))'
      <4>1. get_group_membership_infos(h)' = MembershipOf(Info(h)')
        BY MembershipOfInfoNext
      <4>2. QED
        BY <3>3, <4>1 DEF Accepted
    <3>5. QED
      BY <3>4 DEF PublishedCoversCurrent
  <2>3. QED
    BY <2>1, <2>2, StepChanges
<1>3. QED
  BY <1>1, <1>2, Invariance, PTL DEF Spec

(* The records of a link without older hosts: no older host present timer, *)
(* and what the routing was told last is what the record says.             *)
NewestOnly ==
    \A g \in Groups : /\ Info(g).older_host_present_timer = NoTimer
                      /\ published[g] = MembershipOf(Info(g))

(* On a link without older hosts the routing always has the current        *)
(* membership of every group: every change has been notified, also when    *)
(* the group leaves the database.                                          *)
THEOREM PublishedFollows ==
    ASSUME RecordVersions \subseteq {NewestVersion}
    PROVE  Spec => []PublishedIsCurrent
<1>1. Init => NewestOnly
  <2> SUFFICES ASSUME Init, NEW g \in Groups
               PROVE  /\ Info(g).older_host_present_timer = NoTimer
                      /\ published[g] = MembershipOf(Info(g))
    BY DEF NewestOnly
  <2>1. Info(g) = NeutralInfo /\ published[g] = NoMembership
    BY DEF Init, Info
  <2>2. QED
    BY <2>1, NeutralShape
<1>2. IInv /\ NewestOnly /\ [Next]_vars => NewestOnly'
  <2> SUFFICES ASSUME IInv, NewestOnly, [Next]_vars
               PROVE  NewestOnly'
    OBVIOUS
  <2>1. CASE UNCHANGED <<group_info, published>>
    BY <2>1 DEF NewestOnly, Info
  <2>2. CASE SomeGroupChanges
    <3>0. PICK g \in Groups : \E i, v : Changes(g, i, v)
      BY <2>2 DEF SomeGroupChanges
    <3>1. PICK i, v : Changes(g, i, v)
      BY <3>0
    <3>2. /\ \A h \in Groups : h # g => published'[h] = published[h]
          /\ published'[g] = v
      BY <3>1 DEF Changes, Replaced, IInv, TypeOK
    <3>3. i.older_host_present_timer = NoTimer
      BY <3>1 DEF Changes, HostsOK, NewestOnly
    <3>4. v = MembershipOf(i)
      BY <3>1 DEF Changes, Told, NewestOnly
    <3>5. ASSUME NEW h \in Groups
          PROVE  /\ Info(h)'.older_host_present_timer = NoTimer
                 /\ published'[h] = MembershipOf(Info(h)')
      <4>1. CASE h # g
        BY <3>1, <3>2, <4>1, InfoAfter DEF NewestOnly
      <4>2. CASE h = g /\ Info(g)' = i
        BY <3>2, <3>3, <3>4, <4>2
      <4>3. CASE /\ h = g /\ Info(g)' = NeutralInfo
                 /\ ShapeOf(i) = ShapeOf(NeutralInfo)
        <5>1. i.filter_mode = "INCLUDE_MODE" /\ Requested(i) = {}
          BY <4>3, NeutralShape DEF ShapeOf
        <5>2. MembershipOf(i) = NoMembership
          BY <3>3, <5>1 DEF MembershipOf, NoMembership, is_under_backward_compatibility_effects
        <5>3. QED
          BY <3>2, <3>4, <4>3, <5>2, NeutralShape
      <4>4. QED
        BY <3>1, <4>1, <4>2, <4>3, InfoAfter
    <3>6. \A h \in Groups : /\ Info(h)'.older_host_present_timer = NoTimer
                            /\ published'[h] = MembershipOf(Info(h)')
      BY <3>5
    <3>7. QED
      BY <3>6 DEF NewestOnly, MembershipOf, Requested,
                  is_under_backward_compatibility_effects
  <2>3. QED
    BY <2>1, <2>2, StepChanges
<1>3. NewestOnly => PublishedIsCurrent
  BY MembershipOfInfo DEF NewestOnly, PublishedIsCurrent
<1>4. QED
  BY <1>1, <1>2, <1>3, Invariance, PTL DEF Spec

(* No group that nobody uses stays in the database of a querier that runs  *)
(* the newest version: records and expiries that leave a group unused      *)
(* delete it, and no other step leaves one.                                *)
THEOREM UnusedGroupsAreDeleted ==
    ASSUME QuerierVersion = NewestVersion
    PROVE  Spec => []NoUnusedGroup
<1> DEFINE Inv == \A g \in DOMAIN group_info : ~ Unused(Info(g))
<1>1. Init => Inv
  BY DEF Init
<1>2. IInv /\ Inv /\ [Next]_vars => Inv'
  <2> SUFFICES ASSUME IInv, Inv, [Next]_vars, NEW h \in DOMAIN group_info'
               PROVE  ~ Unused(Info(h)')
    BY DEF Unused, Requested
  <2>1. CASE UNCHANGED <<group_info, published>>
    BY <2>1 DEF Info
  <2>2. CASE SomeGroupChanges
    <3>0. PICK g \in Groups : \E i, v : Changes(g, i, v)
      BY <2>2 DEF SomeGroupChanges
    <3>1. PICK i, v : Changes(g, i, v)
      BY <3>0
    <3>2. CASE h # g
      <4>1. h \in DOMAIN group_info
        BY <3>1, <3>2 DEF Changes, Replaced, Store, Erase
      <4>2. QED
        BY <3>1, <3>2, <4>1, InfoAfter
    <3>3. CASE h = g
      <4>1. group_info' # Erase(g)
        BY <3>3 DEF Erase
      <4>2. group_info' = Store(g, i) /\ Info(g)' = i
        BY <3>1, <4>1, InfoAfter
      <4>3. ASSUME Unused(i) PROVE FALSE
        <5>1. /\ Unused(Info(g))
              /\ \/ g \in DOMAIN group_info
                 \/ ~ is_newest_version(Info(g).compatibility_mode_variable)
          BY <3>1, <4>2, <4>3 DEF Changes, UseOK
        <5>2. g \notin DOMAIN group_info
          BY <5>1
        <5>3. Info(g) = NeutralInfo
          BY <5>2 DEF Info
        <5>4. QED
          BY <5>1, <5>2, <5>3, NeutralShape DEF is_newest_version
      <4>4. QED
        BY <3>3, <4>2, <4>3
    <3>4. QED
      BY <3>2, <3>3
  <2>3. QED
    BY <2>1, <2>2, StepChanges
<1>3. Inv => NoUnusedGroup
  BY DEF NoUnusedGroup, Unused, Info
<1>4. QED
  BY <1>1, <1>2, <1>3, Invariance, PTL DEF Spec

(* A querier that runs the newest version always comes back to it: a group *)
(* in an older version's mode, or still under its effects, has a running   *)
(* older host present timer.                                               *)
THEOREM CompatibilityIsTemporary ==
    ASSUME QuerierVersion = NewestVersion
    PROVE  Spec => []CompatibilityEnds
<1> DEFINE Inv == \A g \in Groups : \/ is_newest_version(Info(g).compatibility_mode_variable)
                                    \/ Info(g).older_host_present_timer # NoTimer
<1>1. Init => Inv
  BY NeutralShape DEF Init, Info, is_newest_version
<1>2. IInv /\ Inv /\ [Next]_vars => Inv'
  <2> SUFFICES ASSUME IInv, Inv, [Next]_vars, NEW h \in Groups
               PROVE  \/ is_newest_version(Info(h)'.compatibility_mode_variable)
                      \/ Info(h)'.older_host_present_timer # NoTimer
    BY DEF is_newest_version
  <2>1. CASE UNCHANGED <<group_info, published>>
    BY <2>1 DEF Info
  <2>2. CASE SomeGroupChanges
    <3>0. PICK g \in Groups : \E i, v : Changes(g, i, v)
      BY <2>2 DEF SomeGroupChanges
    <3>1. PICK i, v : Changes(g, i, v)
      BY <3>0
    <3>2. CASE h # g
      BY <3>1, <3>2, InfoAfter
    <3>3. CASE h = g /\ group_info' = Erase(g) /\ Info(g)' = NeutralInfo
      BY <3>3, NeutralShape DEF is_newest_version
    <3>4. CASE h = g /\ group_info' = Store(g, i) /\ Info(g)' = i
      <4>1. group_info' # Erase(g)
        BY <3>4 DEF Erase, Store
      <4>2. QED
        BY <3>1, <3>4, <4>1 DEF Changes, HostsOK
    <3>5. QED
      BY <3>1, <3>2, <3>3, <3>4, InfoAfter
  <2>3. QED
    BY <2>1, <2>2, StepChanges
<1>3. IInv /\ Inv => CompatibilityEnds
  <2> SUFFICES ASSUME IInv, Inv, NEW g \in DOMAIN group_info,
                      \/ is_in_backward_compatibility_mode(group_info[g])
                      \/ is_under_backward_compatibility_effects(group_info[g])
               PROVE  Running(group_info[g].older_host_present_timer,
                              "OLDER_HOST_PRESENT_TIMER", g)
    BY DEF CompatibilityEnds
  <2>1. g \in Groups /\ Info(g) = group_info[g]
    BY DEF IInv, TypeOK, Info
  <2>2. group_info[g].older_host_present_timer # NoTimer
    BY <2>1 DEF is_in_backward_compatibility_mode, is_under_backward_compatibility_effects
  <2>3. Core(group_info[g], g, DOMAIN timing, {})
    BY DEF IInv, GroupsOK, GroupOK
  <2>4. QED
    BY <2>2, <2>3 DEF Core, RunIn, Running
<1>4. QED
  BY <1>1, <1>2, <1>3, Invariance, PTL DEF Spec

(***************************************************************************)
(* Races between the timers of a group.  A membership that is being        *)
(* queried is given up when its lowered filter or source timer expires,    *)
(* and the retransmission timer sends the queries in between: the querier  *)
(* relies on the retransmissions to be over first.  Both timers run in the *)
(* same queue, and each of them may be delivered up to MaxLate time units  *)
(* late.  The proof finds how late is still harmless.                      *)
(***************************************************************************)

(* The listening interval is not shorter than the last listener query      *)
(* time, and the delays of LLQC - 1 retransmissions in a row are less than *)
(* one query interval.                                                     *)
Punctual == MALI >= LLQT /\ LLQI > (LLQC - 1) * MaxLate

(* How long n more retransmissions can take after the next one is due.     *)
Lag(n) == (n - 1) * (LLQI + MaxLate) + MaxLate

(* Timer t outlasts the n retransmissions that timer u goes on with.       *)
Ahead(tm, t, u, n) ==
    t \in DOMAIN tm /\ u \in DOMAIN tm /\ tm[t] > tm[u] + Lag(n)

(* The filter timer of the group record i outlasts the queries left, and   *)
(* so would one of LLQT started now.                                       *)
GroupPart(i, tm) ==
    LET n == i.group_retransmission_count IN
    n > 0 => /\ Ahead(tm, i.shared_filter_timer, i.group_retransmission_timer, n)
             /\ LLQT > tm[i.group_retransmission_timer] + Lag(n)

(* So does the source timer of each source in retransmission.              *)
SourcePart(i, tm) ==
    LET L == i.include_requested_list IN
    \A s \in DOMAIN L :
       L[s].retransmission_count > 0
       => Ahead(tm, L[s].shared_source_timer, i.source_retransmission_timer,
                L[s].retransmission_count)

Lasts(i, tm) == GroupPart(i, tm) /\ SourcePart(i, tm)

(* No timer is delivered later than MaxLate.                               *)
InTime == \A t \in DOMAIN timing : timing[t] >= - MaxLate

(* With this the invariant of the timers is inductive.                     *)
TimeInv == InTime /\ \A g \in DOMAIN group_info : Lasts(group_info[g], timing)

-----------------------------------------------------------------------------
(* How the bound grows with the number of retransmissions.                 *)
LEMMA LagFacts ==
    ASSUME NEW n \in Int
    PROVE  /\ Lag(n) \in Int
           /\ Lag(n) = Lag(n - 1) + LLQI + MaxLate
           /\ n >= 1 => Lag(n) >= MaxLate
<1> DEFINE k == LLQI + MaxLate
<1>1. k \in Nat /\ MaxLate \in Nat
  BY TimingAssumption
<1>2. Lag(n) = (n - 1) * k + MaxLate /\ Lag(n - 1) = ((n - 1) - 1) * k + MaxLate
  BY DEF Lag
<1>3. LLQI + MaxLate = k
  OBVIOUS
<1> HIDE DEF k
<1>4. (n - 1) * k \in Int /\ (n - 1) * k = ((n - 1) - 1) * k + k
  BY <1>1
<1>5. n >= 1 => (n - 1) * k >= 0
  BY <1>1
<1>6. ((n - 1) - 1) * k \in Int /\ LLQI \in Int
  BY <1>1, TimingAssumption
<1>7. QED
  BY <1>1, <1>2, <1>3, <1>4, <1>5, <1>6

(* A timer lowered to the last listener query time outlasts the            *)
(* retransmissions: this is what punctual timers are needed for.           *)
LEMMA LoweredLasts ==
    ASSUME Punctual, LLQC >= 1
    PROVE  LLQT > LLQI + Lag(LLQC - 1)
<1>1. LLQC \in Int /\ LLQI \in Int /\ MaxLate \in Int
  BY TimingAssumption
<1>2. Lag(LLQC - 1) = (LLQC - 2) * (LLQI + MaxLate) + MaxLate
  BY <1>1 DEF Lag
<1>3. (LLQC - 2) * (LLQI + MaxLate) = (LLQC - 2) * LLQI + (LLQC - 2) * MaxLate
  BY <1>1
<1>4. (LLQC - 2) * LLQI = LLQI * LLQC - LLQI - LLQI
  BY <1>1
<1>5. (LLQC - 2) * MaxLate + MaxLate = (LLQC - 1) * MaxLate
  BY <1>1
<1> DEFINE a == LLQI * LLQC
           b == (LLQC - 2) * MaxLate
           d == (LLQC - 1) * MaxLate
           e == (LLQC - 2) * LLQI
<1>6. a \in Int /\ b \in Int /\ d \in Int /\ e \in Int
  BY <1>1
<1>7. LLQI > d /\ LLQT = a
  BY DEF Punctual, LLQT
<1>8. Lag(LLQC - 1) = e + b + MaxLate /\ e = a - LLQI - LLQI /\ b + MaxLate = d
  BY <1>2, <1>3, <1>4, <1>5
<1> HIDE DEF a, b, d, e
<1>9. QED
  BY <1>1, <1>6, <1>7, <1>8

(* The numbers the timers are made of.                                     *)
LEMMA Delays ==
    /\ LLQI \in Nat /\ LLQC \in Nat /\ MALI \in Nat /\ OHPI \in Nat
    /\ LLQT \in Nat /\ MaxLate \in Nat
    /\ \A t \in Timer : t.delay \in Nat
<1>1. LLQI \in Nat /\ LLQC \in Nat /\ MALI \in Nat /\ OHPI \in Nat /\ MaxLate \in Nat
  BY TimingAssumption
<1>2. LLQT \in Nat
  BY <1>1 DEF LLQT
<1>3. QED
  BY <1>1, <1>2 DEF Timer
-----------------------------------------------------------------------------
(* What the timers would show after a handler call that has started the    *)
(* timers in T so far.                                                     *)
Clock(T) == Start({}, T)

(* The timers a handler call starts carry a stamp nobody else has.         *)
Fresh(T) == \A t \in T : t.stamp = NewStamp

(* The times um agree with tm on the timers of tm.                         *)
Continues(um, tm) ==
    \A t \in DOMAIN tm : t \in DOMAIN um /\ um[t] = tm[t]

(* The situation in which a handler call starts timers.                    *)
Now == FreeStamps # {} /\ TypeOK /\ InTime

(* The times in the middle of a handler call.                              *)
LEMMA ClockLemma ==
    ASSUME Now, NEW T, T \subseteq Timer
    PROVE  /\ DOMAIN Clock(T) = DOMAIN timing \cup T
           /\ \A t \in T : Clock(T)[t] = t.delay
           /\ \A t \in DOMAIN timing : t \notin T => Clock(T)[t] = timing[t]
           /\ \A t \in DOMAIN Clock(T) : Clock(T)[t] \in Int /\ Clock(T)[t] >= - MaxLate
<1>1. /\ DOMAIN Clock(T) = DOMAIN timing \cup T
      /\ \A t \in T : Clock(T)[t] = t.delay
      /\ \A t \in DOMAIN timing : t \notin T => Clock(T)[t] = timing[t]
  BY DEF Clock, Start
<1>2. \A t \in T : t.delay \in Nat
  BY Delays
<1>3. MaxLate \in Nat
  BY Delays
<1>4. \A t \in DOMAIN timing : timing[t] \in Int /\ timing[t] >= - MaxLate
  BY DEF Now, TypeOK, InTime
<1>5. ASSUME NEW t \in DOMAIN Clock(T)
      PROVE  Clock(T)[t] \in Int /\ Clock(T)[t] >= - MaxLate
  <2>1. CASE t \in T
    BY <1>1, <1>2, <1>3, <2>1
  <2>2. CASE t \notin T
    BY <1>1, <1>4, <2>2
  <2>3. QED
    BY <2>1, <2>2
<1>6. QED
  BY <1>1, <1>5

(* Starting more timers disturbs none of the running ones.                 *)
LEMMA ClockContinues ==
    ASSUME Now, NEW T, NEW U, T \subseteq U, U \subseteq Timer, Fresh(U)
    PROVE  Continues(Clock(U), Clock(T))
<1>1. \A t \in DOMAIN timing : t.stamp # NewStamp
  BY DEF Now, NewStamp, FreeStamps
<1>2. \A t \in DOMAIN timing : t \notin U
  BY <1>1 DEF Fresh
<1>3. T \subseteq Timer
  OBVIOUS
<1>4. QED
  BY <1>2, <1>3, ClockLemma DEF Continues

(* A timer that outlasts another one goes on doing so.                     *)
LEMMA AheadContinues ==
    ASSUME NEW tm, NEW um, Continues(um, tm), NEW t, NEW u, NEW n, Ahead(tm, t, u, n)
    PROVE  Ahead(um, t, u, n) /\ um[u] = tm[u]
  BY DEF Continues, Ahead

(* And so a group record stays in time when more timers are started.       *)
LEMMA LastsContinues ==
    ASSUME NEW tm, NEW um, Continues(um, tm), NEW i, Lasts(i, tm)
    PROVE  Lasts(i, um)
<1>1. GroupPart(i, um)
  BY AheadContinues DEF Lasts, GroupPart
<1>2. SourcePart(i, um)
  BY AheadContinues DEF Lasts, SourcePart
<1>3. QED
  BY <1>1, <1>2 DEF Lasts

(* A context in the middle of a handler call whose group record is in time.*)
Good(c) ==
    /\ c \in Ctx
    /\ Fresh(c.started)
    /\ Lasts(c.info, Clock(c.started))

(* A new timer is fresh.                                                   *)
LEMMA NewTimerFresh ==
    ASSUME NEW g, NEW type, NEW d
    PROVE  NewTimer(type, g, d).stamp = NewStamp /\ NewTimer(type, g, d).delay = d
  BY DEF NewTimer

-----------------------------------------------------------------------------
(* The operations of a handler call.                                       *)

(* What an operation adds: it keeps the started timers and starts new ones.*)
Adds(r, c) == r \in Ctx /\ c.started \subseteq r.started /\ Fresh(r.started)

(* What was in time before the operation is so after it.                   *)
LEMMA AddsKeeps ==
    ASSUME Now, NEW c, Good(c), NEW r, Adds(r, c)
    PROVE  /\ Continues(Clock(r.started), Clock(c.started))
           /\ Lasts(c.info, Clock(r.started))
<1>1. r.started \subseteq Timer
  BY DEF Adds, Ctx
<1>2. Continues(Clock(r.started), Clock(c.started))
  BY <1>1, ClockContinues DEF Adds
<1>3. QED
  BY <1>2, LastsContinues DEF Good

(* mali for the filter timer: the listening interval is long enough.       *)
LEMMA MaliFilterGood ==
    ASSUME Now, Punctual, NEW g \in Groups, NEW c, Good(c),
           NEW r, r = mali_filter(c, g)
    PROVE  Good(r)
<1> DEFINE ft == NewTimer("FILTER_TIMER", g, MALI)
           um == Clock(r.started)
           n == c.info.group_retransmission_count
           u == c.info.group_retransmission_timer
<1>1. c \in Ctx /\ c.info \in GaddrInfo /\ FreeStamps # {}
  BY CtxInfo DEF Good, Now
<1>2. /\ r \in Ctx
      /\ r.info = [c.info EXCEPT !.shared_filter_timer = ft]
      /\ r.started = c.started \cup {ft}
  BY <1>1, MaliFilterLemma
<1>3. ft.stamp = NewStamp /\ ft.delay = MALI
  BY NewTimerFresh
<1>4. SameButFilterTimer(r.info, c.info) /\ r.info.shared_filter_timer = ft
  BY <1>1, <1>2 DEF GaddrInfo, SameButFilterTimer
<1> HIDE DEF ft
<1>5. Adds(r, c)
  BY <1>2, <1>3 DEF Adds, Good, Fresh
<1>6. Lasts(c.info, um)
  BY <1>5, AddsKeeps
<1>7. um[ft] = MALI /\ ft \in DOMAIN um
  <2>1. r.started \subseteq Timer /\ ft \in r.started
    BY <1>2 DEF Ctx
  <2>2. QED
    BY <1>3, <2>1, ClockLemma
<1> HIDE DEF um
<1>8. n > 0 => Ahead(um, ft, u, n) /\ LLQT > um[u] + Lag(n)
  <2>1. SUFFICES ASSUME n > 0 PROVE Ahead(um, ft, u, n) /\ LLQT > um[u] + Lag(n)
    OBVIOUS
  <2>2. u \in DOMAIN um /\ LLQT > um[u] + Lag(n)
    BY <1>6, <2>1 DEF Lasts, GroupPart, Ahead
  <2>3. um[u] \in Int /\ Lag(n) \in Int /\ LLQT \in Int /\ MALI \in Int
    <3>1. n \in Int
      BY <1>1 DEF GaddrInfo
    <3>2. r.started \subseteq Timer
      BY <1>2 DEF Ctx
    <3>3. um[u] \in Int
      BY <2>2, <3>2, ClockLemma DEF um
    <3>4. QED
      BY <3>1, <3>3, LagFacts, Delays
  <2>4. MALI > um[u] + Lag(n)
    BY <2>2, <2>3 DEF Punctual
  <2>5. QED
    BY <1>7, <2>2, <2>4 DEF Ahead
<1>9. GroupPart(r.info, um)
  BY <1>4, <1>8 DEF GroupPart, SameButFilterTimer
<1>10. SourcePart(r.info, um)
  BY <1>4, <1>6 DEF Lasts, SourcePart, SameButFilterTimer
<1>11. QED
  BY <1>2, <1>5, <1>9, <1>10 DEF Good, Lasts, Adds, um

(* mali for sources takes them out of the retransmission.                  *)
LEMMA MaliSourcesGood ==
    ASSUME Now, NEW g \in Groups, NEW c, Good(c), NEW S,
           NEW r, r = mali_sources(c, g, S)
    PROVE  Good(r)
<1> DEFINE st == NewTimer("SOURCE_TIMER", g, MALI)
           L == c.info.include_requested_list
           N == r.info.include_requested_list
           um == Clock(r.started)
<1>1. c \in Ctx /\ c.info \in GaddrInfo /\ FreeStamps # {}
  BY CtxInfo DEF Good, Now
<1>2. st.stamp = NewStamp
  BY NewTimerFresh
<1>3. r.started \subseteq c.started \cup {st}
  BY <1>1 DEF mali_sources, Ctx
<1> HIDE DEF st
<1>4. /\ r \in Ctx
      /\ SameButSources(r.info, c.info)
      /\ r.info.source_retransmission_timer = c.info.source_retransmission_timer
      /\ DOMAIN N = DOMAIN L
      /\ \A s \in DOMAIN L :
            IF s \in S THEN /\ N[s].shared_source_timer = st
                            /\ N[s].retransmission_count = -1
                       ELSE N[s] = L[s]
      /\ c.started \subseteq r.started
  BY <1>1, MaliSourcesLemma DEF st
<1>5. Adds(r, c)
  BY <1>2, <1>3, <1>4 DEF Adds, Good, Fresh
<1>6. Lasts(c.info, um)
  BY <1>5, AddsKeeps
<1> HIDE DEF um
<1>7. GroupPart(r.info, um)
  BY <1>4, <1>6 DEF Lasts, GroupPart, SameButSources
<1>8. SourcePart(r.info, um)
  BY <1>4, <1>6 DEF Lasts, SourcePart
<1>9. QED
  BY <1>5, <1>7, <1>8 DEF Good, Lasts, Adds, um

(* Assigning lists whose sources in retransmission were there before.      *)
LEMMA SetListsGood ==
    ASSUME NEW c, Good(c), NEW M \in SourceList, NEW E \in SUBSET Sources,
           \A s \in DOMAIN M :
              M[s].retransmission_count > 0
              => /\ s \in DOMAIN c.info.include_requested_list
                 /\ M[s] = c.info.include_requested_list[s],
           NEW r, r = SetLists(c, M, E)
    PROVE  Good(r)
<1>1. /\ r \in Ctx
      /\ SameButLists(r.info, c.info)
      /\ r.info.include_requested_list = M
      /\ r.started = c.started
  BY SetListsLemma DEF Good
<1> DEFINE um == Clock(c.started)
<1>2. Lasts(c.info, um)
  BY DEF Good
<1> HIDE DEF um
<1>3. GroupPart(r.info, um)
  BY <1>1, <1>2 DEF Lasts, GroupPart, SameButLists
<1>4. SourcePart(r.info, um)
  BY <1>1, <1>2 DEF Lasts, SourcePart, SameButLists
<1>5. QED
  BY <1>1, <1>3, <1>4 DEF Good, Lasts, um

(* Assigning the filter mode.                                              *)
LEMMA SetModeGood ==
    ASSUME NEW c, Good(c), NEW m \in FilterModes, NEW r, r = SetMode(c, m)
    PROVE  Good(r)
<1>1. /\ r \in Ctx
      /\ r.info.include_requested_list = c.info.include_requested_list
      /\ r.info.group_retransmission_timer = c.info.group_retransmission_timer
      /\ r.info.group_retransmission_count = c.info.group_retransmission_count
      /\ r.info.source_retransmission_timer = c.info.source_retransmission_timer
      /\ r.info.shared_filter_timer = c.info.shared_filter_timer
      /\ r.started = c.started
  BY SetModeLemma DEF Good
<1>2. QED
  BY <1>1 DEF Good, Lasts, GroupPart, SourcePart

(* Notifying the routing.                                                  *)
LEMMA NotifyGood ==
    ASSUME NEW c, Good(c), NEW r, r = Notify(c)
    PROVE  Good(r)
  BY NotifyLemma DEF Good
(* The queries send_Q has left for a group, and the timers it starts.      *)
LEMMA SendQGroupCounts ==
    ASSUME FreeStamps # {}, NEW g \in Groups, NEW c \in Ctx,
           NEW r, r = send_Q_group(c, g),
           NEW ft, ft = NewTimer("FILTER_TIMER", g, LLQT),
           NEW rt, rt = NewTimer("RET_GROUP_TIMER", g, LLQI)
    PROVE  /\ r.started \subseteq c.started \cup {ft, rt}
           /\ r.info.group_retransmission_count > 0
              => r.info.group_retransmission_count + 1
                    = IF c.info.group_retransmission_timer = NoTimer
                      THEN LLQC ELSE c.info.group_retransmission_count
<1> DEFINE i     == c.info
           begin == i.group_retransmission_timer = NoTimer
           f     == IF begin THEN ft ELSE i.shared_filter_timer
           count == IF begin THEN LLQC ELSE i.group_retransmission_count
           lower == IF begin THEN {f} ELSE {}
           again == IF count > 1 THEN {rt} ELSE {}
           rt2   == IF count > 1 THEN rt ELSE i.group_retransmission_timer
           flag  == is_remaining_time_greater_than(c, f, LLQT)
<1>1. ft \in Timer /\ rt \in Timer
  BY NewTimerType DEF TimerTypes
<1>2. c.info \in GaddrInfo
  BY DEF Ctx
<1>3. /\ f \in Timer \cup {NoTimer} /\ rt2 \in Timer \cup {NoTimer}
      /\ count \in -1 .. LLQC
      /\ lower \subseteq {ft} /\ again \subseteq {rt}
  BY <1>1, <1>2, TimingAssumption DEF GaddrInfo
<1>4. r = IF count > 0
          THEN [c EXCEPT !.info = [i EXCEPT
                             !.shared_filter_timer = f,
                             !.group_retransmission_count = count - 1,
                             !.group_retransmission_timer = rt2],
                         !.started = @ \cup lower \cup again,
                         !.sent = @ \cup {GroupQuery(g, flag)}]
          ELSE [c EXCEPT !.info = [i EXCEPT
                             !.shared_filter_timer = f,
                             !.group_retransmission_count = -1,
                             !.group_retransmission_timer = NoTimer],
                         !.started = @ \cup lower]
  BY DEF send_Q_group
<1>5. IF count > 0
      THEN r.info = SetGroup(i, f, count - 1, rt2)
      ELSE r.info = SetGroup(i, f, -1, NoTimer)
  BY <1>4 DEF SetGroup, Ctx
<1>6. r.started \subseteq c.started \cup lower \cup again
  BY <1>4 DEF Ctx
<1>7. r.started \subseteq c.started \cup {ft, rt}
  BY <1>3, <1>6
<1> HIDE DEF f, lower, again, rt2, flag
<1>8. r.info.group_retransmission_count = IF count > 0 THEN count - 1 ELSE -1
  <2> DEFINE n == count - 1
             z == -1
  <2>1. count > 0 => n \in -1 .. LLQC
    BY <1>3, TimingAssumption
  <2>2. z \in -1 .. LLQC
    BY TimingAssumption
  <2>3. IF count > 0 THEN r.info = SetGroup(i, f, n, rt2)
                     ELSE r.info = SetGroup(i, f, z, NoTimer)
    BY <1>5
  <2>i. /\ i \in GaddrInfo /\ f \in Timer \cup {NoTimer} /\ rt2 \in Timer \cup {NoTimer}
        /\ NoTimer \in Timer \cup {NoTimer}
    BY <1>2, <1>3
  <2> HIDE DEF n, z, count, i
  <2>4. r.info.group_retransmission_count = IF count > 0 THEN n ELSE z
    <3>1. CASE count > 0
      <4>1. n \in -1 .. LLQC /\ r.info = SetGroup(i, f, n, rt2)
        BY <2>1, <2>3, <3>1
      <4>2. /\ SetGroup(i, f, n, rt2) \in GaddrInfo
            /\ SameButGroup(SetGroup(i, f, n, rt2), i)
            /\ SetGroup(i, f, n, rt2).shared_filter_timer = f
            /\ SetGroup(i, f, n, rt2).group_retransmission_count = n
            /\ SetGroup(i, f, n, rt2).group_retransmission_timer = rt2
        BY <2>i, <4>1, SetGroupLemma
      <4>3. QED
        BY <3>1, <4>1, <4>2
    <3>2. CASE ~ (count > 0)
      <4>0. PICK x \in Timer \cup {NoTimer} : x = NoTimer
        OBVIOUS
      <4>1. r.info = SetGroup(i, f, z, x)
        BY <2>3, <3>2, <4>0
      <4>2. /\ SetGroup(i, f, z, x) \in GaddrInfo
            /\ SameButGroup(SetGroup(i, f, z, x), i)
            /\ SetGroup(i, f, z, x).shared_filter_timer = f
            /\ SetGroup(i, f, z, x).group_retransmission_count = z
            /\ SetGroup(i, f, z, x).group_retransmission_timer = x
        BY <2>i, <2>2, <4>0, SetGroupLemma
      <4>3. QED
        BY <3>2, <4>1, <4>2
    <3>3. QED
      BY <3>1, <3>2
  <2>5. QED
    BY <2>4 DEF n, z
<1>9. r.info.group_retransmission_count > 0
      => r.info.group_retransmission_count + 1 = count
  BY <1>3, <1>8, TimingAssumption
<1>10. QED
  BY <1>7, <1>9

(* The lag of the transmissions left after one more: the next one is due   *)
(* an interval from now, and this one was at most MaxLate late.            *)
LEMMA OneLess ==
    ASSUME NEW n \in Int, NEW m \in Int, m + 1 = n, NEW x \in Int, NEW u \in Int,
           u >= - MaxLate, x > u + Lag(n)
    PROVE  x > LLQI + Lag(m)
<1>1. Lag(n) = Lag(m) + LLQI + MaxLate /\ Lag(n) \in Int /\ Lag(m) \in Int
  <2>1. n - 1 = m
    OBVIOUS
  <2>2. QED
    BY <2>1, LagFacts
<1>2. QED
  BY <1>1, Delays

(* send_Q for a group: the first query lowers the filter timer to the last *)
(* listener query time, the later ones have used up one retransmission.    *)
LEMMA SendQGroupGood ==
    ASSUME Now, Punctual, NEW g \in Groups, NEW c, Good(c),
           NEW r, r = send_Q_group(c, g)
    PROVE  Good(r)
<1> DEFINE ft == NewTimer("FILTER_TIMER", g, LLQT)
           rt == NewTimer("RET_GROUP_TIMER", g, LLQI)
           um == Clock(r.started)
           n == c.info.group_retransmission_count
           m == r.info.group_retransmission_count
           f == c.info.shared_filter_timer
           u == c.info.group_retransmission_timer
<1>1. c \in Ctx /\ c.info \in GaddrInfo /\ FreeStamps # {}
  BY CtxInfo DEF Good, Now
<1>2. ft.stamp = NewStamp /\ ft.delay = LLQT /\ rt.stamp = NewStamp /\ rt.delay = LLQI
  BY NewTimerFresh
<1>3. /\ r \in Ctx
      /\ SameButGroup(r.info, c.info)
      /\ IF u = NoTimer
         THEN r.info.shared_filter_timer = ft /\ ft \in r.started
         ELSE r.info.shared_filter_timer = f
      /\ m > 0 => r.info.group_retransmission_timer = rt /\ rt \in r.started
      /\ c.started \subseteq r.started
  BY <1>1, SendQGroupLemma
<1>4. /\ r.started \subseteq c.started \cup {ft, rt}
      /\ m > 0 => m + 1 = IF u = NoTimer THEN LLQC ELSE n
  BY <1>1, SendQGroupCounts
<1> HIDE DEF ft, rt
<1>5. Adds(r, c)
  BY <1>2, <1>3, <1>4 DEF Adds, Good, Fresh
<1>6. Lasts(c.info, um)
  BY <1>5, AddsKeeps
<1>7. /\ \A t \in r.started : t \in DOMAIN um /\ um[t] = t.delay
      /\ \A t \in DOMAIN um : um[t] \in Int /\ um[t] >= - MaxLate
  <2>1. r.started \subseteq Timer
    BY <1>3 DEF Ctx
  <2>2. QED
    BY <2>1, ClockLemma
<1>8. n \in Int /\ m \in Int
  BY <1>1, <1>3, CtxInfo DEF GaddrInfo
<1> HIDE DEF um, f, u, n, m
<1>9. m > 0 => /\ Ahead(um, r.info.shared_filter_timer, rt, m)
               /\ LLQT > um[rt] + Lag(m)
  <2>1. SUFFICES ASSUME m > 0 PROVE /\ Ahead(um, r.info.shared_filter_timer, rt, m)
                                    /\ LLQT > um[rt] + Lag(m)
    OBVIOUS
  <2>2. rt \in DOMAIN um /\ um[rt] = LLQI
    BY <1>2, <1>3, <1>7, <2>1
  <2>3. CASE u = NoTimer
    <3>1. m = LLQC - 1 /\ LLQC >= 1
      BY <1>4, <1>8, <2>1, <2>3, Delays
    <3>2. LLQT > LLQI + Lag(m)
      BY <3>1, LoweredLasts
    <3>3. /\ r.info.shared_filter_timer = ft
          /\ ft \in DOMAIN um /\ um[ft] = LLQT
      BY <1>2, <1>3, <1>7, <2>3
    <3>4. QED
      BY <2>2, <3>2, <3>3 DEF Ahead
  <2>4. CASE u # NoTimer
    <3>1. m + 1 = n /\ n > 0 /\ r.info.shared_filter_timer = f
      BY <1>3, <1>4, <1>8, <2>1, <2>4
    <3>2. /\ f \in DOMAIN um /\ u \in DOMAIN um
          /\ um[f] > um[u] + Lag(n) /\ LLQT > um[u] + Lag(n)
      BY <1>6, <3>1 DEF Lasts, GroupPart, Ahead, f, u, n
    <3>3. LLQT \in Int /\ um[f] \in Int /\ um[u] \in Int /\ um[u] >= - MaxLate
      BY <1>7, <3>2, Delays
    <3>4. um[f] > LLQI + Lag(m) /\ LLQT > LLQI + Lag(m)
      BY <1>8, <3>1, <3>2, <3>3, OneLess
    <3>5. QED
      BY <2>2, <3>1, <3>2, <3>4 DEF Ahead
  <2>5. QED
    BY <2>3, <2>4
<1>10. GroupPart(r.info, um)
  BY <1>3, <1>9 DEF GroupPart, m
<1>11. SourcePart(r.info, um)
  BY <1>3, <1>6 DEF Lasts, SourcePart, SameButGroup
<1>12. QED
  BY <1>5, <1>10, <1>11 DEF Good, Lasts, Adds, um
(* The transmissions send_Q has left for the sources, and the timers it    *)
(* starts: a source new in retransmission has had the first of LLQC, every *)
(* other one has had one more, or nothing has happened at all.             *)
LEMMA SendQSourcesCounts ==
    ASSUME FreeStamps # {}, NEW g \in Groups, NEW c \in Ctx, NEW S,
           NEW b \in BOOLEAN,
           NEW r, r = send_Q_sources(c, g, S, b),
           NEW st, st = NewTimer("SOURCE_TIMER", g, LLQT),
           NEW rst, rst = NewTimer("RET_SOURCE_TIMER", g, LLQI),
           NEW L, L = c.info.include_requested_list,
           NEW M, M = r.info.include_requested_list
    PROVE  /\ r.started \subseteq c.started \cup {st, rst}
           /\ \/ r = c
              \/ \A s \in DOMAIN L :
                   M[s].retransmission_count > 0
                   => M[s].retransmission_count + 1
                        = IF s \in S /\ L[s].retransmission_count < 1
                          THEN LLQC ELSE L[s].retransmission_count
<1> DEFINE Used == {s \in S \cap DOMAIN L : L[s].retransmission_count < 1}
           K    == [s \in DOMAIN L |->
                      IF s \in Used THEN [shared_source_timer |-> st,
                                          retransmission_count |-> LLQC]
                                    ELSE L[s]]
           T    == IF Used = {} THEN c.started ELSE c.started \cup {st}
           J    == [c.info EXCEPT !.include_requested_list = K]
           low  == [c EXCEPT !.info = J, !.started = T]
           out  == send_source_query(low, g)
           N    == out.info.include_requested_list
<1>1. st \in Timer /\ rst \in Timer
  BY NewTimerType DEF TimerTypes
<1>2. c.info \in GaddrInfo /\ c.started \subseteq Timer
  BY DEF Ctx
<1>3. L \in SourceList
  BY <1>2 DEF GaddrInfo
<1>4. DOMAIN L \subseteq Sources /\ \A s \in DOMAIN L : L[s] \in Source
  BY <1>3, SourceListElim
<1>5. K \in SourceList
  <2>1. [shared_source_timer |-> st, retransmission_count |-> LLQC] \in Source
    BY <1>1, TimingAssumption DEF Source
  <2>2. K \in [DOMAIN L -> Source]
    BY <1>4, <2>1
  <2>3. QED
    BY <1>4, <2>2, SourceListIntro
<1>6. T \subseteq Timer /\ T \subseteq c.started \cup {st}
  BY <1>1, <1>2
<1>7. /\ DOMAIN K = DOMAIN L
      /\ \A s \in DOMAIN L :
            K[s].retransmission_count = IF s \in S /\ L[s].retransmission_count < 1
                                        THEN LLQC ELSE L[s].retransmission_count
  OBVIOUS
<1>8. r = CASE Used = {} /\ ~ b -> c
            [] OTHER ->
                 IF \E s \in DOMAIN N : N[s].retransmission_count > 0
                 THEN [out EXCEPT !.info.source_retransmission_timer = rst,
                                  !.started = @ \cup {rst}]
                 ELSE out
  BY DEF send_Q_sources
<1>9. \A s \in DOMAIN L : K[s].retransmission_count \in Int
  BY <1>4, <1>7, TimingAssumption DEF Source
<1> HIDE DEF Used, K, T
<1>10. J \in GaddrInfo /\ J.include_requested_list = K
  BY <1>2, <1>5 DEF GaddrInfo
<1> HIDE DEF J
<1>11. low \in Ctx /\ low.info = J /\ low.started = T
  BY <1>6, <1>10 DEF Ctx
<1> HIDE DEF low
<1>12. /\ out \in Ctx
       /\ out.info = [J EXCEPT !.include_requested_list = N]
       /\ out.started = T
       /\ out.view = low.view
       /\ DOMAIN N = DOMAIN K
       /\ \A s \in DOMAIN K :
             /\ N[s].shared_source_timer = K[s].shared_source_timer
             /\ N[s].retransmission_count =
                   IF K[s].retransmission_count > 0
                   THEN K[s].retransmission_count - 1
                   ELSE K[s].retransmission_count
  BY <1>10, <1>11, SendSourceQueryLemma
<1> HIDE DEF out
<1>13. \A s \in DOMAIN L :
          N[s].retransmission_count > 0
          => N[s].retransmission_count + 1 = K[s].retransmission_count
  BY <1>7, <1>9, <1>12
<1>14. CASE Used = {} /\ ~ b
  <2>1. r = c
    BY <1>8, <1>14
  <2>2. QED
    BY <2>1
<1>15. CASE ~ (Used = {} /\ ~ b)
  <2>1. \/ r = out
        \/ r = [out EXCEPT !.info.source_retransmission_timer = rst,
                           !.started = @ \cup {rst}]
    BY <1>8, <1>15
  <2>2. M = N /\ r.started \subseteq T \cup {rst}
    <3>1. out \in Ctx /\ out.info \in GaddrInfo /\ out.started = T
      BY <1>12, CtxInfo
    <3>2. CASE r = out
      BY <3>1, <3>2
    <3>3. CASE r = [out EXCEPT !.info.source_retransmission_timer = rst,
                               !.started = @ \cup {rst}]
      <4>1. r.started = T \cup {rst}
        BY <3>1, <3>3 DEF Ctx
      <4>2. r.info = [out.info EXCEPT !.source_retransmission_timer = rst]
        BY <3>1, <3>3 DEF Ctx
      <4>3. M = N
        BY <3>1, <4>2 DEF GaddrInfo
      <4>4. QED
        BY <4>1, <4>3
    <3>4. QED
      BY <2>1, <3>2, <3>3
  <2>3. r.started \subseteq c.started \cup {st, rst}
    BY <1>6, <2>2
  <2>4. QED
    BY <1>7, <1>13, <2>2, <2>3
<1>16. QED
  BY <1>14, <1>15

(* send_Q for sources: the sources it lowers get the last listener query   *)
(* time, the others have used up one retransmission.                       *)
LEMMA SendQSourcesGood ==
    ASSUME Now, Punctual, NEW g \in Groups, NEW c, Good(c), NEW S,
           NEW b \in BOOLEAN, NEW r, r = send_Q_sources(c, g, S, b)
    PROVE  Good(r)
<1> DEFINE st == NewTimer("SOURCE_TIMER", g, LLQT)
           rst == NewTimer("RET_SOURCE_TIMER", g, LLQI)
           L == c.info.include_requested_list
           M == r.info.include_requested_list
           um == Clock(r.started)
           u == c.info.source_retransmission_timer
<1>1. c \in Ctx /\ c.info \in GaddrInfo /\ FreeStamps # {}
  BY CtxInfo DEF Good, Now
<1>2. /\ st.stamp = NewStamp /\ st.delay = LLQT
      /\ rst.stamp = NewStamp /\ rst.delay = LLQI
  BY NewTimerFresh
<1>3. /\ r \in Ctx
      /\ SameButSources(r.info, c.info)
      /\ DOMAIN M = DOMAIN L
      /\ \A s \in DOMAIN L :
           IF s \in S /\ L[s].retransmission_count < 1
           THEN M[s].shared_source_timer = st /\ st \in r.started
           ELSE /\ M[s].shared_source_timer = L[s].shared_source_timer
                /\ M[s].retransmission_count <= L[s].retransmission_count
      /\ \/ ~ b /\ r = c
         \/ \A s \in DOMAIN L : M[s].retransmission_count <= 0
         \/ r.info.source_retransmission_timer = rst /\ rst \in r.started
      /\ c.started \subseteq r.started
  BY <1>1, SendQSourcesLemma
<1>4. /\ r.started \subseteq c.started \cup {st, rst}
      /\ \/ r = c
         \/ \A s \in DOMAIN L :
              M[s].retransmission_count > 0
              => M[s].retransmission_count + 1
                   = IF s \in S /\ L[s].retransmission_count < 1
                     THEN LLQC ELSE L[s].retransmission_count
  BY <1>1, SendQSourcesCounts
<1> HIDE DEF st, rst
<1>5. CASE r = c
  BY <1>5
<1>6. CASE r # c
  <2>1. Adds(r, c)
    BY <1>2, <1>3, <1>4 DEF Adds, Good, Fresh
  <2>2. Lasts(c.info, um)
    BY <2>1, AddsKeeps
  <2>3. /\ \A t \in r.started : t \in DOMAIN um /\ um[t] = t.delay
        /\ \A t \in DOMAIN um : um[t] \in Int /\ um[t] >= - MaxLate
    <3>1. r.started \subseteq Timer
      BY <1>3 DEF Ctx
    <3>2. QED
      BY <3>1, ClockLemma
  <2>4. /\ \A s \in DOMAIN L : L[s].retransmission_count \in Int
        /\ \A s \in DOMAIN M : M[s].retransmission_count \in Int
    BY <1>1, <1>3, CtxInfo
  <2> HIDE DEF um, u
  <2>5. ASSUME NEW s \in DOMAIN M, M[s].retransmission_count > 0
        PROVE  Ahead(um, M[s].shared_source_timer, r.info.source_retransmission_timer,
                     M[s].retransmission_count)
    <3> DEFINE n == L[s].retransmission_count
               m == M[s].retransmission_count
               x == L[s].shared_source_timer
    <3>1. s \in DOMAIN L /\ n \in Int /\ m \in Int /\ m > 0
      BY <1>3, <2>4, <2>5
    <3>2. r.info.source_retransmission_timer = rst /\ rst \in r.started
      BY <1>3, <1>6, <3>1
    <3>3. rst \in DOMAIN um /\ um[rst] = LLQI
      BY <1>2, <2>3, <3>2
    <3>4. m + 1 = IF s \in S /\ n < 1 THEN LLQC ELSE n
      BY <1>4, <1>6, <3>1
    <3>5. IF s \in S /\ n < 1
          THEN M[s].shared_source_timer = st /\ st \in r.started
          ELSE M[s].shared_source_timer = x
      BY <1>3, <3>1
    <3>6. n > 0 => Ahead(um, x, u, n)
      BY <2>2, <3>1 DEF Lasts, SourcePart, u
    <3> HIDE DEF n, m, x
    <3>7. CASE s \in S /\ n < 1
      <4>1. m = LLQC - 1 /\ LLQC >= 1
        BY <3>1, <3>4, <3>7, Delays
      <4>2. LLQT > LLQI + Lag(m)
        BY <4>1, LoweredLasts
      <4>3. st \in DOMAIN um /\ um[st] = LLQT
        BY <1>2, <2>3, <3>5, <3>7
      <4>4. Ahead(um, st, rst, m)
        BY <3>3, <4>2, <4>3 DEF Ahead
      <4>5. QED
        BY <3>2, <3>5, <3>7, <4>4 DEF m
    <3>8. CASE ~ (s \in S /\ n < 1)
      <4>1. m + 1 = n /\ n > 0
        BY <3>1, <3>4, <3>8
      <4>2. x \in DOMAIN um /\ u \in DOMAIN um /\ um[x] > um[u] + Lag(n)
        BY <3>6, <4>1 DEF Ahead
      <4>3. um[x] \in Int /\ um[u] \in Int /\ um[u] >= - MaxLate
        BY <2>3, <4>2
      <4>4. um[x] > LLQI + Lag(m)
        BY <3>1, <4>1, <4>2, <4>3, OneLess
      <4>5. Ahead(um, x, rst, m)
        BY <3>3, <4>2, <4>4 DEF Ahead
      <4>6. QED
        BY <3>2, <3>5, <3>8, <4>5 DEF m
    <3>9. QED
      BY <3>7, <3>8
  <2>6. SourcePart(r.info, um)
    BY <2>5 DEF SourcePart
  <2>7. GroupPart(r.info, um)
    BY <1>3, <2>2 DEF Lasts, GroupPart, SameButSources
  <2>8. QED
    BY <2>1, <2>6, <2>7 DEF Good, Lasts, Adds, um
<1>7. QED
  BY <1>5, <1>6
(* l += r, then the assignment.                                            *)
LEMMA AddSourcesGood ==
    ASSUME NEW c, Good(c), NEW L, L = c.info.include_requested_list,
           NEW S, Within(S, Sources), NEW E, Within(E, Sources),
           NEW r, r = SetLists(c, Plus(L, S), E)
    PROVE  Good(r)
<1> DEFINE M == Plus(L, S)
<1>1. L \in SourceList /\ S \in SUBSET Sources /\ E \in SUBSET Sources
  BY CtxInfo DEF Good, Within
<1>2. /\ M \in SourceList /\ DOMAIN M = DOMAIN L \cup S
      /\ \A s \in DOMAIN L : M[s] = L[s]
      /\ \A s \in S \ DOMAIN L : M[s] = NewSource
  BY <1>1, PlusLemma
<1>3. ~ (NewSource.retransmission_count > 0)
  BY DEF NewSource
<1> HIDE DEF M
<1>4. \A s \in DOMAIN M : M[s].retransmission_count > 0 => s \in DOMAIN L /\ M[s] = L[s]
  BY <1>2, <1>3
<1>5. r = SetLists(c, M, E)
  BY DEF M
<1>6. QED
  BY <1>1, <1>2, <1>4, <1>5, SetListsGood

(* l *= r, then the assignment.                                            *)
LEMMA KeepSourcesGood ==
    ASSUME NEW c, Good(c), NEW L, L = c.info.include_requested_list,
           NEW S, NEW E, Within(E, Sources),
           NEW r, r = SetLists(c, Times(L, S), E)
    PROVE  Good(r)
<1> DEFINE M == Times(L, S)
<1>1. L \in SourceList /\ E \in SUBSET Sources
  BY CtxInfo DEF Good, Within
<1>2. /\ M \in SourceList /\ DOMAIN M = DOMAIN L \cap S
      /\ \A s \in DOMAIN L \cap S : M[s] = L[s]
  BY <1>1, TimesLemma
<1> HIDE DEF M
<1>4. \A s \in DOMAIN M : M[s].retransmission_count > 0 => s \in DOMAIN L /\ M[s] = L[s]
  BY <1>2
<1>5. r = SetLists(c, M, E)
  BY DEF M
<1>6. QED
  BY <1>1, <1>2, <1>4, <1>5, SetListsGood

(* Both, one after the other.                                              *)
LEMMA OnlySourcesGood ==
    ASSUME NEW c, Good(c), NEW L, L = c.info.include_requested_list,
           NEW A, NEW S, Within(S, Sources), NEW E, Within(E, Sources),
           NEW r, r = SetLists(c, Plus(Times(L, A), S), E)
    PROVE  Good(r)
<1> DEFINE N == Times(L, A)
           M == Plus(N, S)
<1>1. L \in SourceList /\ S \in SUBSET Sources /\ E \in SUBSET Sources
  BY CtxInfo DEF Good, Within
<1>2. /\ N \in SourceList /\ DOMAIN N = DOMAIN L \cap A
      /\ \A s \in DOMAIN L \cap A : N[s] = L[s]
  BY <1>1, TimesLemma
<1> HIDE DEF N
<1>3. /\ M \in SourceList /\ DOMAIN M = DOMAIN N \cup S
      /\ \A s \in DOMAIN N : M[s] = N[s]
      /\ \A s \in S \ DOMAIN N : M[s] = NewSource
  BY <1>1, <1>2, PlusLemma
<1>4. ~ (NewSource.retransmission_count > 0)
  BY DEF NewSource
<1> HIDE DEF M
<1>5. \A s \in DOMAIN M : M[s].retransmission_count > 0 => s \in DOMAIN L /\ M[s] = L[s]
  BY <1>2, <1>3, <1>4
<1>6. r = SetLists(c, M, E)
  BY DEF M, N
<1>7. QED
  BY <1>1, <1>3, <1>5, <1>6, SetListsGood

-----------------------------------------------------------------------------
(* receive_record.  Every record is handled in time in INCLUDE mode.       *)
LEMMA IncludeGood ==
    ASSUME Now, Punctual, NEW g \in Groups, NEW c, Good(c),
           NEW type \in RecordTypes, NEW B \in SUBSET Sources,
           NEW r, r = receive_record_in_include_mode(c, g, type, B)
    PROVE  Good(r)
<1> DEFINE A == c.info.include_requested_list
           E == c.info.exclude_list
           N == B \ DOMAIN A
           K == DOMAIN A \cap B
           G == DOMAIN A \ B
           added == SetLists(c, Plus(A, B), E)
           lists == SetLists(c, Times(A, B), N)
           exclude == SetMode(lists, "EXCLUDE_MODE")
<1>1. Within(B, Sources) /\ Within(E, Sources) /\ Within(N, Sources)
  BY CtxInfo DEF Good, Within
<1>2. PICK b \in BOOLEAN : b = FALSE
  OBVIOUS
<1>3. CASE type \in {"ALLOW_NEW_SOURCES", "MODE_IS_INCLUDE"}
        /\ r = Notify(mali_sources(added, g, B))
  BY <1>1, <1>3, AddSourcesGood, MaliSourcesGood, NotifyGood
<1>4. CASE type = "BLOCK_OLD_SOURCES" /\ r = send_Q_sources(c, g, K, b)
  BY <1>4, SendQSourcesGood
<1>x. Good(exclude)
  <2>1. Good(lists)
    BY <1>1, KeepSourcesGood
  <2>2. "EXCLUDE_MODE" \in FilterModes
    BY DEF FilterModes
  <2> HIDE DEF lists
  <2>3. QED
    BY <2>1, <2>2, SetModeGood
<1>a. Good(added)
  BY <1>1, AddSourcesGood
<1> HIDE DEF added, exclude, K, G
<1>5. CASE /\ type = "CHANGE_TO_EXCLUDE_MODE"
           /\ r = Notify(mali_filter(send_Q_sources(exclude, g, K, b), g))
  BY <1>5, <1>x, SendQSourcesGood, MaliFilterGood, NotifyGood
<1>6. CASE /\ type = "CHANGE_TO_INCLUDE_MODE"
           /\ r = Notify(mali_sources(send_Q_sources(added, g, G, b), g, B))
  BY <1>6, <1>a, SendQSourcesGood, MaliSourcesGood, NotifyGood
<1>7. CASE type = "MODE_IS_EXCLUDE" /\ r = Notify(mali_filter(exclude, g))
  BY <1>7, <1>x, MaliFilterGood, NotifyGood
<1>8. \/ type \in {"ALLOW_NEW_SOURCES", "MODE_IS_INCLUDE"}
         /\ r = Notify(mali_sources(added, g, B))
      \/ type = "BLOCK_OLD_SOURCES" /\ r = send_Q_sources(c, g, K, b)
      \/ /\ type = "CHANGE_TO_EXCLUDE_MODE"
         /\ r = Notify(mali_filter(send_Q_sources(exclude, g, K, b), g))
      \/ /\ type = "CHANGE_TO_INCLUDE_MODE"
         /\ r = Notify(mali_sources(send_Q_sources(added, g, G, b), g, B))
      \/ type = "MODE_IS_EXCLUDE" /\ r = Notify(mali_filter(exclude, g))
  BY <1>2 DEF receive_record_in_include_mode, RecordTypes, added, exclude, lists, K, G
<1>9. QED
  BY <1>3, <1>4, <1>5, <1>6, <1>7, <1>8

(* And in EXCLUDE mode.                                                    *)
LEMMA ExcludeGood ==
    ASSUME Now, Punctual, NEW g \in Groups, NEW c, Good(c),
           NEW type \in RecordTypes, NEW A \in SUBSET Sources,
           NEW r, r = receive_record_in_exclude_mode(c, g, type, A)
    PROVE  Good(r)
<1> DEFINE X == c.info.include_requested_list
           Y == c.info.exclude_list
           S == A \ Y
           YA == Y \ A
           YC == Y \cap A
           G == (DOMAIN X \cup A) \ A
           NX == (A \ DOMAIN X) \ Y
           added == SetLists(c, Plus(X, A), YA)
           only == SetLists(c, Plus(Times(X, A), S), YC)
           more == SetLists(c, Plus(X, S), Y)
           O == Requested(only.info)
<1>1. /\ Within(A, Sources) /\ Within(Y, Sources) /\ Within(S, Sources)
      /\ Within(YA, Sources) /\ Within(YC, Sources)
  BY CtxInfo DEF Good, Within
<1>2. PICK b \in BOOLEAN : b = FALSE
  OBVIOUS
<1>8. \/ r = Notify(mali_sources(added, g, A))
      \/ r = send_Q_sources(more, g, S, b)
      \/ r = Notify(mali_filter(send_Q_sources(only, g, O, b), g))
      \/ r = Notify(mali_sources(send_Q_group(send_Q_sources(added, g, G, b), g), g, A))
      \/ r = Notify(mali_filter(mali_sources(only, g, NX), g))
  BY <1>2 DEF receive_record_in_exclude_mode, RecordTypes
<1> HIDE DEF S, YA, YC
<1>9. Good(added) /\ Good(more)
  BY <1>1, AddSourcesGood
<1>10. Good(only)
  BY <1>1, OnlySourcesGood
<1> HIDE DEF added, only, more, G, NX, O
<1>3. CASE r = Notify(mali_sources(added, g, A))
  BY <1>3, <1>9, MaliSourcesGood, NotifyGood
<1>4. CASE r = send_Q_sources(more, g, S, b)
  BY <1>4, <1>9, SendQSourcesGood
<1>5. CASE r = Notify(mali_filter(send_Q_sources(only, g, O, b), g))
  BY <1>5, <1>10, SendQSourcesGood, MaliFilterGood, NotifyGood
<1>6. CASE r = Notify(mali_sources(send_Q_group(send_Q_sources(added, g, G, b), g), g, A))
  BY <1>6, <1>9, SendQSourcesGood, SendQGroupGood, MaliSourcesGood, NotifyGood
<1>7. CASE r = Notify(mali_filter(mali_sources(only, g, NX), g))
  BY <1>7, <1>10, MaliSourcesGood, MaliFilterGood, NotifyGood
<1>11. QED
  BY <1>3, <1>4, <1>5, <1>6, <1>7, <1>8

(* Noting an older host starts a timer of its own.                         *)
LEMMA NoteOlderHostGood ==
    ASSUME Now, NEW g \in Groups, NEW c, Good(c), NEW v \in RecordVersions,
           NEW r, r = NoteOlderHost(c, g, v)
    PROVE  Good(r)
<1> DEFINE ohpt == NewTimer("OLDER_HOST_PRESENT_TIMER", g, OHPI)
           H == [c.info EXCEPT !.compatibility_mode_variable = v]
           I == [H EXCEPT !.older_host_present_timer = ohpt]
           U == c.started \cup {ohpt}
           um == Clock(U)
<1>1. c \in Ctx /\ c.info \in GaddrInfo /\ FreeStamps # {} /\ c.started \subseteq Timer
  BY CtxInfo DEF Good, Now, Ctx
<1>2. ohpt \in Timer /\ ohpt.stamp = NewStamp
  BY <1>1, NewTimerType, NewTimerFresh DEF TimerTypes
<1>3. r = c \/ r = [c EXCEPT !.info = I, !.started = U]
  BY DEF NoteOlderHost
<1> HIDE DEF ohpt
<1>4. CASE r = [c EXCEPT !.info = I, !.started = U]
  <2>1. v \in 1 .. NewestVersion
    BY VersionAssumption
  <2>2. H \in GaddrInfo /\ SameButOhpt(H, c.info)
    BY <1>1, <2>1 DEF GaddrInfo, SameButOhpt
  <2> HIDE DEF H
  <2>3. I \in GaddrInfo /\ SameButOhpt(I, c.info)
    BY <1>2, <2>2 DEF GaddrInfo, SameButOhpt
  <2>4. U \subseteq Timer /\ c.started \subseteq U
    BY <1>1, <1>2
  <2>5. Fresh(U)
    BY <1>2 DEF Fresh, Good
  <2> HIDE DEF I, U
  <2>6. r \in Ctx /\ r.info = I /\ r.started = U
    BY <1>1, <1>4, <2>3, <2>4 DEF Ctx
  <2>7. Adds(r, c)
    BY <2>4, <2>5, <2>6 DEF Adds
  <2>8. Lasts(c.info, um)
    BY <2>6, <2>7, AddsKeeps
  <2> HIDE DEF um
  <2>9. Lasts(I, um)
    BY <2>3, <2>8 DEF Lasts, GroupPart, SourcePart, SameButOhpt
  <2>10. QED
    BY <2>5, <2>6, <2>9 DEF Good, um
<1>5. QED
  BY <1>3, <1>4

(* The whole of the record handler.                                        *)
LEMMA HandleRecordGood ==
    ASSUME Now, Punctual, NEW g \in Groups, NEW c, Good(c),
           NEW type \in RecordTypes, NEW S \in SUBSET Sources,
           NEW r, r = HandleRecord(c, g, type, S)
    PROVE  Good(r)
<1> DEFINE B == EffectiveList(c.info, type, S)
<1>1. B \in SUBSET Sources
  BY DEF EffectiveList
<1>2. \/ r = c
      \/ r = receive_record_in_include_mode(c, g, type, B)
      \/ r = receive_record_in_exclude_mode(c, g, type, B)
  BY DEF HandleRecord
<1> HIDE DEF B
<1>3. QED
  BY <1>1, <1>2, IncludeGood, ExcludeGood
-----------------------------------------------------------------------------
(* The steps.  A group record is in time after a step if it is with the    *)
(* timers the step starts: IInv says that the step delivers none it needs. *)
LEMMA Transfer ==
    ASSUME NEW i, NEW h, NEW tm, NEW um, Lasts(i, um), GroupOK(i, h, DOMAIN tm),
           \A t \in DOMAIN tm : tm[t] = um[t],
           NoTimer \notin DOMAIN um
    PROVE  Lasts(i, tm)
<1>1. Core(i, h, DOMAIN tm, {}) /\ FilterPart(i, h, DOMAIN tm)
  BY DEF GroupOK
<1>2. GroupPart(i, tm)
  <2> DEFINE n == i.group_retransmission_count
             f == i.shared_filter_timer
             u == i.group_retransmission_timer
  <2>1. SUFFICES ASSUME n > 0 PROVE Ahead(tm, f, u, n) /\ LLQT > tm[u] + Lag(n)
    BY DEF GroupPart
  <2>2. Ahead(um, f, u, n) /\ LLQT > um[u] + Lag(n)
    BY <2>1 DEF Lasts, GroupPart
  <2>3. u \in DOMAIN tm
    BY <1>1, <2>1 DEF Core, RunIn
  <2>4. f \in DOMAIN tm
    BY <1>1, <2>2 DEF FilterPart, RunIn, Ahead
  <2>5. QED
    BY <2>2, <2>3, <2>4 DEF Ahead
<1>3. SourcePart(i, tm)
  <2> DEFINE L == i.include_requested_list
             u == i.source_retransmission_timer
  <2>1. SUFFICES ASSUME NEW s \in DOMAIN L, L[s].retransmission_count > 0
                 PROVE  Ahead(tm, L[s].shared_source_timer, u, L[s].retransmission_count)
    BY DEF SourcePart
  <2>2. Ahead(um, L[s].shared_source_timer, u, L[s].retransmission_count)
    BY <2>1 DEF Lasts, SourcePart
  <2>3. u \in DOMAIN tm /\ L[s].shared_source_timer \in DOMAIN tm
    BY <1>1, <2>1 DEF Core, RunIn
  <2>4. QED
    BY <2>2, <2>3 DEF Ahead
<1>4. QED
  BY <1>2, <1>3 DEF Lasts

(* Starting no timer changes no time.                                      *)
LEMMA ClockOfNone ==
    ASSUME NEW T, T = {}
    PROVE  Continues(Clock(T), timing) /\ Continues(timing, Clock(T))
  BY DEF Continues, Clock, Start

(* Before the first timer is started, too.                                 *)
LEMMA ClockStarts ==
    ASSUME Now, NEW U, U \subseteq Timer, Fresh(U)
    PROVE  Continues(Clock(U), timing)
<1>1. PICK T : T = {}
  OBVIOUS
<1>2. Continues(Clock(U), Clock(T))
  BY <1>1, ClockContinues
<1>3. Continues(Clock(T), timing)
  BY <1>1, ClockOfNone
<1>4. QED
  BY <1>2, <1>3 DEF Continues

(* The end of a handler call.                                              *)
LEMMA AfterStep ==
    ASSUME IInv, TimeInv, IInv', NEW g, NEW c, Good(c), NEW D,
           Continues(Clock(c.started), timing),
           timing' = Start(D, c.started),
           group_info' = Store(g, c.info) \/ group_info' = Erase(g)
    PROVE  TimeInv'
<1> DEFINE T == c.started
           um == Clock(T)
<1>1. T \subseteq Timer /\ DOMAIN timing \subseteq Timer
  BY DEF Good, Ctx, IInv, TypeOK
<1>2. /\ DOMAIN um = DOMAIN timing \cup T
      /\ DOMAIN timing' \subseteq DOMAIN um
      /\ \A t \in DOMAIN timing' : timing'[t] = um[t]
      /\ \A t \in DOMAIN um : IF t \in T THEN um[t] = t.delay ELSE um[t] = timing[t]
  BY DEF Clock, Start
<1>3. NoTimer \notin DOMAIN um
  BY <1>1, <1>2, NullAssumption
<1>4. InTime'
  <2>1. SUFFICES ASSUME NEW t \in DOMAIN timing' PROVE timing'[t] >= - MaxLate
    BY DEF InTime
  <2>2. timing'[t] = um[t] /\ t \in DOMAIN um
    BY <1>2, <2>1
  <2>3. CASE t \in T
    <3>1. um[t] = t.delay /\ t.delay \in Nat /\ MaxLate \in Nat
      BY <1>1, <1>2, <2>2, <2>3, Delays
    <3>2. QED
      BY <2>2, <3>1
  <2>4. CASE t \notin T
    BY <1>2, <2>2, <2>4 DEF TimeInv, InTime
  <2>5. QED
    BY <2>3, <2>4
<1>5. ASSUME NEW h \in DOMAIN group_info' PROVE Lasts(group_info'[h], timing')
  <2> DEFINE i == group_info'[h]
             tm == timing'
  <2>1. \/ h = g /\ i = c.info
        \/ h \in DOMAIN group_info /\ i = group_info[h]
    BY DEF Store, Erase
  <2>2. Lasts(i, um)
    <3>1. CASE h = g /\ i = c.info
      BY <3>1 DEF Good
    <3>2. CASE h \in DOMAIN group_info /\ i = group_info[h]
      <4>1. Lasts(i, timing)
        BY <3>2 DEF TimeInv
      <4> HIDE DEF um, i
      <4>2. Continues(um, timing)
        BY DEF um
      <4>3. QED
        BY <4>1, <4>2, LastsContinues
    <3>3. QED
      BY <2>1, <3>1, <3>2
  <2>3. GroupOK(i, h, DOMAIN tm)
    BY DEF IInv, GroupsOK
  <2>4. \A t \in DOMAIN tm : tm[t] = um[t]
    BY <1>2
  <2> HIDE DEF i, tm, um
  <2>5. Lasts(i, tm)
    BY <1>3, <2>2, <2>3, <2>4, Transfer
  <2>6. QED
    BY <2>5 DEF i, tm
<1>6. QED
  BY <1>4, <1>5 DEF TimeInv

(* A handler call starts with a group record that is in time.              *)
LEMMA ContextGood ==
    ASSUME IInv, TimeInv, NEW g \in Groups
    PROVE  Good(Context(g))
<1> DEFINE c == Context(g)
           i == Info(g)
<1>1. c \in Ctx /\ c.info = i /\ c.started = {}
  BY ContextOK
<1>2. Lasts(i, timing)
  <2>1. CASE g \in DOMAIN group_info
    BY <2>1 DEF Info, TimeInv
  <2>2. CASE g \notin DOMAIN group_info
    <3>1. i = NeutralInfo
      BY <2>2 DEF Info
    <3>2. /\ NeutralInfo.group_retransmission_count = -1
          /\ DOMAIN NeutralInfo.include_requested_list = {}
      BY DEF NeutralInfo
    <3>3. QED
      BY <3>1, <3>2 DEF Lasts, GroupPart, SourcePart
  <2>3. QED
    BY <2>1, <2>2
<1> HIDE DEF c, i
<1>3. Lasts(i, Clock(c.started))
  <2> DEFINE T == c.started
             um == Clock(T)
  <2>1. Continues(um, timing)
    BY <1>1, ClockOfNone
  <2> HIDE DEF um
  <2>2. Lasts(i, um)
    BY <1>2, <2>1, LastsContinues
  <2>3. QED
    BY <2>2 DEF um
<1>4. Fresh(c.started)
  BY <1>1 DEF Fresh
<1>5. QED
  BY <1>1, <1>3, <1>4 DEF Good, c
(* A received record.                                                      *)
LEMMA ReceiveRecordInTime ==
    ASSUME Punctual, IInv, TimeInv, IInv', NEW g \in Groups, NEW v \in RecordVersions,
           NEW type \in RecordTypes, NEW S \in SUBSET Sources,
           receive_record(g, v, type, S)
    PROVE  TimeInv'
<1> DEFINE c1 == Context(g)
           c0 == NoteOlderHost(c1, g, v)
           c  == HandleRecord(c0, g, type, S)
           D  == {}
<1>1. /\ FreeStamps # {}
      /\ group_info' = Erase(g) \/ group_info' = Store(g, c.info)
      /\ timing' = Start(D, c.started)
  BY DEF receive_record, Finish
<1>2. Now
  BY <1>1 DEF Now, IInv, TimeInv
<1>3. Good(c1)
  BY ContextGood
<1> HIDE DEF c1, D
<1>4. Good(c0)
  BY <1>2, <1>3, NoteOlderHostGood
<1> HIDE DEF c0
<1>5. Good(c)
  BY <1>2, <1>4, HandleRecordGood
<1> HIDE DEF c
<1>6. c.started \subseteq Timer /\ Fresh(c.started)
  BY <1>5 DEF Good, Ctx
<1>7. Continues(Clock(c.started), timing)
  BY <1>2, <1>6, ClockStarts
<1>8. QED
  BY <1>1, <1>5, <1>7, AfterStep

(* A timer that is due has no retransmission behind it.                    *)
LEMMA DueIsOver ==
    ASSUME TypeOK, InTime, NEW t, Due(t), NEW u, NEW n \in Int, n > 0
    PROVE  ~ Ahead(timing, t, u, n)
<1>1. SUFFICES ASSUME Ahead(timing, t, u, n) PROVE FALSE
  OBVIOUS
<1>2. /\ timing[t] \in Int /\ timing[t] <= 0
      /\ timing[u] \in Int /\ timing[u] >= - MaxLate
      /\ timing[t] > timing[u] + Lag(n)
  BY <1>1 DEF TypeOK, InTime, Due, Ahead
<1>3. Lag(n) \in Int /\ Lag(n) >= MaxLate /\ MaxLate \in Int
  BY LagFacts, Delays
<1>4. QED
  BY <1>2, <1>3

(* The filter timer expires after the queries of its group.                *)
LEMMA FilterExpiry ==
    ASSUME IInv, TimeInv, NEW t \in DOMAIN timing, timer_triggerd_filter_timer(t)
    PROVE  ~ (group_info[t.gaddr].group_retransmission_count > 0)
<1> DEFINE i == group_info[t.gaddr]
           n == i.group_retransmission_count
<1>1. Due(t) /\ t.gaddr \in DOMAIN group_info /\ t = i.shared_filter_timer
  BY DEF timer_triggerd_filter_timer
<1>2. Lasts(i, timing) /\ n \in Int
  BY <1>1 DEF TimeInv, IInv, TypeOK, GaddrInfo
<1>3. n > 0 => Ahead(timing, t, i.group_retransmission_timer, n)
  BY <1>1, <1>2 DEF Lasts, GroupPart
<1> HIDE DEF n, i
<1>4. ~ (n > 0)
  BY <1>1, <1>2, <1>3, DueIsOver DEF IInv, TimeInv
<1>5. QED
  BY <1>4 DEF n, i

(* A source timer expires after the queries of the sources that share it.  *)
LEMMA SourceExpiry ==
    ASSUME IInv, TimeInv, NEW t \in DOMAIN timing, Due(t), t.gaddr \in DOMAIN group_info,
           NEW L, L = group_info[t.gaddr].include_requested_list,
           NEW s \in DOMAIN L, L[s].shared_source_timer = t
    PROVE  L[s].retransmission_count \in Int /\ ~ (L[s].retransmission_count > 0)
<1> DEFINE i == group_info[t.gaddr]
           n == L[s].retransmission_count
<1>1. Lasts(i, timing) /\ i \in GaddrInfo
  BY DEF TimeInv, IInv, TypeOK
<1>2. n \in Int
  <2>1. L \in SourceList
    BY <1>1 DEF GaddrInfo
  <2>2. L[s] \in Source
    BY <2>1, SourceListElim
  <2>3. QED
    BY <2>2 DEF Source
<1>3. n > 0 => Ahead(timing, t, i.source_retransmission_timer, n)
  BY <1>1 DEF Lasts, SourcePart
<1> HIDE DEF n, i
<1>4. ~ (n > 0)
  BY <1>2, <1>3, DueIsOver DEF IInv, TimeInv
<1>5. QED
  BY <1>2, <1>4 DEF n

(* The expiry of a filter timer, which is then gone.                       *)
LEMMA FilterTimerInTime ==
    ASSUME Punctual, IInv, TimeInv, IInv', NEW t \in DOMAIN timing,
           timer_triggerd_filter_timer(t)
    PROVE  TimeInv'
<1> DEFINE g == t.gaddr
           c == Context(g)
           L == c.info.include_requested_list
           l == SetLists(c, L, {})
           m == SetMode(l, "INCLUDE_MODE")
           I == [m.info EXCEPT !.shared_filter_timer = NoTimer]
           e == [m EXCEPT !.info.shared_filter_timer = NoTimer]
           n == Notify(e)
           z == [c EXCEPT !.view = NoMembership]
           D == {t}
<1>1. g \in Groups
  BY TimerGroup DEF IInv
<1>2. /\ \/ group_info' = Erase(g) /\ timing' = Start(D, z.started)
         \/ group_info' = Store(g, e.info) /\ timing' = Start(D, n.started)
      /\ ~ (group_info[g].group_retransmission_count > 0)
      /\ g \in DOMAIN group_info
  BY FilterExpiry DEF timer_triggerd_filter_timer, Finish
<1>3. Good(c) /\ c \in Ctx /\ c.started = {} /\ c.info = group_info[g]
  BY <1>1, <1>2, ContextGood, ContextOK DEF Info
<1>4. ~ (c.info.group_retransmission_count > 0)
  BY <1>2, <1>3
<1> HIDE DEF c, D, g
<1>5. CASE group_info' = Erase(g) /\ timing' = Start(D, z.started)
  <2>1. z.started = c.started
    BY <1>3 DEF Ctx
  <2>2. timing' = Start(D, c.started)
    BY <1>5, <2>1
  <2>3. Continues(Clock(c.started), timing)
    BY <1>3, ClockOfNone
  <2>4. QED
    BY <1>3, <1>5, <2>2, <2>3, AfterStep
<1>6. CASE group_info' = Store(g, e.info) /\ timing' = Start(D, n.started)
  <2>1. L \in SourceList /\ {} \in SUBSET Sources /\ c.info \in GaddrInfo
    BY <1>3, CtxInfo
  <2>2. /\ l \in Ctx /\ l.started = c.started
        /\ SameButLists(l.info, c.info)
    BY <1>3, <2>1, SetListsLemma
  <2>3. Good(l)
    BY <1>3, <2>1, SetListsGood
  <2> HIDE DEF l
  <2>4. /\ m \in Ctx /\ m.started = l.started
        /\ m.info.group_retransmission_count = l.info.group_retransmission_count
    BY <2>2, SetModeLemma DEF FilterModes
  <2>5. Good(m)
    BY <2>3, SetModeGood DEF FilterModes
  <2> HIDE DEF m
  <2>6. I \in GaddrInfo /\ SameButFilterTimer(I, m.info)
    BY <2>4, CtxInfo DEF GaddrInfo, SameButFilterTimer
  <2>7. e = [m EXCEPT !.info = I]
    OBVIOUS
  <2> HIDE DEF I, e
  <2>8. e \in Ctx /\ e.info = I /\ e.started = m.started
    BY <2>4, <2>6, <2>7 DEF Ctx
  <2>9. ~ (I.group_retransmission_count > 0)
    BY <1>4, <2>2, <2>4, <2>6 DEF SameButLists, SameButFilterTimer
  <2> DEFINE um == Clock(m.started)
  <2>10. Lasts(m.info, um)
    BY <2>5 DEF Good
  <2> HIDE DEF um
  <2>11. GroupPart(I, um)
    BY <2>9 DEF GroupPart
  <2>12. SourcePart(I, um)
    BY <2>6, <2>10 DEF Lasts, SourcePart, SameButFilterTimer
  <2>13. Good(e)
    BY <2>5, <2>8, <2>11, <2>12 DEF Good, Lasts, um
  <2>14. Good(n) /\ n.info = e.info /\ n.started = {}
    BY <1>3, <2>2, <2>4, <2>8, <2>13, NotifyGood, NotifyLemma
  <2> HIDE DEF n
  <2>15. Continues(Clock(n.started), timing)
    BY <2>14, ClockOfNone
  <2>16. group_info' = Store(g, n.info)
    BY <1>6, <2>14
  <2>17. QED
    BY <1>6, <2>14, <2>15, <2>16, AfterStep
<1>7. QED
  BY <1>2, <1>5, <1>6
(* The expiry of a source timer: the sources kept keep their entries.      *)
LEMMA SourceTimerInTime ==
    ASSUME IInv, TimeInv, IInv', NEW t \in DOMAIN timing,
           timer_triggerd_source_timer(t)
    PROVE  TimeInv'
<1> DEFINE g == t.gaddr
           c == Context(g)
           L == c.info.include_requested_list
           X == {s \in DOMAIN L : L[s].shared_source_timer = t}
           R == DOMAIN L \ X
           K == Times(L, R)
           Y == c.info.exclude_list
           YX == Y \cup X
           a == SetLists(c, K, Y)
           b == SetLists(c, K, YX)
           z == [c EXCEPT !.view = NoMembership]
           D == {t}
<1>1. g \in Groups
  BY TimerGroup DEF IInv
<1>2. \/ group_info' = Erase(g) /\ timing' = Start(D, z.started)
      \/ group_info' = Store(g, a.info) /\ timing' = Start(D, Notify(a).started)
      \/ group_info' = Store(g, b.info) /\ timing' = Start(D, Notify(b).started)
  BY DEF timer_triggerd_source_timer, Finish
<1>3. Good(c) /\ c \in Ctx /\ c.started = {}
  BY <1>1, ContextGood, ContextOK
<1>4. /\ L \in SourceList /\ Within(Y, Sources) /\ Within(YX, Sources)
      /\ Y \in SUBSET Sources /\ YX \in SUBSET Sources
  BY <1>3, CtxInfo DEF Within
<1> HIDE DEF c, D, g, YX, R
<1>5. K \in SourceList
  BY <1>4, TimesLemma
<1>6. Good(a) /\ Good(b)
  BY <1>3, <1>4, KeepSourcesGood
<1>7. a \in Ctx /\ b \in Ctx /\ a.started = {} /\ b.started = {}
  BY <1>3, <1>4, <1>5, SetListsLemma
<1> HIDE DEF a, b
<1>8. CASE group_info' = Erase(g) /\ timing' = Start(D, z.started)
  <2>1. z.started = c.started
    BY <1>3 DEF Ctx
  <2>2. timing' = Start(D, c.started)
    BY <1>8, <2>1
  <2>3. Continues(Clock(c.started), timing)
    BY <1>3, ClockOfNone
  <2>4. QED
    BY <1>3, <1>8, <2>2, <2>3, AfterStep
<1>9. ASSUME NEW d, d = a \/ d = b,
             group_info' = Store(g, d.info), timing' = Start(D, Notify(d).started)
      PROVE  TimeInv'
  <2>1. Good(d) /\ d \in Ctx /\ d.started = {}
    BY <1>6, <1>7, <1>9
  <2>2. timing' = Start(D, d.started)
    BY <1>9, <2>1, NotifyLemma
  <2>3. Continues(Clock(d.started), timing)
    BY <2>1, ClockOfNone
  <2>4. QED
    BY <1>9, <2>1, <2>2, <2>3, AfterStep
<1>10. QED
  BY <1>2, <1>8, <1>9

(* A retransmission of a group's query.                                    *)
LEMMA RetGroupTimerInTime ==
    ASSUME Punctual, IInv, TimeInv, IInv', NEW t \in DOMAIN timing,
           timer_triggerd_ret_group_timer(t)
    PROVE  TimeInv'
<1> DEFINE g == t.gaddr
           c == Context(g)
           r == send_Q_group(c, g)
           D == {t}
<1>1. g \in Groups
  BY TimerGroup DEF IInv
<1>2. /\ FreeStamps # {}
      /\ group_info' = Store(g, r.info) /\ timing' = Start(D, r.started)
  BY DEF timer_triggerd_ret_group_timer, Finish
<1>3. Now
  BY <1>2 DEF Now, IInv, TimeInv
<1>4. Good(c)
  BY <1>1, ContextGood
<1> HIDE DEF c, D, g
<1>5. Good(r)
  BY <1>1, <1>3, <1>4, SendQGroupGood
<1> HIDE DEF r
<1>6. r.started \subseteq Timer /\ Fresh(r.started)
  BY <1>5 DEF Good, Ctx
<1>7. Continues(Clock(r.started), timing)
  BY <1>3, <1>6, ClockStarts
<1>8. QED
  BY <1>2, <1>5, <1>7, AfterStep

(* A retransmission of a group's source queries.                           *)
LEMMA RetSourceTimerInTime ==
    ASSUME Punctual, IInv, TimeInv, IInv', NEW t \in DOMAIN timing,
           timer_triggerd_ret_source_timer(t)
    PROVE  TimeInv'
<1> DEFINE g == t.gaddr
           c == Context(g)
           S == {}
           r == send_Q_sources(c, g, S, TRUE)
           D == {t}
<1>1. g \in Groups
  BY TimerGroup DEF IInv
<1>2. /\ FreeStamps # {}
      /\ group_info' = Store(g, r.info) /\ timing' = Start(D, r.started)
  BY DEF timer_triggerd_ret_source_timer, Finish
<1>3. Now
  BY <1>2 DEF Now, IInv, TimeInv
<1>4. Good(c)
  BY <1>1, ContextGood
<1>5. PICK b \in BOOLEAN : b = TRUE
  OBVIOUS
<1>6. r = send_Q_sources(c, g, S, b)
  BY <1>5
<1> HIDE DEF c, D, g, r, S
<1>7. Good(r)
  BY <1>1, <1>3, <1>4, <1>6, SendQSourcesGood
<1>8. r.started \subseteq Timer /\ Fresh(r.started)
  BY <1>7 DEF Good, Ctx
<1>9. Continues(Clock(r.started), timing)
  BY <1>3, <1>8, ClockStarts
<1>10. QED
  BY <1>2, <1>7, <1>9, AfterStep

(* The expiry of an older host present timer touches no other timer.       *)
LEMMA OlderHostTimerInTime ==
    ASSUME IInv, TimeInv, IInv', NEW t \in DOMAIN timing,
           timer_triggerd_older_host_present_timer(t)
    PROVE  TimeInv'
<1> DEFINE g == t.gaddr
           c == Context(g)
           v == c.info.compatibility_mode_variable
           d == IF is_newest_version(v + 1) THEN MALI ELSE OHPI
           ohpt == NewTimer("OLDER_HOST_PRESENT_TIMER", g, d)
           I == [c.info EXCEPT !.older_host_present_timer = NoTimer]
           o == [c EXCEPT !.info.older_host_present_timer = NoTimer]
           H == [c.info EXCEPT !.compatibility_mode_variable = v + 1]
           J == [H EXCEPT !.older_host_present_timer = ohpt]
           n == [c EXCEPT !.info = J, !.started = {ohpt}]
           D == {t}
<1>1. g \in Groups
  BY TimerGroup DEF IInv
<1>2. /\ FreeStamps # {}
      /\ \/ group_info' = Store(g, o.info) /\ timing' = Start(D, Notify(o).started)
         \/ /\ ~ is_newest_version(v)
            /\ group_info' = Store(g, n.info) /\ timing' = Start(D, n.started)
  BY DEF timer_triggerd_older_host_present_timer, Finish
<1>3. Now
  BY <1>2 DEF Now, IInv, TimeInv
<1>4. Good(c) /\ c \in Ctx /\ c.started = {}
  BY <1>1, ContextGood, ContextOK
<1>5. c.info \in GaddrInfo /\ v \in 1 .. NewestVersion
  BY <1>4, CtxInfo DEF GaddrInfo
<1>6. ohpt \in Timer /\ ohpt.stamp = NewStamp
  <2>1. d \in {LLQI, LLQT, MALI, OHPI}
    OBVIOUS
  <2> HIDE DEF d
  <2>2. QED
    BY <1>1, <1>2, <2>1, NewTimerType, NewTimerFresh DEF TimerTypes
<1> HIDE DEF c, D, g, ohpt
<1>7. ASSUME NEW r \in Ctx, SameButOhpt(r.info, c.info), Fresh(r.started),
             group_info' = Store(g, r.info), timing' = Start(D, r.started)
      PROVE  TimeInv'
  <2>1. Adds(r, c)
    BY <1>4, <1>7 DEF Adds
  <2> DEFINE um == Clock(r.started)
  <2>2. Lasts(c.info, um)
    BY <1>3, <1>4, <2>1, AddsKeeps
  <2> HIDE DEF um
  <2>3. Lasts(r.info, um)
    BY <1>7, <2>2 DEF Lasts, GroupPart, SourcePart, SameButOhpt
  <2>4. Good(r)
    BY <1>7, <2>3 DEF Good, um
  <2>5. r.started \subseteq Timer
    BY <1>7 DEF Ctx
  <2>6. Continues(Clock(r.started), timing)
    BY <1>3, <1>7, <2>5, ClockStarts
  <2>7. QED
    BY <1>7, <2>4, <2>6, AfterStep
<1>8. CASE group_info' = Store(g, o.info) /\ timing' = Start(D, Notify(o).started)
  <2>1. I \in GaddrInfo /\ SameButOhpt(I, c.info)
    BY <1>5 DEF GaddrInfo, SameButOhpt
  <2>2. o = [c EXCEPT !.info = I]
    OBVIOUS
  <2> HIDE DEF I, o
  <2>3. o \in Ctx /\ o.info = I /\ o.started = {}
    BY <1>4, <2>1, <2>2 DEF Ctx
  <2>4. timing' = Start(D, o.started)
    BY <1>8, <2>3, NotifyLemma
  <2>5. Fresh(o.started)
    BY <2>3 DEF Fresh
  <2>6. QED
    BY <1>7, <1>8, <2>1, <2>3, <2>4, <2>5
<1>9. CASE /\ ~ is_newest_version(v)
           /\ group_info' = Store(g, n.info) /\ timing' = Start(D, n.started)
  <2>1. v + 1 \in 1 .. NewestVersion
    BY <1>5, <1>9, VersionAssumption DEF is_newest_version
  <2>2. H \in GaddrInfo /\ SameButOhpt(H, c.info)
    BY <1>5, <2>1 DEF GaddrInfo, SameButOhpt
  <2> HIDE DEF H
  <2>3. J \in GaddrInfo /\ SameButOhpt(J, c.info)
    BY <1>6, <2>2 DEF GaddrInfo, SameButOhpt
  <2> HIDE DEF J
  <2>4. n \in Ctx /\ n.info = J /\ n.started = {ohpt}
    BY <1>4, <1>6, <2>3 DEF Ctx
  <2> HIDE DEF n
  <2>5. Fresh(n.started)
    BY <1>6, <2>4 DEF Fresh
  <2>6. QED
    BY <1>7, <1>9, <2>3, <2>4, <2>5
<1>10. QED
  BY <1>2, <1>8, <1>9

(* Dropping a timer nobody points to.                                      *)
LEMMA OutdatedInTime ==
    ASSUME IInv, TimeInv, IInv', NEW t \in DOMAIN timing, OutdatedTimer(t)
    PROVE  TimeInv'
<1>1. /\ DOMAIN timing' \subseteq DOMAIN timing
      /\ \A u \in DOMAIN timing' : timing'[u] = timing[u]
      /\ group_info' = group_info
  BY DEF OutdatedTimer, Start
<1>2. NoTimer \notin DOMAIN timing
  BY NullAssumption DEF IInv, TypeOK
<1>3. InTime'
  BY <1>1 DEF TimeInv, InTime
<1>4. ASSUME NEW h \in DOMAIN group_info PROVE Lasts(group_info[h], timing')
  <2> DEFINE i == group_info[h]
             tm == timing'
  <2>1. Lasts(i, timing)
    BY DEF TimeInv
  <2>2. GroupOK(i, h, DOMAIN tm)
    BY <1>1 DEF IInv, GroupsOK
  <2>3. \A u \in DOMAIN tm : tm[u] = timing[u]
    BY <1>1
  <2> HIDE DEF i, tm
  <2>4. Lasts(i, tm)
    BY <1>2, <2>1, <2>2, <2>3, Transfer
  <2>5. QED
    BY <2>4 DEF i, tm
<1>5. QED
  BY <1>1, <1>3, <1>4 DEF TimeInv

(* Time passes for all timers alike, and not beyond the bound.             *)
LEMMA TickInTime ==
    ASSUME IInv, TimeInv, Tick
    PROVE  TimeInv'
<1>1. /\ DOMAIN timing' = DOMAIN timing
      /\ \A t \in DOMAIN timing : /\ timing[t] > - MaxLate
                                  /\ timing'[t] = timing[t] - 1
      /\ group_info' = group_info
  BY DEF Tick
<1>2. \A t \in DOMAIN timing : timing[t] \in Int
  BY DEF IInv, TypeOK
<1>3. MaxLate \in Int /\ LLQT \in Int
  BY Delays
<1>4. InTime'
  BY <1>1, <1>2, <1>3 DEF InTime
<1>5. ASSUME NEW t, NEW u, NEW n \in Int, Ahead(timing, t, u, n)
      PROVE  Ahead(timing', t, u, n) /\ timing'[u] = timing[u] - 1
  <2>1. Lag(n) \in Int
    BY LagFacts
  <2>2. QED
    BY <1>1, <1>2, <1>5, <2>1 DEF Ahead
<1>6. ASSUME NEW h \in DOMAIN group_info PROVE Lasts(group_info[h], timing')
  <2> DEFINE i == group_info[h]
             n == i.group_retransmission_count
             u == i.group_retransmission_timer
             L == i.include_requested_list
  <2>1. Lasts(i, timing) /\ i \in GaddrInfo
    BY DEF TimeInv, IInv, TypeOK
  <2>2. n \in Int /\ \A s \in DOMAIN L : L[s].retransmission_count \in Int
    <3>1. L \in SourceList /\ n \in Int
      BY <2>1 DEF GaddrInfo
    <3>2. QED
      BY <3>1, SourceListElim DEF Source
  <2>3. GroupPart(i, timing')
    <3>1. SUFFICES ASSUME n > 0
                   PROVE  /\ Ahead(timing', i.shared_filter_timer, u, n)
                          /\ LLQT > timing'[u] + Lag(n)
      BY DEF GroupPart
    <3>2. /\ Ahead(timing, i.shared_filter_timer, u, n)
          /\ LLQT > timing[u] + Lag(n)
      BY <2>1, <3>1 DEF Lasts, GroupPart
    <3>3. /\ Ahead(timing', i.shared_filter_timer, u, n)
          /\ timing'[u] = timing[u] - 1
      BY <1>5, <2>2, <3>2
    <3>4. timing[u] \in Int /\ Lag(n) \in Int
      BY <1>2, <2>2, <3>2, LagFacts DEF Ahead
    <3>5. QED
      BY <1>3, <3>2, <3>3, <3>4
  <2>4. SourcePart(i, timing')
    BY <1>5, <2>1, <2>2 DEF Lasts, SourcePart
  <2>5. QED
    BY <2>3, <2>4 DEF Lasts
<1>7. QED
  BY <1>1, <1>4, <1>6 DEF TimeInv

-----------------------------------------------------------------------------
(* Every step keeps the timers in their order.                             *)
LEMMA NextInTime ==
    ASSUME Punctual, IInv, TimeInv, IInv', [Next]_vars
    PROVE  TimeInv'
<1>1. CASE ReceiveRecord
  <2>1. PICK g \in Groups, v \in RecordVersions :
           \E r \in Records(v) : receive_record(g, v, r[1], r[2])
    BY <1>1 DEF ReceiveRecord
  <2>2. PICK r \in Records(v) : receive_record(g, v, r[1], r[2])
    BY <2>1
  <2>3. r[1] \in RecordTypes /\ r[2] \in SUBSET Sources
    BY RecordsType
  <2>4. QED
    BY <2>2, <2>3, ReceiveRecordInTime
<1>2. CASE TimerTriggered
  <2>1. PICK t \in DOMAIN timing : timer_triggerd(t)
    BY <1>2 DEF TimerTriggered
  <2>2. QED
    BY <2>1, OutdatedInTime, FilterTimerInTime, SourceTimerInTime, RetGroupTimerInTime,
       RetSourceTimerInTime, OlderHostTimerInTime DEF timer_triggerd
<1>3. CASE Tick
  BY <1>3, TickInTime
<1>4. CASE UNCHANGED vars
  BY <1>4 DEF vars, TimeInv, InTime
<1>5. QED
  BY <1>1, <1>2, <1>3, <1>4 DEF Next

(* With punctual timers no filter or source timer of a group in            *)
(* retransmission is ever behind the retransmissions left.                 *)
THEOREM TimersInOrder ==
    ASSUME Punctual
    PROVE  Spec => []TimeInv
<1>1. Init => TimeInv
  BY DEF Init, TimeInv, InTime
<1>2. IInv /\ TimeInv /\ IInv' /\ [Next]_vars => TimeInv'
  BY NextInTime
<1>3. QED
  BY <1>1, <1>2, Invariance, PTL DEF Spec

(* send_Q never follows the null pointer of a filter timer that is gone:   *)
(* as long as the timers are punctual, a group whose queries are not all   *)
(* sent has its filter timer.  QuerierLateRetransmission.cfg shows what    *)
(* happens when they are not.                                              *)
THEOREM FilterTimerIsThere ==
    ASSUME Punctual
    PROVE  Spec => []RetransmissionHasFilterTimer
<1>1. IInv /\ TimeInv => RetransmissionHasFilterTimer
  <2>1. SUFFICES ASSUME IInv, TimeInv, NEW g \in DOMAIN group_info,
                        group_info[g].group_retransmission_count > 0
                 PROVE  group_info[g].shared_filter_timer # NoTimer
    BY DEF RetransmissionHasFilterTimer
  <2>2. group_info[g].shared_filter_timer \in DOMAIN timing
    BY <2>1 DEF TimeInv, Lasts, GroupPart, Ahead
  <2>3. QED
    BY <2>1, <2>2, NullAssumption DEF IInv, TypeOK
<1>2. QED
  BY <1>1, TimersInOrder, Invariance, PTL

(* RFC 3810 7.6.3 for every number of queries and every delay below the    *)
(* bound: no source and no EXCLUDE membership is given up before all its   *)
(* Last Listener Queries have been sent.                                   *)
THEOREM QueriesComeFirst ==
    ASSUME Punctual
    PROVE  Spec => QueriedBeforeExpiry
<1>1. IInv /\ TimeInv => ExpiryAfterQueries
  <2>1. SUFFICES ASSUME IInv, TimeInv, NEW t \in DOMAIN timing
                 PROVE  /\ timer_triggerd_source_timer(t) =>
                             \A s \in DOMAIN group_info[t.gaddr].include_requested_list :
                                group_info[t.gaddr].include_requested_list[s].shared_source_timer = t
                                => group_info[t.gaddr].include_requested_list[s].retransmission_count <= 0
                        /\ timer_triggerd_filter_timer(t) =>
                             group_info[t.gaddr].group_retransmission_count <= 0
    BY DEF ExpiryAfterQueries
  <2> DEFINE i == group_info[t.gaddr]
             L == i.include_requested_list
  <2>2. ASSUME timer_triggerd_source_timer(t), NEW s \in DOMAIN L,
               L[s].shared_source_timer = t
        PROVE  L[s].retransmission_count <= 0
    <3>1. Due(t) /\ t.gaddr \in DOMAIN group_info
      BY <2>2 DEF timer_triggerd_source_timer
    <3>2. L[s].retransmission_count \in Int /\ ~ (L[s].retransmission_count > 0)
      BY <2>1, <2>2, <3>1, SourceExpiry
    <3>3. QED
      BY <3>2
  <2>3. ASSUME timer_triggerd_filter_timer(t)
        PROVE  i.group_retransmission_count <= 0
    <3>1. t.gaddr \in DOMAIN group_info
      BY <2>3 DEF timer_triggerd_filter_timer
    <3>2. i.group_retransmission_count \in Int
      BY <2>1, <3>1 DEF IInv, TypeOK, GaddrInfo
    <3>3. ~ (i.group_retransmission_count > 0)
      BY <2>1, <2>3, FilterExpiry
    <3>4. QED
      BY <3>2, <3>3
  <2>4. QED
    BY <2>2, <2>3
<1>2. QED
  BY <1>1, TimersInOrder, Invariance, PTL DEF QueriedBeforeExpiry
=============================================================================
