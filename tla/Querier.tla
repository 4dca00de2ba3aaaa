------------------------------- MODULE Querier -------------------------------
(***************************************************************************)
(* The querier of one downstream interface: its membership database        *)
(* (membership_db.hpp), the reaction to IGMP/MLD group records and the     *)
(* reaction to its own timers (querier.cpp).                               *)
(*                                                                         *)
(* A timer is a heap-allocated message (timer_msg).  The database holds    *)
(* shared pointers to it, the timing thread holds another one until the    *)
(* timer is due, and what a due timer does depends on whether the database *)
(* still points to THIS object.  Timers therefore carry an identity here:  *)
(* the stamp of the handler call that allocated them.  A handler call      *)
(* allocates at most one timer of a type and a delay, so one stamp serves  *)
(* all the timers of a call, and a stamp is free again as soon as nobody   *)
(* points to a timer that carries it.                                      *)
(*                                                                         *)
(* Every handler runs to completion in the worker thread of the proxy      *)
(* instance, hence one action per handler call.  What interleaves is the   *)
(* arrival of records, the passage of time and the delivery of due timers, *)
(* which may come in any order and up to MaxLate time units late.          *)
(***************************************************************************)
EXTENDS Integers

CONSTANTS
    Groups,         \* multicast addresses (gaddr)
    Sources,        \* source addresses
    NoTimer,        \* the null shared_ptr
    Stamps,         \* identities for timers, one per handler call
    NewestVersion,  \* IGMPv3 or MLDv2
    QuerierVersion, \* querier_version_mode of the interface
    RecordVersions, \* protocol versions of the hosts on the link
    LLQI, LLQC,     \* last listener query interval and count
    MALI,           \* multicast address listening interval
    OHPI,           \* older host present interval
    MaxRecords,     \* bound: records received in a behaviour
    MaxLate         \* bound: time units a due timer may wait for delivery

VARIABLES
    group_info,     \* membership database: a function on the known groups
    timing,         \* started, undelivered timers with their remaining time
    published,      \* per group: the membership of the last notification
    sent,           \* the queries sent by the last step
    received        \* number of records received so far

vars == <<group_info, timing, published, sent, received>>

(* Mutant: one interval short, as if the first query needed no answer.      *)
LLQT_short == LLQI * (LLQC - 1)

LLQT == LLQI * LLQC   \* last listener query time

TimerTypes == {"FILTER_TIMER", "SOURCE_TIMER", "RET_GROUP_TIMER",
               "RET_SOURCE_TIMER", "OLDER_HOST_PRESENT_TIMER"}

Timer == [type : TimerTypes, gaddr : Groups,
          delay : {LLQI, LLQT, MALI, OHPI}, stamp : Stamps]

ASSUME TimingAssumption ==
    /\ LLQI \in Nat \ {0}
    /\ LLQC \in Nat
    /\ MALI \in Nat \ {0}
    /\ OHPI \in Nat \ {0}
    /\ MaxLate \in Nat
    /\ MaxRecords \in Nat

ASSUME VersionAssumption ==
    /\ NewestVersion \in Nat \ {0}
    /\ QuerierVersion \in 1 .. NewestVersion
    /\ RecordVersions \subseteq 1 .. NewestVersion

ASSUME NullAssumption == NoTimer \notin Timer

RecordTypes == {"MODE_IS_INCLUDE", "MODE_IS_EXCLUDE", "CHANGE_TO_INCLUDE_MODE",
                "CHANGE_TO_EXCLUDE_MODE", "ALLOW_NEW_SOURCES",
                "BLOCK_OLD_SOURCES"}

FilterModes == {"INCLUDE_MODE", "EXCLUDE_MODE"}

(* A source in a source list of the database: a source whose timer has     *)
(* just been inserted has no timer yet and is in no retransmission.        *)
Source == [shared_source_timer : Timer \cup {NoTimer},
           retransmission_count : -1 .. LLQC]

SourceList == UNION {[S -> Source] : S \in SUBSET Sources}

NewSource == [shared_source_timer |-> NoTimer, retransmission_count |-> -1]

GaddrInfo ==
    [filter_mode : FilterModes,
     shared_filter_timer : Timer \cup {NoTimer},
     compatibility_mode_variable : 1 .. NewestVersion,
     older_host_present_timer : Timer \cup {NoTimer},
     group_retransmission_timer : Timer \cup {NoTimer},
     group_retransmission_count : -1 .. LLQC,
     source_retransmission_timer : Timer \cup {NoTimer},
     include_requested_list : SourceList,
     exclude_list : SUBSET Sources]

(* The neutral record that receive_record inserts for an unknown group.    *)
NeutralInfo ==
    [filter_mode |-> "INCLUDE_MODE",
     shared_filter_timer |-> NoTimer,
     compatibility_mode_variable |-> QuerierVersion,
     older_host_present_timer |-> NoTimer,
     group_retransmission_timer |-> NoTimer,
     group_retransmission_count |-> -1,
     source_retransmission_timer |-> NoTimer,
     include_requested_list |-> [s \in {} |-> NewSource],
     exclude_list |-> {}]

Info(g) == IF g \in DOMAIN group_info THEN group_info[g] ELSE NeutralInfo

Requested(info) == DOMAIN info.include_requested_list

is_newest_version(v) == v = NewestVersion

is_in_backward_compatibility_mode(info) ==
    ~ is_newest_version(info.compatibility_mode_variable)

is_under_backward_compatibility_effects(info) ==
    info.older_host_present_timer # NoTimer

(* What the routing asks for: the membership of a group on this interface. *)
Membership == [mode : FilterModes, slist : SUBSET Sources]

NoMembership == [mode |-> "INCLUDE_MODE", slist |-> {}]

MembershipOf(info) ==
    IF is_under_backward_compatibility_effects(info)
    THEN [mode |-> "EXCLUDE_MODE", slist |-> {}]
    ELSE [mode |-> info.filter_mode,
          slist |-> IF info.filter_mode = "INCLUDE_MODE"
                    THEN Requested(info)
                    ELSE info.exclude_list]

get_group_membership_infos(g) ==
    IF g \in DOMAIN group_info THEN MembershipOf(group_info[g])
                               ELSE NoMembership

-----------------------------------------------------------------------------
(* Timers.                                                                 *)

PointsTo(info, t) ==
    \/ t = info.shared_filter_timer
    \/ t = info.older_host_present_timer
    \/ t = info.group_retransmission_timer
    \/ t = info.source_retransmission_timer
    \/ \E s \in Requested(info) :
          t = info.include_requested_list[s].shared_source_timer

(* Some shared pointer of the database points to the timer: the message    *)
(* that the worker takes from its queue is not unique().                   *)
InUse(t) == \E g \in DOMAIN group_info : PointsTo(group_info[g], t)

FreeStamps ==
    {n \in Stamps :
        /\ \A t \in DOMAIN timing : t.stamp # n
        /\ \A g \in DOMAIN group_info :
              LET i == group_info[g]
                  pointers == {i.shared_filter_timer,
                               i.older_host_present_timer,
                               i.group_retransmission_timer,
                               i.source_retransmission_timer}
                              \cup {i.include_requested_list[s].shared_source_timer :
                                      s \in Requested(i)}
              IN \A t \in pointers \ {NoTimer} : t.stamp # n}

NewStamp == CHOOSE n \in FreeStamps : TRUE

NewTimer(type, g, delay) ==
    [type |-> type, gaddr |-> g, delay |-> delay, stamp |-> NewStamp]

-----------------------------------------------------------------------------
(* A handler call works on a group record, starts timers, sends queries    *)
(* and notifies the routing, in the order of the code.  A context carries  *)
(* these effects from one call to the next:                                *)
(*   info     the gaddr_info as changed so far                             *)
(*   started  the timers given to timing so far                            *)
(*   sent     the queries handed to the sender so far                      *)
(*   view     the membership that the last notification of the group saw   *)

Context(g) == [info |-> Info(g), started |-> {}, sent |-> {},
               view |-> published[g]]

Remaining(c, t) ==
    IF t \in c.started THEN t.delay
    ELSE IF t \in DOMAIN timing THEN timing[t] ELSE 0

(* The clock has moved since a timer was made: a timer of exactly d is     *)
(* below d by the time it is asked.                                        *)
is_remaining_time_greater_than(c, t, d) == Remaining(c, t) >= d /\ t.delay > d

GroupQuery(g, s_flag) ==
    [type |-> "group", gaddr |-> g, s_flag |-> s_flag, slist |-> {}]

SourceQuery(g, s_flag, S) ==
    [type |-> "source", gaddr |-> g, s_flag |-> s_flag, slist |-> S]

Query == [type : {"group", "source"}, gaddr : Groups, s_flag : BOOLEAN,
          slist : SUBSET Sources]

(* Mutant: the callback is not called.                                     *)
Notify_lost(c) == c

(* state_change_notification: the routing reads the membership at once.    *)
Notify(c) == [c EXCEPT !.view = MembershipOf(c.info)]

(* Mutant: the timer is created but not handed to timing.                  *)
mali_filter_unstarted(c, g) ==
    [c EXCEPT !.info.shared_filter_timer = NewTimer("FILTER_TIMER", g, MALI)]

(* mali(gaddr, filter_timer)                                               *)
mali_filter(c, g) ==
    LET ft == NewTimer("FILTER_TIMER", g, MALI) IN
    [c EXCEPT !.info.shared_filter_timer = ft, !.started = @ \cup {ft}]

(* mali(gaddr, slist, tmp_slist): one timer, shared by all the sources.    *)
mali_sources(c, g, S) ==
    LET st == NewTimer("SOURCE_TIMER", g, MALI)
        L  == c.info.include_requested_list
    IN [c EXCEPT
          !.info.include_requested_list =
              [s \in DOMAIN L |->
                  IF s \in S THEN [shared_source_timer |-> st,
                                   retransmission_count |-> -1]
                             ELSE L[s]],
          !.started = IF S = {} THEN @ ELSE @ \cup {st}]

(* send_Q(gaddr, ginfo): the multicast address specific query.             *)
send_Q_group(c, g) ==
    LET i     == c.info
        begin == i.group_retransmission_timer = NoTimer
        ft    == IF begin THEN NewTimer("FILTER_TIMER", g, LLQT)
                          ELSE i.shared_filter_timer
        rt    == NewTimer("RET_GROUP_TIMER", g, LLQI)
        count == IF begin THEN LLQC ELSE i.group_retransmission_count
        lower == IF begin THEN {ft} ELSE {}
        again == IF count > 1 THEN {rt} ELSE {}
    IN IF count > 0
       THEN [c EXCEPT
               !.info = [i EXCEPT
                           !.shared_filter_timer = ft,
                           !.group_retransmission_count = count - 1,
                           !.group_retransmission_timer =
                               IF count > 1 THEN rt ELSE @],
               !.started = @ \cup lower \cup again,
               !.sent = @ \cup
                  {GroupQuery(g, is_remaining_time_greater_than(c, ft, LLQT))}]
       ELSE [c EXCEPT \* reset itself
               !.info = [i EXCEPT
                           !.shared_filter_timer = ft,
                           !.group_retransmission_count = -1,
                           !.group_retransmission_timer = NoTimer],
               !.started = @ \cup lower]

(* Mutant: every source is counted down, in retransmission or not.         *)
send_source_query_uncounted(c, g) ==
    LET L == c.info.include_requested_list IN
    [c EXCEPT !.info.include_requested_list =
        [s \in DOMAIN L |-> [L[s] EXCEPT !.retransmission_count = @ - 1]]]

(* sender.send_mc_addr_and_src_specific_query: one transmission for every  *)
(* source in retransmission, in two queries that differ in the S flag.     *)
send_source_query(c, g) ==
    LET L   == c.info.include_requested_list
        Due == {s \in DOMAIN L : L[s].retransmission_count > 0}
        Hi  == {s \in Due : is_remaining_time_greater_than(
                               c, L[s].shared_source_timer, LLQT)}
    IN [c EXCEPT
          !.info.include_requested_list =
              [s \in DOMAIN L |->
                 IF s \in Due THEN [L[s] EXCEPT !.retransmission_count = @ - 1]
                              ELSE L[s]],
          !.sent = @ \cup (IF Hi # {} THEN {SourceQuery(g, TRUE, Hi)} ELSE {})
                     \cup (IF Due \ Hi # {}
                           THEN {SourceQuery(g, FALSE, Due \ Hi)} ELSE {})]

(* send_Q(gaddr, ginfo, slist, tmp_list, in_retransmission_state): slist   *)
(* is always the requested list of the group.                              *)
send_Q_sources(c, g, S, in_retransmission_state) ==
    LET st   == NewTimer("SOURCE_TIMER", g, LLQT)
        L    == c.info.include_requested_list
        Used == {s \in S \cap DOMAIN L : L[s].retransmission_count < 1}
        low  == [c EXCEPT
                   !.info.include_requested_list =
                      [s \in DOMAIN L |->
                         IF s \in Used THEN [shared_source_timer |-> st,
                                             retransmission_count |-> LLQC]
                                       ELSE L[s]],
                   !.started = IF Used = {} THEN @ ELSE @ \cup {st}]
        out  == send_source_query(low, g)
        M    == out.info.include_requested_list
        rst  == NewTimer("RET_SOURCE_TIMER", g, LLQI)
    IN CASE Used = {} /\ ~ in_retransmission_state -> c
         [] OTHER ->
              IF \E s \in DOMAIN M : M[s].retransmission_count > 0
              THEN [out EXCEPT !.info.source_retransmission_timer = rst,
                               !.started = @ \cup {rst}]
              ELSE out

-----------------------------------------------------------------------------
(* receive_record                                                          *)

(* Mutant: the intersection takes the elements of the right operand.       *)
Times_right(L, S) == [s \in DOMAIN L \cap S |-> NewSource]

(* l += r and l *= r: a source that is already in the list keeps its timer *)
(* and its count.                                                          *)
Plus(L, S)  == [s \in DOMAIN L \cup S |-> IF s \in DOMAIN L THEN L[s]
                                                          ELSE NewSource]
Times(L, S) == [s \in DOMAIN L \cap S |-> L[s]]

(* Mutant: the exclude list is computed but not assigned.                  *)
SetLists_half(c, L, E) == [c EXCEPT !.info.include_requested_list = L]

(* Mutant: the new sources are inserted into the old exclude list.         *)
SetLists_stale(c, L, E) ==
    [c EXCEPT !.info = [@ EXCEPT !.include_requested_list = L,
                                 !.exclude_list = @ \cup E]]

(* The assignments to the two lists of a group.                            *)
SetLists(c, L, E) ==
    [c EXCEPT !.info = [@ EXCEPT !.include_requested_list = L,
                                 !.exclude_list = E]]

SetMode(c, m) == [c EXCEPT !.info.filter_mode = m]

receive_record_in_include_mode(c, g, type, B) ==
    LET A      == c.info.include_requested_list
        added  == SetLists(c, Plus(A, B), c.info.exclude_list)
        exclude == SetMode(SetLists(c, Times(A, B), B \ DOMAIN A),
                           "EXCLUDE_MODE")
    IN CASE type \in {"ALLOW_NEW_SOURCES", "MODE_IS_INCLUDE"} ->
              Notify(mali_sources(added, g, B))
         [] type = "BLOCK_OLD_SOURCES" ->
              send_Q_sources(c, g, DOMAIN A \cap B, FALSE)
         [] type = "CHANGE_TO_EXCLUDE_MODE" ->
              Notify(mali_filter(
                  send_Q_sources(exclude, g, DOMAIN A \cap B, FALSE), g))
         [] type = "CHANGE_TO_INCLUDE_MODE" ->
              Notify(mali_sources(
                  send_Q_sources(added, g, DOMAIN A \ B, FALSE), g, B))
         [] type = "MODE_IS_EXCLUDE" ->
              Notify(mali_filter(exclude, g))

receive_record_in_exclude_mode(c, g, type, A) ==
    LET X     == c.info.include_requested_list
        Y     == c.info.exclude_list
        added == SetLists(c, Plus(X, A), Y \ A)
        only  == SetLists(c, Plus(Times(X, A), A \ Y), Y \cap A)
    IN CASE type \in {"ALLOW_NEW_SOURCES", "MODE_IS_INCLUDE"} ->
              Notify(mali_sources(added, g, A))
         [] type = "BLOCK_OLD_SOURCES" ->
              send_Q_sources(SetLists(c, Plus(X, A \ Y), Y), g, A \ Y, FALSE)
         [] type = "CHANGE_TO_EXCLUDE_MODE" ->
              Notify(mali_filter(
                  send_Q_sources(only, g, Requested(only.info), FALSE), g))
         [] type = "CHANGE_TO_INCLUDE_MODE" ->
              Notify(mali_sources(
                  send_Q_group(
                      send_Q_sources(added, g, (DOMAIN X \cup A) \ A, FALSE), g),
                  g, A))
         [] type = "MODE_IS_EXCLUDE" ->
              Notify(mali_filter(
                  mali_sources(only, g, (A \ DOMAIN X) \ Y), g))

(* Mutant: the older host present timer is not handed to timing.           *)
NoteOlderHost_unstarted(c, g, version) ==
    IF ~ is_newest_version(version) /\ version <= QuerierVersion
    THEN [c EXCEPT !.info = [@ EXCEPT
                       !.compatibility_mode_variable = version,
                       !.older_host_present_timer =
                           NewTimer("OLDER_HOST_PRESENT_TIMER", g, OHPI)]]
    ELSE c

(* Backward compatibility coordination: a record of an older version puts  *)
(* the group into that version's mode for the older host present interval. *)
NoteOlderHost(c, g, version) ==
    LET ohpt == NewTimer("OLDER_HOST_PRESENT_TIMER", g, OHPI) IN
    IF ~ is_newest_version(version) /\ version <= QuerierVersion
    THEN [c EXCEPT !.info = [@ EXCEPT !.compatibility_mode_variable = version,
                                      !.older_host_present_timer = ohpt],
                   !.started = @ \cup {ohpt}]
    ELSE c

(* The record after RFC 3810 8.3.2: in compatibility mode the source list  *)
(* of TO_EX is ignored.                                                    *)
EffectiveList(info, type, S) ==
    IF is_in_backward_compatibility_mode(info) /\ type = "CHANGE_TO_EXCLUDE_MODE"
    THEN {} ELSE S

HandleRecord(c, g, type, S) ==
    LET B == EffectiveList(c.info, type, S) IN
    IF is_in_backward_compatibility_mode(c.info) /\ type = "BLOCK_OLD_SOURCES"
    THEN c
    ELSE IF c.info.filter_mode = "INCLUDE_MODE"
         THEN receive_record_in_include_mode(c, g, type, B)
         ELSE receive_record_in_exclude_mode(c, g, type, B)

(* Mutant: the unused group is not deleted.                                *)
ErasedByRecord_never(before, after, type) == FALSE

(* The group is erased again when a record handled in INCLUDE mode leaves  *)
(* it without sources; a BLOCK ignored in compatibility mode returns       *)
(* before that.                                                            *)
ErasedByRecord(before, after, type) ==
    /\ ~ (is_in_backward_compatibility_mode(before) /\ type = "BLOCK_OLD_SOURCES")
    /\ before.filter_mode = "INCLUDE_MODE"
    /\ after.filter_mode = "INCLUDE_MODE"
    /\ Requested(after) = {}

Store(g, info) == [h \in DOMAIN group_info \cup {g} |->
                      IF h = g THEN info ELSE group_info[h]]

Erase(g) == [h \in DOMAIN group_info \ {g} |-> group_info[h]]

(* Mutant: a timer that would be due together with another one is lost.    *)
Start_keyed(delivered, started) ==
    [t \in (DOMAIN timing \ delivered)
           \cup {u \in started : \A w \in DOMAIN timing : timing[w] # u.delay} |->
        IF t \in started THEN t.delay ELSE timing[t]]

(* timing.add_time for the timers a handler started; a delivered timer is  *)
(* in no queue any more.                                                   *)
Start(delivered, started) ==
    [t \in (DOMAIN timing \ delivered) \cup started |->
        IF t \in started THEN t.delay ELSE timing[t]]

Finish(c, g, delivered) ==
    /\ timing' = Start(delivered, c.started)
    /\ published' = [published EXCEPT ![g] = c.view]
    /\ sent' = c.sent

receive_record(g, version, type, S) ==
    LET c0 == NoteOlderHost(Context(g), g, version)
        c  == HandleRecord(c0, g, type, S)
    IN /\ received < MaxRecords
       /\ FreeStamps # {}
       /\ received' = received + 1
       /\ group_info' = IF ErasedByRecord(c0.info, c.info, type)
                        THEN Erase(g) ELSE Store(g, c.info)
       /\ Finish(c, g, {})

-----------------------------------------------------------------------------
(* timer_triggerd                                                          *)

(* The worker takes the due timer message t from its queue.                *)
Due(t) ==
    /\ t \in DOMAIN timing
    /\ timing[t] <= 0

(* A timer the database no longer points to: the message is unique() and   *)
(* dropped, or its handler finds that another timer took its place.        *)
OutdatedTimer(t) ==
    /\ Due(t)
    /\ ~ InUse(t)
    /\ timing' = Start({t}, {})
    /\ sent' = {}
    /\ UNCHANGED <<group_info, published, received>>

timer_triggerd_filter_timer(t) ==
    LET g == t.gaddr
        c == Context(g)
        include == [SetMode(SetLists(c, c.info.include_requested_list, {}),
                            "INCLUDE_MODE")
                       EXCEPT !.info.shared_filter_timer = NoTimer]
    IN /\ Due(t)
       /\ t.type = "FILTER_TIMER"
       /\ g \in DOMAIN group_info
       /\ t = group_info[g].shared_filter_timer
       /\ group_info[g].filter_mode = "EXCLUDE_MODE"
       /\ IF Requested(c.info) = {}
          THEN /\ group_info' = Erase(g)
               /\ Finish([c EXCEPT !.view = NoMembership], g, {t})
          ELSE /\ group_info' = Store(g, include.info)
               /\ Finish(Notify(include), g, {t})
       /\ UNCHANGED received

(* Expired is empty when an outdated timer is not yet unique(), because    *)
(* the timing thread still holds the reference it has just queued: the     *)
(* handler then changes no source but notifies the routing all the same.   *)
timer_triggerd_source_timer(t) ==
    LET g == t.gaddr
        c == Context(g)
        L == c.info.include_requested_list
        Expired == {s \in DOMAIN L : L[s].shared_source_timer = t}
        Kept    == Times(L, DOMAIN L \ Expired)
        include == SetLists(c, Kept, c.info.exclude_list)
        exclude == SetLists(c, Kept, c.info.exclude_list \cup Expired)
    IN /\ Due(t)
       /\ t.type = "SOURCE_TIMER"
       /\ g \in DOMAIN group_info
       /\ \/ /\ c.info.filter_mode = "INCLUDE_MODE"
             /\ DOMAIN Kept = {}
             /\ group_info' = Erase(g)
             /\ Finish([c EXCEPT !.view = NoMembership], g, {t})
          \/ /\ c.info.filter_mode = "INCLUDE_MODE"
             /\ DOMAIN Kept # {}
             /\ group_info' = Store(g, include.info)
             /\ Finish(Notify(include), g, {t})
          \/ /\ c.info.filter_mode = "EXCLUDE_MODE"
             /\ group_info' = Store(g, exclude.info)
             /\ Finish(Notify(exclude), g, {t})
       /\ UNCHANGED received

(* send_Q reads the filter timer through its pointer: the program ends     *)
(* when a query is left to send and the filter timer is gone.              *)
timer_triggerd_ret_group_timer(t) ==
    LET g == t.gaddr
        c == send_Q_group(Context(g), g)
    IN /\ Due(t)
       /\ t.type = "RET_GROUP_TIMER"
       /\ g \in DOMAIN group_info
       /\ t = group_info[g].group_retransmission_timer
       /\ group_info[g].group_retransmission_count > 0
          => group_info[g].shared_filter_timer # NoTimer
       /\ FreeStamps # {}
       /\ group_info' = Store(g, c.info)
       /\ Finish(c, g, {t})
       /\ UNCHANGED received

timer_triggerd_ret_source_timer(t) ==
    LET g == t.gaddr
        c == send_Q_sources(Context(g), g, {}, TRUE)
    IN /\ Due(t)
       /\ t.type = "RET_SOURCE_TIMER"
       /\ g \in DOMAIN group_info
       /\ t = group_info[g].source_retransmission_timer
       /\ FreeStamps # {}
       /\ group_info' = Store(g, c.info)
       /\ Finish(c, g, {t})
       /\ UNCHANGED received

(* One version newer at a time; after the newest one has been reached      *)
(* sources stay unblocked for another listening interval.                  *)
timer_triggerd_older_host_present_timer(t) ==
    LET g     == t.gaddr
        c     == Context(g)
        newer == c.info.compatibility_mode_variable + 1
        ohpt  == NewTimer("OLDER_HOST_PRESENT_TIMER", g,
                          IF is_newest_version(newer) THEN MALI ELSE OHPI)
        over  == [c EXCEPT !.info.older_host_present_timer = NoTimer]
        next  == [c EXCEPT
                    !.info = [@ EXCEPT !.compatibility_mode_variable = newer,
                                       !.older_host_present_timer = ohpt],
                    !.started = {ohpt}]
    IN /\ Due(t)
       /\ t.type = "OLDER_HOST_PRESENT_TIMER"
       /\ g \in DOMAIN group_info
       /\ t = group_info[g].older_host_present_timer
       /\ FreeStamps # {}
       /\ IF is_newest_version(c.info.compatibility_mode_variable)
          THEN /\ group_info' = Store(g, over.info)
               /\ Finish(Notify(over), g, {t})
          ELSE /\ group_info' = Store(g, next.info)
               /\ Finish(next, g, {t})
       /\ UNCHANGED received

timer_triggerd(t) ==
    \/ OutdatedTimer(t)
    \/ timer_triggerd_filter_timer(t)
    \/ timer_triggerd_source_timer(t)
    \/ timer_triggerd_ret_group_timer(t)
    \/ timer_triggerd_ret_source_timer(t)
    \/ timer_triggerd_older_host_present_timer(t)

-----------------------------------------------------------------------------
Init ==
    /\ group_info = [g \in {} |-> NeutralInfo]
    /\ timing = [t \in {} |-> 0]
    /\ published = [g \in Groups |-> NoMembership]
    /\ sent = {}
    /\ received = 0

(* The records the receivers build: IGMPv3/MLDv2 reports carry any record, *)
(* the older versions know a report without sources and a leave.           *)
Records(version) ==
    IF is_newest_version(version)
    THEN RecordTypes \X SUBSET Sources
    ELSE {"MODE_IS_EXCLUDE", "CHANGE_TO_INCLUDE_MODE"} \X {{}}

(* Time passes for all the timers at once.  MaxLate bounds how long a due  *)
(* timer may wait in the queue of the worker.                              *)
Tick ==
    /\ \A t \in DOMAIN timing : timing[t] > - MaxLate
    /\ timing' = [t \in DOMAIN timing |-> timing[t] - 1]
    /\ sent' = {}
    /\ UNCHANGED <<group_info, published, received>>

ReceiveRecord ==
    \E g \in Groups, v \in RecordVersions :
        \E r \in Records(v) : receive_record(g, v, r[1], r[2])

TimerTriggered == \E t \in DOMAIN timing : timer_triggerd(t)

Next == ReceiveRecord \/ TimerTriggered \/ Tick

Spec == Init /\ [][Next]_vars

(* The timing thread and the worker thread keep running and time passes.   *)
Fairness == WF_vars(Tick) /\ WF_vars(TimerTriggered)

FairSpec == Spec /\ Fairness

-----------------------------------------------------------------------------
(* Properties.                                                             *)

(* The database, the pending timers and the published memberships are well *)
(* formed: every pointer is null or a timer, every count is in its range.  *)
TypeOK ==
    /\ DOMAIN group_info \subseteq Groups
    /\ \A g \in DOMAIN group_info : group_info[g] \in GaddrInfo
    /\ DOMAIN timing \subseteq Timer
    /\ \A t \in DOMAIN timing : timing[t] \in Int
    /\ published \in [Groups -> Membership]
    /\ sent \subseteq Query
    /\ received \in 0 .. MaxRecords

Running(t, type, g) ==
    /\ t \in DOMAIN timing
    /\ t.type = type
    /\ t.gaddr = g

(* "you create a zombie in X (without a running timer)": every source of   *)
(* every include or requested list has a running source timer of its       *)
(* group, so it cannot be forwarded for ever.                              *)
NoZombieSource ==
    \A g \in DOMAIN group_info :
        \A s \in Requested(group_info[g]) :
            Running(group_info[g].include_requested_list[s].shared_source_timer,
                    "SOURCE_TIMER", g)

(* A group in EXCLUDE mode has a running filter timer and keeps its two    *)
(* lists apart; a group in INCLUDE mode has neither filter timer nor       *)
(* exclude list (RFC 3810 7.2, as quoted in timer_triggerd_filter_timer).  *)
FilterModeInv ==
    \A g \in DOMAIN group_info :
        LET i == group_info[g] IN
        IF i.filter_mode = "EXCLUDE_MODE"
        THEN /\ Running(i.shared_filter_timer, "FILTER_TIMER", g)
             /\ Requested(i) \cap i.exclude_list = {}
        ELSE /\ i.shared_filter_timer = NoTimer
             /\ i.exclude_list = {}

(* source_retransmission_timer "runs as long as a source in                *)
(* include_requested_list has an retransmission timer greater than zero";  *)
(* likewise a group in retransmission has its next query scheduled.        *)
RetransmissionScheduled ==
    \A g \in DOMAIN group_info :
        LET i == group_info[g] IN
        /\ (\E s \in Requested(i) :
               i.include_requested_list[s].retransmission_count > 0)
           => Running(i.source_retransmission_timer, "RET_SOURCE_TIMER", g)
        /\ i.group_retransmission_count > 0
           => Running(i.group_retransmission_timer, "RET_GROUP_TIMER", g)

(* A group in an older version's mode, or still under its effects, has a   *)
(* running older host present timer that ends it (membership_db.hpp).      *)
CompatibilityEnds ==
    \A g \in DOMAIN group_info :
        LET i == group_info[g] IN
        is_in_backward_compatibility_mode(i)
          \/ is_under_backward_compatibility_effects(i)
        => Running(i.older_host_present_timer, "OLDER_HOST_PRESENT_TIMER", g)

(* The group specific query reads the remaining time of the filter timer:  *)
(* no retransmission is left when a filter timer is gone, or send_Q would  *)
(* follow a null pointer.                                                  *)
RetransmissionHasFilterTimer ==
    \A g \in DOMAIN group_info :
        group_info[g].group_retransmission_count > 0
        => group_info[g].shared_filter_timer # NoTimer

(* The routing acts on the membership it read at the last notification:    *)
(* every change of a group's membership has been notified.                 *)
PublishedIsCurrent ==
    \A g \in Groups : published[g] = get_group_membership_infos(g)

Accepted(m) == IF m.mode = "INCLUDE_MODE" THEN m.slist ELSE Sources \ m.slist

(* No listener is cut off: what the routing was told to forward contains   *)
(* all that the database asks for, older hosts included.                   *)
PublishedCoversCurrent ==
    \A g \in Groups :
        Accepted(get_group_membership_infos(g)) \subseteq Accepted(published[g])

(* The queries left for a membership when its timer expires: none for the  *)
(* sources that share the timer, none for the group of a filter timer.     *)
ExpiryAfterQueries ==
    \A t \in DOMAIN timing :
       /\ timer_triggerd_source_timer(t) =>
             LET L == group_info[t.gaddr].include_requested_list IN
             \A s \in DOMAIN L : L[s].shared_source_timer = t
                                 => L[s].retransmission_count <= 0
       /\ timer_triggerd_filter_timer(t) =>
             group_info[t.gaddr].group_retransmission_count <= 0

(* RFC 3810 7.6.3: a source or an EXCLUDE membership is given up only      *)
(* after all its Last Listener Queries have been sent: no timer expires in *)
(* the middle of a retransmission.                                         *)
QueriedBeforeExpiry == [][ExpiryAfterQueries]_vars

(* The refinement mapping: a group without a record is in INCLUDE mode     *)
(* without sources.                                                        *)
FilterStateOf(g) ==
    [mode |-> Info(g).filter_mode,
     requested |-> Requested(Info(g)),
     excluded |-> Info(g).exclude_list]

RFC3810 == INSTANCE FilterState WITH state <- [g \in Groups |-> FilterStateOf(g)]

(* The lists and modes of the database change as the tables of RFC 3810    *)
(* 7.2 to 7.4 say: the querier implements the router filter state.         *)
ImplementsFilterState == RFC3810!Spec

(* Step by step: a record changes the lists and the mode as its own row of *)
(* the tables says (an older host on the link empties the list of TO_EX    *)
(* and BLOCK), a filter timer ends EXCLUDE mode, and a source timer expires*)
(* exactly the sources that share it.                                      *)
StepFollowsTables ==
    /\ \A g \in Groups, v \in RecordVersions :
          \A r \in Records(v) :
             receive_record(g, v, r[1], r[2]) =>
                RFC3810!Report(g, r[1],
                   IF /\ is_in_backward_compatibility_mode(
                            NoteOlderHost(Context(g), g, v).info)
                      /\ r[1] \in {"CHANGE_TO_EXCLUDE_MODE", "BLOCK_OLD_SOURCES"}
                   THEN {} ELSE r[2])
    /\ \A t \in DOMAIN timing :
          /\ timer_triggerd_filter_timer(t) => RFC3810!FilterExpires(t.gaddr)
          /\ timer_triggerd_source_timer(t) =>
                LET L == Info(t.gaddr).include_requested_list IN
                RFC3810!SourcesExpire(t.gaddr,
                   {s \in DOMAIN L : L[s].shared_source_timer = t})

(* All steps are of this kind: the handler calls follow RFC 3810 7.2 to    *)
(* 7.4 record by record and timer by timer.                                *)
StepsFollowTables == [][StepFollowsTables]_vars

(* When no more reports come, every membership times out and its group     *)
(* leaves the database: nothing is forwarded for ever.                     *)
MembershipsTimeOut == <>[](DOMAIN group_info = {})

(* "if the new created group is not used delete it": a group in INCLUDE    *)
(* mode without sources is not kept in the database.                       *)
NoUnusedGroup ==
    \A g \in DOMAIN group_info :
        group_info[g].filter_mode = "INCLUDE_MODE" => Requested(group_info[g]) # {}
=============================================================================
