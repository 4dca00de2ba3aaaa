------------------------------- MODULE Queries -------------------------------
(***************************************************************************)
(* The queries of one downstream interface, from the timers and values the *)
(* configuration chooses to the answers of a listener on the link          *)
(* (timers_values.cpp, querier.cpp, igmp_sender.cpp, mld_sender.cpp).      *)
(*                                                                         *)
(* Time passes in ticks of Millis milliseconds.  The link is lossy, and a  *)
(* send may fail.  The listener is external: it answers a query it hears   *)
(* after a delay below the maximum response time the query announces.  Of  *)
(* the membership database, whose details are in Querier, only the filter  *)
(* timer of the listener's group and the cycle of its queries are kept.    *)
(***************************************************************************)
EXTENDS Codes, FiniteSets

CONSTANTS Protocols,   \* of the instance: "IGMPv3" or "MLDv2"
          Choices,     \* what a caller may do with the setters
          Millis,      \* milliseconds of a tick
          Intervals,   \* sample intervals for the codes
          MaxLeaves    \* bound: leave records of other listeners

Tank == [robustness_variable : Nat, query_interval : Nat, query_response_interval : Nat,
         startup_query_interval : Nat, startup_query_count : Nat,
         last_listener_query_interval : Nat, last_listener_query_count : Nat]

(* seconds, except for the two intervals in milliseconds *)
default_timers_values_tank ==
    [robustness_variable |-> 2, query_interval |-> 125, query_response_interval |-> 10000,
     startup_query_interval |-> 31, startup_query_count |-> 2,
     last_listener_query_interval |-> 1000, last_listener_query_count |-> 2]

(* The setters called, if any, and the values they leave. *)
Choice == [setters : BOOLEAN, tank : Tank]

ASSUME QueriesAssumption ==
    /\ Protocols \subseteq {"IGMPv3", "MLDv2"}
    /\ Choices \subseteq Choice
    /\ \A c \in Choices : c.setters \/ c.tank = default_timers_values_tank
    /\ Millis \in Nat \ {0}
    /\ Intervals \subseteq Nat /\ MaxLeaves \in Nat

VARIABLES protocol, choice,
          tanks,      \* heap: the timers_values_tank objects, NoTank once freed
          objects,    \* the timers_values objects that exist
          querier,    \* "none", "running", or "failed" when its constructor threw
          startup_query_count, general_query_timer,
          query,      \* the last query sent
          filter_timer, group_retransmission_timer, group_retransmission_count,
          answer,     \* when the listener answers
          lost,       \* general queries and answers lost since one arrived
          leaves

values == <<protocol, choice, tanks, objects>>
cycle  == <<querier, startup_query_count, general_query_timer>>
vars   == <<values, cycle, query, filter_timer, group_retransmission_timer,
            group_retransmission_count, answer, lost, leaves>>

None == -1   \* a timer that is not set
Over == -2   \* a timer that was handled and that nothing replaced
Timer == Nat \cup {None}
Ticks(msec) == msec \div Millis
Seconds(sec) == Ticks(1000 * sec)

(***************************************************************************)
(* Timers and values                                                       *)
(***************************************************************************)
(* the content of a tank that was freed *)
NoTank ==
    [robustness_variable |-> 0, query_interval |-> 0, query_response_interval |-> 0,
     startup_query_interval |-> 0, startup_query_count |-> 0,
     last_listener_query_interval |-> 0, last_listener_query_count |-> 0]

Object == [is_default_timers_values_tank : BOOLEAN, tank : 0 .. 3]
Holders == {"tv", "msg", "querier"}

DefaultObject == [is_default_timers_values_tank |-> TRUE, tank |-> 0]

FreeTank == CHOOSE k \in 1 .. 3 : k \notin DOMAIN tanks

(* The new object is a copy of src: it gets a tank of its own. *)
copy_shallow(holder, src) ==
    /\ objects' = [h \in DOMAIN objects \cup {holder} |->
                       IF h = holder THEN src ELSE objects[h]]
    /\ UNCHANGED tanks

copy(holder, src) ==
    LET o == IF src.is_default_timers_values_tank THEN DefaultObject
             ELSE [is_default_timers_values_tank |-> FALSE, tank |-> FreeTank]
    IN  /\ objects' = [h \in DOMAIN objects \cup {holder} |->
                           IF h = holder THEN o ELSE objects[h]]
        /\ tanks' = [k \in DOMAIN tanks \cup {o.tank} |->
                         IF k \in DOMAIN tanks THEN tanks[k] ELSE tanks[src.tank]]

(* reset_to_default_tank in the destructor *)
Destroyed(holder) ==
    LET o == objects[holder]
    IN  /\ objects' = [h \in DOMAIN objects \ {holder} |-> objects[h]]
        /\ tanks' = IF o.is_default_timers_values_tank THEN tanks
                    ELSE [tanks EXCEPT ![o.tank] = NoTank]

Tv == tanks[objects["querier"].tank]

get_multicast_address_listening_interval(t) ==
    t.robustness_variable * (1000 * t.query_interval) + t.query_response_interval

get_last_listener_query_time(t) ==
    t.last_listener_query_interval * t.last_listener_query_count

(***************************************************************************)
(* The sender                                                              *)
(***************************************************************************)
Queries == [dst : {"all_hosts", "group"}, code : 0 .. 2 ^ 16 - 1, qrv : 0 .. 7,
            qqic : 0 .. 255]

MaxRespCode(ms) == IF protocol = "IGMPv3" THEN maxrespi_to_maxrespc_igmpv3(ms)
                                          ELSE maxrespi_to_maxrespc_mldv2(ms)

MaxRespTime(q) == IF protocol = "IGMPv3" THEN maxrespc_igmpv3_to_maxrespi(q.code)
                                         ELSE maxrespc_mldv2_to_maxrespi(q.code)

(* send_igmpv3_query and send_mldv2_query *)
QueryMessage(t, general) ==
    [dst  |-> IF general THEN "all_hosts" ELSE "group",
     code |-> MaxRespCode(IF general THEN t.query_response_interval
                                     ELSE get_last_listener_query_time(t)),
     qrv  |-> IF t.robustness_variable <= 7 THEN t.robustness_variable ELSE 0,
     qqic |-> qqi_to_qqic(t.query_interval)]

(***************************************************************************)
(* The link                                                                *)
(***************************************************************************)
(* send_Q has lowered the filter timer to left.                            *)
Lowered(t, left) == left # None /\ left <= Ticks(get_last_listener_query_time(t))

(* What the robustness variable is for: one loss less than its value between
   two answers that arrive, and none while the filter timer is lowered. *)
MayLose(t) == lost < t.robustness_variable - 1 /\ ~Lowered(t, filter_timer)

(* A listener with an answer under way keeps the earlier of the two. *)
Heard(q) ==
    /\ query' = q
    /\ \E d \in {0} \cup 1 .. (MaxRespTime(q) - 1) \div Millis :
          answer' = IF answer # None /\ answer < d THEN answer ELSE d
    /\ UNCHANGED lost

(* The send of q fails, or the link loses it. *)
Missed(t, q, ok) ==
    /\ answer = None /\ MayLose(t)
    /\ lost' = lost + 1
    /\ query' = IF ok THEN q ELSE query
    /\ UNCHANGED answer

(***************************************************************************)
(* The querier                                                             *)
(***************************************************************************)
Init ==
    /\ protocol \in Protocols
    /\ choice \in Choices
    /\ tanks = [k \in {0} |-> default_timers_values_tank]
    /\ objects = [h \in {} |-> DefaultObject]
    /\ querier = "none"
    /\ startup_query_count = 0
    /\ general_query_timer = None
    /\ query = QueryMessage(default_timers_values_tank, TRUE)
    /\ filter_timer = None
    /\ group_retransmission_timer = None /\ group_retransmission_count = -1
    /\ answer = None
    /\ lost = 0 /\ leaves = 0

UnchangedLink ==
    UNCHANGED <<query, filter_timer, group_retransmission_timer, group_retransmission_count,
                answer, lost, leaves>>

(* The caller declares its timers_values and calls the setters. *)
Configure ==
    /\ DOMAIN objects = {} /\ querier = "none"
    /\ objects' = [h \in {"tv"} |->
                     [is_default_timers_values_tank |-> ~choice.setters,
                      tank |-> IF choice.setters THEN 1 ELSE 0]]
    /\ tanks' = IF choice.setters
                THEN [k \in {0, 1} |-> IF k = 0 THEN tanks[0] ELSE choice.tank]
                ELSE tanks
    /\ UNCHANGED <<protocol, choice, cycle>> /\ UnchangedLink

(* config_msg(ADD_DOWNSTREAM, ..., tv) *)
SendConfig ==
    /\ "tv" \in DOMAIN objects /\ "msg" \notin DOMAIN objects /\ querier = "none"
    /\ copy("msg", objects["tv"])
    /\ UNCHANGED <<protocol, choice, cycle>> /\ UnchangedLink

(* The local variable goes out of scope, the worker drops the message. *)
Destroy(holder) ==
    /\ holder \in DOMAIN objects
    /\ \/ holder = "tv" /\ ("msg" \in DOMAIN objects \/ querier # "none")
       \/ holder = "msg" /\ querier # "none"
    /\ Destroyed(holder)
    /\ UNCHANGED <<protocol, choice, cycle>> /\ UnchangedLink

(* The timer is set before the query is sent, whatever becomes of the query. *)
send_general_query_if_sent(t, ok) ==
    LET count == IF general_query_timer = None THEN t.startup_query_count - 1
                                               ELSE startup_query_count
    IN  /\ startup_query_count' = IF count > 0 THEN count - 1 ELSE count
        /\ general_query_timer' = IF ~ok THEN None
                                  ELSE IF count > 0 THEN Seconds(t.startup_query_interval)
                                                    ELSE Seconds(t.query_interval)
        /\ \/ ok /\ Heard(QueryMessage(t, TRUE))
           \/ Missed(t, QueryMessage(t, TRUE), ok)

send_general_query(t, ok) ==
    LET count == IF general_query_timer = None THEN t.startup_query_count - 1
                                               ELSE startup_query_count
    IN  /\ startup_query_count' = IF count > 0 THEN count - 1 ELSE count
        /\ general_query_timer' = IF count > 0 THEN Seconds(t.startup_query_interval)
                                               ELSE Seconds(t.query_interval)
        /\ \/ ok /\ Heard(QueryMessage(t, TRUE))
           \/ Missed(t, QueryMessage(t, TRUE), ok)

(* querier::querier: it throws when the router groups cannot be joined or the
   first query is not sent. *)
Construct ==
    /\ querier = "none" /\ "msg" \in DOMAIN objects
    /\ \/ /\ copy("querier", objects["msg"])
          /\ querier' = "running"
          /\ send_general_query(tanks[objects["msg"].tank], TRUE)
       \/ /\ querier' = "failed"
          /\ UNCHANGED <<tanks, objects, startup_query_count, general_query_timer,
                         query, answer, lost>>
    /\ UNCHANGED <<protocol, choice, filter_timer, group_retransmission_timer,
                   group_retransmission_count, leaves>>

timer_triggerd_general_query_timer ==
    /\ querier = "running" /\ general_query_timer = 0
    /\ \E ok \in BOOLEAN : send_general_query(Tv, ok)
    /\ UNCHANGED <<values, querier, filter_timer, group_retransmission_timer,
                   group_retransmission_count, leaves>>

(* The answer of the listener: the filter timer is set anew. *)
Answer ==
    /\ answer = 0
    /\ answer' = None
    /\ \/ /\ filter_timer' = Ticks(get_multicast_address_listening_interval(Tv))
          /\ lost' = 0
       \/ /\ MayLose(Tv)
          /\ lost' = lost + 1
          /\ UNCHANGED filter_timer
    /\ UNCHANGED <<values, cycle, query, group_retransmission_timer,
                   group_retransmission_count, leaves>>

(* send_Q(gaddr, ginfo); timer is what group_retransmission_timer points to.
   It starts a cycle of queries, goes on with one, or ends one.  A query that
   the listener does not need may be lost. *)
send_Q(t, timer) ==
    LET first == timer = None
        count == IF first THEN t.last_listener_query_count ELSE group_retransmission_count
    IN  /\ filter_timer' = IF first THEN Ticks(get_last_listener_query_time(t))
                                    ELSE filter_timer
        /\ IF count > 0
           THEN /\ group_retransmission_count' = count - 1
                /\ group_retransmission_timer' =
                       IF count > 1 THEN Ticks(t.last_listener_query_interval) ELSE timer
                /\ \/ Heard(QueryMessage(t, FALSE))
                   \/ ~Lowered(t, filter_timer') /\ UNCHANGED <<query, answer, lost>>
           ELSE /\ group_retransmission_count' = -1
                /\ group_retransmission_timer' = None
                /\ UNCHANGED <<query, answer, lost>>

(* Another listener leaves. *)
OtherLeaves ==
    /\ leaves < MaxLeaves /\ filter_timer # None
    /\ leaves' = leaves + 1
    /\ send_Q(Tv, group_retransmission_timer)
    /\ UNCHANGED <<values, cycle>>

timer_triggerd_ret_group_timer ==
    /\ group_retransmission_timer = 0
    /\ send_Q(Tv, Over)
    /\ UNCHANGED <<values, cycle, leaves>>

Later(t) == IF t \in {None, Over} THEN t ELSE t - 1

(* timing and worker are prompt here: no time passes while a timer is due.
   A filter timer that is due would mean that the listener is forgotten, which
   ListenersAreKept excludes: the handler of that timer is in module Querier. *)
Tick ==
    /\ querier = "running"
    /\ \A t \in {general_query_timer, filter_timer, group_retransmission_timer, answer} : t # 0
    /\ general_query_timer' = Later(general_query_timer)
    /\ filter_timer' = Later(filter_timer)
    /\ group_retransmission_timer' = Later(group_retransmission_timer)
    /\ answer' = Later(answer)
    /\ UNCHANGED <<values, querier, startup_query_count, query, group_retransmission_count,
                   lost, leaves>>

Next == \/ Configure \/ SendConfig \/ \E h \in Holders : Destroy(h)
        \/ Construct \/ timer_triggerd_general_query_timer
        \/ Answer \/ OtherLeaves \/ timer_triggerd_ret_group_timer
        \/ Tick

(* Time passes, due timers are handled and the main thread reaches the end of
   the scope: nothing else is needed for the queries to go on. *)
Fairness == /\ WF_vars(Tick) /\ WF_vars(timer_triggerd_general_query_timer)
            /\ WF_vars(timer_triggerd_ret_group_timer) /\ WF_vars(Answer)

Spec == Init /\ [][Next]_vars /\ Fairness

(***************************************************************************)
(* Properties                                                              *)
(***************************************************************************)
(* Type invariant; in particular every field of a query fits its width. *)
TypeOK ==
    /\ protocol \in Protocols /\ choice \in Choices
    /\ DOMAIN tanks \subseteq 0 .. 3
    /\ \A k \in DOMAIN tanks : tanks[k] \in Tank
    /\ DOMAIN objects \subseteq Holders
    /\ \A h \in DOMAIN objects : objects[h] \in Object
    /\ querier \in {"none", "running", "failed"}
    /\ {startup_query_count, group_retransmission_count} \subseteq Nat \cup {-1}
    /\ {general_query_timer, filter_timer, answer} \subseteq Timer
    /\ group_retransmission_timer \in Timer \cup {Over}
    /\ query \in Queries
    /\ lost \in Nat /\ leaves \in 0 .. MaxLeaves

(* The timers_values object of the caller and the one in the message end before
   the querier does, in any order, and share the static default tank: still the
   querier works with the values that were configured, in a tank that was not
   freed, and the defaults are never changed (timers_values::operator=,
   set_new_tank, reset_to_default_tank). *)
QuerierKeepsItsValues ==
    /\ tanks[0] = default_timers_values_tank
    /\ querier = "running" => Tv = choice.tank

(* Whatever interval the querier is given, the query never announces more time
   than the router itself waits, and, up to the largest value the code holds,
   loses less than one unit of the mantissa (qqi_to_qqic, maxrespi_to_...);
   except for 32767 ms, whose MLDv2 code is 0.  The codes do not depend on the
   state: they are looked at before the querier starts. *)
CodesRoundDown ==
    querier = "none" =>
        \A x \in Intervals :
            /\ LET y == qqic_to_qqi(qqi_to_qqic(x))
               IN  y <= x /\ (x < 32768 => 16 * (x - y) <= x)
            /\ LET y == MaxRespTime([code |-> MaxRespCode(x)])
               IN  /\ y <= x
                   /\ protocol = "IGMPv3" /\ x < 3276800 => 16 * (x - y) <= x + 1600
                   /\ protocol = "MLDv2" /\ x < 8388608 /\ x # 32767 => 4096 * (x - y) <= x

(* The values of RFC 3810, 9: a listener answers before the next general
   query, and the intervals are a number of ticks. *)
Sensible(t) ==
    /\ t.robustness_variable > 0 /\ t.query_response_interval > 0
    /\ t.query_response_interval <= 1000 * t.startup_query_interval
    /\ t.startup_query_interval <= t.query_interval
    /\ t.last_listener_query_interval > 0 /\ t.last_listener_query_count > 0
    /\ \A msec \in {1000, t.query_response_interval, t.last_listener_query_interval} :
          msec % Millis = 0

(* With sensible values a listener that answers every query it hears is not
   forgotten, although all but one of as many general queries and answers as
   the robustness variable says may be lost, a query may not be sent at all,
   and other listeners leave: the filter timer, set to
   get_multicast_address_listening_interval or lowered by send_Q, outlasts the
   next answer that arrives. *)
ListenersAreKept == filter_timer # 0

(* The general queries never stop, not even when one cannot be sent
   (querier::send_general_query sets the timer before it sends). *)
QueriesGoOn == querier = "running" ~> general_query_timer = 0
==============================================================================
