------------------------------ MODULE MCQueries ------------------------------
(* The values of proxy::start_proxy_instances, where no setter is called, and
   those of proxy_instance::test_querier. *)
EXTENDS Queries

NoSetters == [setters |-> FALSE, tank |-> default_timers_values_tank]
TestQuerier ==
    [setters |-> TRUE,
     tank |-> [default_timers_values_tank EXCEPT
                 !.query_interval = 10, !.startup_query_interval = 10,
                 !.startup_query_count = 4, !.query_response_interval = 4000]]
(* A link with more losses. *)
Robust ==
    [setters |-> TRUE,
     tank |-> [robustness_variable |-> 3, query_interval |-> 4,
               query_response_interval |-> 2000, startup_query_interval |-> 2,
               startup_query_count |-> 3, last_listener_query_interval |-> 1000,
               last_listener_query_count |-> 3]]
MCChoices == {NoSetters, TestQuerier, Robust}
ASSUME ChoicesAreSensible == \A c \in MCChoices : Sensible(c.tank)

(* Every power of two, its neighbours, and values between. *)
MCIntervals == UNION {{2 ^ p - 1, 2 ^ p, 2 ^ p + 1, 2 ^ p + 2 ^ p \div 3} : p \in 0 .. 30}
               \cup {125, 1000, 4000, 10000, 12799, 12800, 12801}
==============================================================================
