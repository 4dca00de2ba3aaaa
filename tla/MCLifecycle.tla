----------------------------- MODULE MCLifecycle -----------------------------
(* Configurations for Lifecycle, with at most two instances.               *)
EXTENDS Lifecycle

Def(up, down, selected, n, settings) ==
    [up |-> up, down |-> down, selected |-> selected, number |-> n, settings |-> settings]

(* One instance; interfaces shared by two; a table chosen and one counted; *)
(* chosen and counted tables that collide; an interface in both roles; one *)
(* that is down; more interfaces than virtual ones; an upstream repeated.  *)
MCDefinitions ==
    { <<Def(<<"a", "b">>, <<"c">>, FALSE, 0, {<<"IT_UPSTREAM", "ID_IN", "RMT_MUTEX">>,
                                              <<"IT_DOWNSTREAM", "ID_IN", "RMT_ALL">>})>>,
      <<Def(<<"a">>, <<"c">>, FALSE, 0, {}), Def(<<"a">>, <<"b">>, FALSE, 0, {})>>,
      <<Def(<<"a">>, <<"t">>, TRUE, 3, {}), Def(<<>>, <<"c", "b">>, FALSE, 0, {})>>,
      <<Def(<<"a">>, <<"b">>, FALSE, 0, {}), Def(<<"c">>, <<"b">>, TRUE, 1, {})>>,
      <<Def(<<"b", "a">>, <<"a">>, TRUE, 2, {<<"IT_UPSTREAM", "ID_OUT", "RMT_FIRST">>})>>,
      <<Def(<<"a">>, <<"b">>, FALSE, 0, {}), Def(<<"x">>, <<"c">>, FALSE, 0, {})>>,
      <<Def(<<"a", "t">>, <<"b", "c">>, FALSE, 0, {})>>,
      <<Def(<<"a", "b", "a">>, <<"c">>, FALSE, 0, {})>> }

(* Reverse path filters: all on; or of all kinds, with one out of reach.   *)
MCFilters ==
    {[flags |-> [x \in RpNames |-> 1], locked |-> {}],
     [flags |-> [x \in RpNames |-> IF x \in {"a", "all"} THEN 0 ELSE 2], locked |-> {"b"}]}
=============================================================================
