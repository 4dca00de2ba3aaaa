--------------------------- MODULE MCConfiguration ---------------------------
(***************************************************************************)
(* A set of commands for Configuration: the printed forms of syntax trees, *)
(* and every sequence of tokens one edit away from them that is not a      *)
(* command.  What a command is comes from references/parser/script_ebnf,   *)
(* with the deviations that a configuration of TLC allows the parser.      *)
(***************************************************************************)
EXTENDS Configuration, Script

CONSTANTS PrefixLengths,  \* the prefix lengths of an IPv4 source
          PrefixLengths6, \* the prefix lengths of an IPv6 source
          Deviations      \* from script_ebnf, a subset of ParserDeviations

K(type)   == [type |-> type, string |-> ""]
Str(name) == [type |-> "TT_STRING", string |-> name]
NameOrStar(s) == IF s = "*" THEN K("TT_STAR") ELSE Str(s)

(* Words of 2 bits: IPv4 has 4 addresses, IPv6 has 256.                    *)
V4(n) == [family |-> "AF_INET", words |-> <<n>>]
V6(a, b, c, d) == [family |-> "AF_INET6", words |-> <<a, b, c, d>>]
MCNumber == [s \in {"0", "1", "2", "3", "8", "9"} |->
                CASE s = "0" -> 0 [] s = "1" -> 1 [] s = "2" -> 2
                  [] s = "3" -> 3 [] s = "8" -> 8 [] s = "9" -> 9]
MCAddrOf == [s \in {"g", "s", "r", "g6", "s6"} |->
                CASE s = "g" -> V4(1) [] s = "s" -> V4(2) [] s = "r" -> V4(3)
                  [] s = "g6" -> V6(3, 0, 0, 1) [] s = "s6" -> V6(1, 2, 1, 0)]
MCPackets ==
    [if_name : {"u", "d"}, gaddr : {V4(1), V4(2)}, saddr : {V4(1), V4(2), V4(3)}]
    \cup [if_name : {"u", "d"}, gaddr : {V6(3, 0, 0, 1)},
          saddr : {V6(1, b, c, d) : b \in {0, 2, 3}, c \in {0, 1, 2}, d \in {0, 3}}]

------------------------------------------------------------------------------
Part(from)         == [sort |-> "addr", from |-> from, to |-> "*", prefix |-> 0]
Net(from, n)       == [sort |-> "net", from |-> from, to |-> "*", prefix |-> MCNumber[n]]
Interval(from, to) == [sort |-> "range", from |-> from, to |-> to, prefix |-> 0]
Rule(i, g, s) == [sort |-> "rule", if_name |-> i, group |-> g, source |-> s]
Ref(name)     == [sort |-> "ref", name |-> name]
Nested(rules) == [sort |-> "nested", rules |-> rules]
Path(name)    == [sort |-> "path", name |-> name]

Numeral(n) == CHOOSE s \in DOMAIN MCNumber : MCNumber[s] = n
PartTokens(p) ==
    CASE p.sort = "addr"  -> <<NameOrStar(p.from)>>
      [] p.sort = "net"   -> <<NameOrStar(p.from), K("TT_SLASH"), Str(Numeral(p.prefix))>>
      [] p.sort = "range" -> <<NameOrStar(p.from), K("TT_RANGE"), NameOrStar(p.to)>>

RECURSIVE RuleTokens(_), RulesTokens(_)
RuleTokens(r) ==
    (IF r.sort = "rule" /\ r.if_name # "" THEN <<Str(r.if_name)>> ELSE <<>>)
    \o <<K("TT_LEFT_BRACKET")>>
    \o (CASE r.sort = "rule" -> PartTokens(r.group) \o <<K("TT_PIPE")>> \o PartTokens(r.source)
          [] r.sort = "ref" -> <<K("TT_TABLE"), Str(r.name)>>
          [] r.sort = "path" -> <<Str(r.name)>>
          [] r.sort = "nested" -> <<K("TT_TABLE"), K("TT_LEFT_BRACE")>>
                                  \o RulesTokens(r.rules) \o <<K("TT_RIGHT_BRACE")>>)
    \o <<K("TT_RIGHT_BRACKET")>>
RulesTokens(rules) ==
    IF rules = <<>> THEN <<>> ELSE RuleTokens(Head(rules)) \o RulesTokens(Tail(rules))

(* "table name", where the table has been defined, or a table in place.    *)
TableTokens(name, rules) ==
    IF name = "" /\ Len(rules) = 1 /\ rules[1].sort = "ref"
    THEN <<K("TT_TABLE"), Str(rules[1].name)>>
    ELSE <<K("TT_TABLE")>> \o (IF name = "" THEN <<>> ELSE <<Str(name)>>)
         \o <<K("TT_LEFT_BRACE")>> \o RulesTokens(rules) \o <<K("TT_RIGHT_BRACE")>>
Names(list) == [i \in DOMAIN list |-> Str(list[i])]

Tokens(a) ==
    CASE a.kind = "protocol" -> <<K("TT_PROTOCOL"), K(a.gmp)>>
      [] a.kind = "disable" -> <<K("TT_DISABLE")>>
      [] a.kind = "instance" ->
            <<K("TT_PINSTANCE"), Str(a.name)>>
            \o (IF a.number = "" THEN <<>>
                ELSE <<K("TT_LEFT_BRACKET"), Str(a.number), K("TT_RIGHT_BRACKET")>>)
            \o <<K("TT_DOUBLE_DOT")>> \o Names(a.up) \o <<K("TT_ARROW")>> \o Names(a.down)
      [] a.kind = "table" -> TableTokens(a.name, a.rules)
      [] a.kind \in {"filter", "matching"} ->
            <<K("TT_PINSTANCE"), Str(a.inst),
              K(IF a.type = "IT_UPSTREAM" THEN "TT_UPSTREAM" ELSE "TT_DOWNSTREAM"),
              NameOrStar(a.if_name), K(IF a.direction = "ID_IN" THEN "TT_IN" ELSE "TT_OUT")>>
            \o (IF a.kind = "filter" THEN <<K(a.list)>> \o TableTokens("", a.rules)
                ELSE <<K("TT_RULE_MATCHING"), K(a.matching)>>
                     \o (IF a.matching = "TT_MUTEX" THEN <<Str(a.number)>> ELSE <<>>))

------------------------------------------------------------------------------
(***************************************************************************)
(* The grammar of script_ebnf on token types, by splitting.  The parser    *)
(* deviates from it (no Deviations: as documented): it does not know       *)
(*   path     a rule box that is a path in brackets (line 19),             *)
(*   disable  the command "disable" (line 4; it is a token and no more),   *)
(* and it knows besides                                                    *)
(*   prefix   a group with a prefix (line 22),                             *)
(*   number   the number of a kernel table in an instance (line 10),       *)
(*   star     "*" as the interface of a binding (line 12),                 *)
(*   nameless a table without a name, empty: one without rules (line 18),  *)
(*   named    an interface in front of a table in brackets (line 19).      *)
(***************************************************************************)
ParserDeviations ==
    {"path", "disable", "prefix", "number", "star", "nameless", "empty", "named"}

S == "TT_STRING"
Ends == {S, "TT_STAR"}
IsAddress(ts) == Len(ts) = 1 /\ ts[1] \in Ends
IsRange(ts) ==
    Len(ts) = 3 /\ ts[1] \in Ends /\ ts[2] = "TT_RANGE" /\ ts[3] \in Ends
IsNet(ts) == Len(ts) = 3 /\ ts[1] \in Ends /\ ts[2] = "TT_SLASH" /\ ts[3] = S
IsGroup(ts)  == IsAddress(ts) \/ IsRange(ts) \/ ("prefix" \in Deviations /\ IsNet(ts))
IsSource(ts) == IsAddress(ts) \/ IsRange(ts) \/ IsNet(ts)
Bracketed(ts, open, close) ==
    Len(ts) >= 2 /\ ts[1] = open /\ ts[Len(ts)] = close
Inside(ts) == SubSeq(ts, 2, Len(ts) - 1)
WithoutName(ts) == IF ts # <<>> /\ ts[1] = S THEN Tail(ts) ELSE ts

RECURSIVE IsRuleBox(_), IsRules(_), IsTable(_)
IsRuleBox(ts) ==
    LET r == WithoutName(ts)
        in == Inside(r)
    IN /\ Bracketed(r, "TT_LEFT_BRACKET", "TT_RIGHT_BRACKET")
       /\ \/ in = <<S>> /\ r = ts /\ "path" \notin Deviations
          \/ IsTable(in) /\ (r = ts \/ "named" \in Deviations)
          \/ \E k \in DOMAIN in : /\ in[k] = "TT_PIPE"
                                  /\ IsGroup(SubSeq(in, 1, k - 1))
                                  /\ IsSource(SubSeq(in, k + 1, Len(in)))
IsRules(ts) ==
    ts = <<>> \/ \E k \in 1 .. Len(ts) : /\ IsRuleBox(SubSeq(ts, 1, k))
                                         /\ IsRules(SubSeq(ts, k + 1, Len(ts)))
IsTable(ts) ==
    /\ ts # <<>> /\ ts[1] = "TT_TABLE"
    /\ \/ Tail(ts) = <<S>>
       \/ LET t == WithoutName(Tail(ts))
          IN /\ t = Tail(ts) => "nameless" \in Deviations
             /\ Bracketed(t, "TT_LEFT_BRACE", "TT_RIGHT_BRACE")
             /\ IsRules(Inside(t))
             /\ Inside(t) = <<>> => "empty" \in Deviations

IsNames(ts) == \A i \in DOMAIN ts : ts[i] = S
IsNumber(ts) == Len(ts) = 3 /\ ts[2] = S
                /\ Bracketed(ts, "TT_LEFT_BRACKET", "TT_RIGHT_BRACKET")
IsInstance(ts) ==
    \E i, k \in DOMAIN ts :
        /\ \/ i = 1
           \/ "number" \in Deviations /\ IsNumber(SubSeq(ts, 1, i - 1))
        /\ ts[i] = "TT_DOUBLE_DOT" /\ IsNames(SubSeq(ts, i + 1, k - 1))
        /\ i < k /\ ts[k] = "TT_ARROW"
        /\ k < Len(ts) /\ IsNames(SubSeq(ts, k + 1, Len(ts)))
IsBinding(ts) ==
    /\ Len(ts) >= 5
    /\ ts[1] \in {"TT_UPSTREAM", "TT_DOWNSTREAM"}
    /\ ts[2] = S \/ ("star" \in Deviations /\ ts[2] = "TT_STAR")
    /\ ts[3] \in {"TT_IN", "TT_OUT"}
    /\ \/ ts[4] \in {"TT_WHITELIST", "TT_BLACKLIST"} /\ IsTable(SubSeq(ts, 5, Len(ts)))
       \/ ts[4] = "TT_RULE_MATCHING" /\ SubSeq(ts, 5, Len(ts)) \in
              {<<"TT_ALL">>, <<"TT_FIRST">>, <<"TT_MUTEX", S>>}
IsCommand(ts) ==
    \/ Len(ts) = 2 /\ ts[1] = "TT_PROTOCOL" /\ ts[2] \in Protocols
    \/ ts = <<"TT_DISABLE">> /\ "disable" \notin Deviations
    \/ IsTable(ts)
    \/ /\ Len(ts) > 2 /\ ts[1] = "TT_PINSTANCE" /\ ts[2] = S
       /\ LET rest == SubSeq(ts, 3, Len(ts)) IN IsInstance(rest) \/ IsBinding(rest)

------------------------------------------------------------------------------
Instance(name, number, up, down) ==
    [kind |-> "instance", name |-> name, number |-> number, up |-> up, down |-> down]
Table(name, rules) == [kind |-> "table", name |-> name, rules |-> rules]
FilterOf(type, i, direction, list, rules) ==
    [kind |-> "filter", inst |-> "A", type |-> type, if_name |-> i,
     direction |-> direction, list |-> list, rules |-> rules]
Matching(inst, type, direction, matching, number) ==
    [kind |-> "matching", inst |-> inst, type |-> type, if_name |-> "*",
     direction |-> direction, matching |-> matching, number |-> number]

(* Lines of a script; in another order they are illegal.                   *)
Lines ==
    {[kind |-> "protocol", gmp |-> g] : g \in {"MLDv2", "IGMPv2"}}
    \cup {[kind |-> "disable"], Table("t", <<Path("s")>>)}
    \cup {Instance("A", "", <<"u">>, <<"d">>), Instance("A", "9", <<>>, <<"d", "u">>)}
    \cup {Table("t", <<Rule("", Part("g"), Net("s", n))>>) : n \in PrefixLengths}
    \cup {Table("t", <<Rule("", Part("g6"), Net("s6", n))>>) : n \in PrefixLengths6}
    \cup {Table("t", <<Rule("u", Part("*"), Interval("s", "*")),
                       Rule("", Interval("*", "g"), Part("r"))>>),
          Table("t", <<Rule("", Net("*", "1"), Part("*"))>>),
          Table("v", <<Ref("t"), Rule("", Part("*"), Interval("*", "s"))>>),
          Table("v", <<Nested(<<Rule("", Part("g"), Net("g", "9"))>>)>>),
          Table("", <<Ref("v")>>)}
    \cup {FilterOf("IT_UPSTREAM", "u", "ID_IN", "TT_WHITELIST", <<Ref("t")>>),
          FilterOf("IT_UPSTREAM", "u", "ID_IN", "TT_BLACKLIST", <<Ref("v")>>),
          FilterOf("IT_DOWNSTREAM", "d", "ID_OUT", "TT_WHITELIST",
                   <<Nested(<<Ref("v"), Rule("u", Part("g"), Part("*"))>>)>>)}
    \cup {Matching("A", "IT_UPSTREAM", "ID_IN", "TT_MUTEX", "9"),
          Matching("A", "IT_DOWNSTREAM", "ID_OUT", "TT_FIRST", "")}

TokenTypes ==
    {"TT_PROTOCOL", "TT_PINSTANCE", "TT_UPSTREAM", "TT_DOWNSTREAM",
     "TT_RULE_MATCHING", "TT_OUT", "TT_IN", "TT_BLACKLIST", "TT_WHITELIST",
     "TT_TABLE", "TT_ALL", "TT_FIRST", "TT_MUTEX", "TT_DISABLE", "TT_DOUBLE_DOT",
     "TT_DOT", "TT_ARROW", "TT_LEFT_BRACE", "TT_RIGHT_BRACE", "TT_LEFT_BRACKET",
     "TT_RIGHT_BRACKET", "TT_RANGE", "TT_SLASH", "TT_STAR", "TT_PIPE"}
Edits(ts) ==
    {SubSeq(ts, 1, i - 1) \o SubSeq(ts, i + 1, Len(ts)) : i \in DOMAIN ts}
    \cup {[ts EXCEPT ![i] = K(t)] : i \in DOMAIN ts, t \in TokenTypes}
    \cup {[ts EXCEPT ![i] = Str("A")] : i \in DOMAIN ts}
    \cup {SubSeq(ts, 1, i) \o SubSeq(ts, i, Len(ts)) : i \in DOMAIN ts}
Types(ts) == [i \in DOMAIN ts |-> ts[i].type]

Malformed == [kind |-> "malformed"]
Command(ts, a) == [tokens |-> ts, ast |-> IF IsCommand(Types(ts)) THEN a ELSE Malformed]
MCCommands ==
    {Command(Tokens(a), a) : a \in Lines}
    \cup {[tokens |-> ts, ast |-> Malformed] :
             ts \in {e \in UNION {Edits(Tokens(a)) : a \in Lines} : ~IsCommand(Types(e))}}

(* For a closer look at the prefixes.                                      *)
HostLines == {Instance("A", "", <<"u">>, <<"d">>), [kind |-> "protocol", gmp |-> "MLDv2"]}
    \cup {Table("t", <<Rule("", Part("g"), Net("s", n))>>) : n \in PrefixLengths}
    \cup {Table("t", <<Rule("", Part("g6"), Net("s6", n))>>) : n \in PrefixLengths6}
    \cup {FilterOf("IT_UPSTREAM", "u", "ID_IN", "TT_WHITELIST", <<Ref("t")>>)}
HostCommands == {Command(Tokens(a), a) : a \in HostLines}

------------------------------------------------------------------------------
(***************************************************************************)
(* The two ways into the parser: every text of up to MaxText characters,   *)
(* taken apart by module Script, and every sequence of commands, as        *)
(* tokens.  A text of that length holds no long command, so the two are    *)
(* explored side by side.                                                  *)
(***************************************************************************)
MCLetters  == {"i", "N"}
MCLower    == [c \in MCLetters |-> IF c = "N" THEN "n" ELSE c]
MCKeywords == [w \in {<<"i", "n">>} |-> "TT_IN"]

MCInit == Init /\ EmptyFile
MCNext == \/ text = <<>> /\ LoadFile /\ UNCHANGED text
          \/ \E c \in Commands : text = <<>> /\ ReadCommand(c) /\ UNCHANGED text
          \/ status = "loading" /\ EditFile /\ UNCHANGED vars
MCSpec == MCInit /\ [][MCNext]_<<vars, text>>
=============================================================================
