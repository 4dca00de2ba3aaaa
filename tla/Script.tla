------------------------------- MODULE Script -------------------------------
(***************************************************************************)
(* From the text of a configuration file to the tokens of its commands:    *)
(* configuration::load_file, delete_comments and separate_commands         *)
(* (configuration.cpp) and the scanner (scanner.cpp).  A text is a         *)
(* sequence of characters; the punctuation marks that are tokens by        *)
(* themselves are represented by the colon.                                *)
(***************************************************************************)
EXTENDS SequencesExt, Integers

CONSTANTS Letters,   \* letters, digits and the underscore
          Lower,     \* tolower on Letters
          Keywords,  \* from lower-case words to token types
          MaxText    \* bound: characters of a file

VARIABLE text        \* what the file holds

Spaces == {" ", "\n"}
Marks  == {"#", ";", "\"", "=", ">", ":"}
Characters == Letters \cup Spaces \cup Marks

------------------------------------------------------------------------------
(* configuration.cpp.  0 stands for npos.                                  *)

find(s, c, i) ==
    LET at == {k \in i .. Len(s) : s[k] = c} IN IF at = {} THEN 0 ELSE Min(at)
count_chars(s, c) == Cardinality({k \in DOMAIN s : s[k] = c})

(* getline reads the lines; each is written with its end.                  *)
load_file(s) == IF s = <<>> \/ Last(s) = "\n" THEN s ELSE Append(s, "\n")

(* A comment goes up to the end of its line, which stays.                  *)
erase_line(s, from, eoc) == SubSeq(s, 1, from - 1) \o SubSeq(s, eoc + 1, Len(s))
erase(s, from, eoc) == SubSeq(s, 1, from - 1) \o SubSeq(s, eoc, Len(s))
RECURSIVE delete_comments_from(_, _)
delete_comments_from(s, cc) ==
    LET eoc  == find(s, "\n", cc + 1)
        rest == erase(s, cc, eoc)
    IN CASE cc = 0 -> s
         [] cc # 0 /\ eoc = 0 -> SubSeq(s, 1, cc - 1)
         [] cc # 0 /\ eoc # 0 -> delete_comments_from(rest, find(rest, "#", cc))
delete_comments(s) == delete_comments_from(s, find(s, "#", 1))

ltrim(s) == LET k == {j \in DOMAIN s : s[j] \notin Spaces}
            IN IF k = {} THEN <<>> ELSE SubSeq(s, Min(k), Len(s))
rtrim(s) == Reverse(ltrim(Reverse(s)))

RECURSIVE separate_from(_, _)
separate_from(s, current_line) ==
    LET end  == find(s, ";", 1)
        item == IF end = 0 THEN s ELSE SubSeq(s, 1, end - 1)
        before == count_chars(item, "\n")
        after  == count_chars(ltrim(item), "\n")
        cmd    == rtrim(ltrim(item))
    IN (IF cmd = <<>> THEN <<>> ELSE <<[line |-> current_line + before - after, cmd |-> cmd]>>)
       \o (IF end = 0 THEN <<>>
           ELSE separate_from(SubSeq(s, end + 1, Len(s)), current_line + before))
separate_commands(s) == separate_from(s, 1)

------------------------------------------------------------------------------
(* scanner.cpp.  i is the position of m_current_cmd_char in the command.   *)

read_char(cmd, i) == IF i \in DOMAIN cmd THEN cmd[i] ELSE ""
(* The first position from i on whose character is not in C.               *)
RECURSIVE skip(_, _, _)
skip(cmd, i, C) == IF read_char(cmd, i) \in C THEN skip(cmd, i + 1, C) ELSE i
skip_spaces(cmd, i) == skip(cmd, i, Spaces)

token(type, string) == [type |-> type, string |-> string]
Nil == [tok |-> token("TT_NIL", <<>>), pos |-> 0]

word(s) == LET cmp_str == [k \in DOMAIN s |-> Lower[s[k]]]
           IN IF cmp_str \in DOMAIN Keywords THEN token(Keywords[cmp_str], <<>>)
                                             ELSE token("TT_STRING", s)

end_of_string_next(cmd, i) == skip(cmd, i, Characters \ {"\""})
end_of_string(cmd, i) == skip(cmd, i, Characters \ {"\""}) + 1

read_next_token(cmd, from) ==
    LET i == skip_spaces(cmd, from)
        c == read_char(cmd, i)
        quoted == end_of_string(cmd, i + 1)
        end == skip(cmd, i, Letters)
    IN CASE c = "" -> Nil
         [] c = ":" -> [tok |-> token("TT_DOUBLE_DOT", <<>>), pos |-> i + 1]
         [] c = "=" -> IF read_char(cmd, i + 1) = "=" /\ read_char(cmd, i + 2) = ">"
                       THEN [tok |-> token("TT_ARROW", <<>>), pos |-> i + 3]
                       ELSE Nil     \* the rest of the command is not read
         [] c = "\"" -> [tok |-> token("TT_STRING", SubSeq(cmd, i + 1, quoted - 2)),
                         pos |-> quoted]
         [] c \in Letters -> [tok |-> word(SubSeq(cmd, i, end - 1)), pos |-> end]
         [] OTHER -> [tok |-> token("throw", <<>>), pos |-> 0]

RECURSIVE fill_token_vec(_, _, _)
fill_token_vec(cmd, i, m_token_vec) ==
    LET next == read_next_token(cmd, i)
    IN CASE next.tok.type = "TT_NIL" -> [ok |-> TRUE, tokens |-> m_token_vec]
         [] next.tok.type = "throw" -> [ok |-> FALSE, tokens |-> <<>>]
         [] OTHER -> fill_token_vec(cmd, next.pos, Append(m_token_vec, next.tok))
scan(cmd) == fill_token_vec(cmd, 1, <<>>)

m_cmds == separate_commands(delete_comments(load_file(text)))

------------------------------------------------------------------------------
(* Every file: its characters are written one after the other.             *)
Write(c) == Len(text) < MaxText /\ text' = Append(text, c)
EmptyFile == text = <<>>
EditFile == \E c \in Characters : Write(c)

------------------------------------------------------------------------------
(* What a text means, by the positions of its characters.                  *)

(* No comment sign stands before p on its line.                            *)
Live(p) == \A q \in 1 .. p : text[q] = "#" => \E r \in q + 1 .. p : text[r] = "\n"
Stops == {p \in DOMAIN text : Live(p) /\ text[p] = ";"}
CommandChars == {p \in DOMAIN text : Live(p) /\ text[p] # ";"}
SameCommand(p, q) == ~\E s \in Stops : (p < s /\ s < q) \/ (q < s /\ s < p)
Visible == {p \in CommandChars : text[p] \notin Spaces}
Firsts == {p \in Visible : \A q \in Visible : SameCommand(p, q) => p <= q}
Sorted(S) == SetToSortSeq(S, <)
LastOf(p) == Max({q \in Visible : SameCommand(p, q)})
CommandAt(p) ==
    LET at == Sorted({q \in CommandChars : p <= q /\ q <= LastOf(p)})
    IN [line |-> 1 + Cardinality({q \in 1 .. p : text[q] = "\n"}),
        cmd |-> [k \in DOMAIN at |-> text[at[k]]]]

(* The commands handed to the parser are the texts between the semicolons  *)
(* that no comment hides, without comments and surrounding space, each     *)
(* under the number of the line on which it begins (which every message    *)
(* about an error in the script names).                                    *)
CommandsOfTheFile == m_cmds = [k \in DOMAIN Sorted(Firsts) |-> CommandAt(Sorted(Firsts)[k])]

Quoted(c, p) == Cardinality({q \in 1 .. p - 1 : c[q] = "\""}) % 2 = 1
IsLetter(c, p) == p \in DOMAIN c /\ ~Quoted(c, p) /\ c[p] \in Letters
Starts(c) == {p \in DOMAIN c : /\ ~Quoted(c, p) /\ c[p] \notin Spaces \cup {">"}
                               /\ IsLetter(c, p) => ~IsLetter(c, p - 1)
                               /\ (c[p] = "=" /\ p > 1) => c[p - 1] # "="}
IsArrow(c, p) == SubSeq(c, p, p + 2) = <<"=", "=", ">">>
(* Where the command ends for the scanner.                                 *)
Cut(c) == Min({p \in Starts(c) : c[p] = "=" /\ (p + 2 > Len(c) \/ ~IsArrow(c, p))}
              \cup {Len(c) + 1})
SpanEnd(c, p, C) == Max({q \in p .. Len(c) : \A r \in p .. q : c[r] \in C} \cup {p - 1})
TokenAt(c, p) ==
    CASE c[p] = ":" -> token("TT_DOUBLE_DOT", <<>>)
      [] c[p] = "=" -> token("TT_ARROW", <<>>)
      [] c[p] = "\"" -> token("TT_STRING",
                            SubSeq(c, p + 1, SpanEnd(c, p + 1, Characters \ {"\""})))
      [] c[p] \in Letters -> word(SubSeq(c, p, SpanEnd(c, p, Letters)))

(* The scanner reads a command to its end, token by token (words as long   *)
(* as possible, strings up to the next quotation mark), and refuses any    *)
(* other sign; but an equal sign that does not begin an arrow ends it      *)
(* without an error, whatever follows.                                     *)
TokensOfTheCommands ==
    \A k \in DOMAIN m_cmds :
        LET c == m_cmds[k].cmd
            at == Sorted({p \in Starts(c) : p < Cut(c)})
            stray == \E p \in 1 .. Cut(c) - 1 : /\ c[p] = ">" /\ ~Quoted(c, p)
                                                /\ p = 1 \/ c[p - 1] # "="
        IN /\ scan(c).ok <=> ~stray
           /\ scan(c).ok => scan(c).tokens = [j \in DOMAIN at |-> TokenAt(c, at[j])]
=============================================================================
