------------------------------ MODULE JsonText ------------------------------
(***************************************************************************)
(* The JSON reader and writer of base/ccan_json.c, as operators on texts.  *)
(*                                                                         *)
(* A text is a sequence of bytes; reading past its end yields the NUL that *)
(* ends a C string.  A value is a record: a tag with the payload of the    *)
(* JsonNode.  A number stands for the text printf("%.16g") gives it, which *)
(* strtod turns back into the same number.                                 *)
(***************************************************************************)
EXTENDS Integers, Sequences, FiniteSets, SequencesExt

At(t, i) == IF i \in 1 .. Len(t) THEN t[i] ELSE 0

Quote == 34
Backslash == 92

\* What the parsers return: failure, or a result and the place after it.
Fail == [ok |-> FALSE]
Parsed(x, i) == [ok |-> TRUE, v |-> x, next |-> i]

-----------------------------------------------------------------------------
(* Unicode                                                                 *)

Cont(b) == b \in 128 .. 191

\* Mutant: surrogates are let through.
utf8_validate_czSurrogates(t, i) ==
  LET c == At(t, i)
      d == At(t, i + 1)
      Conts(n) == \A k \in 1 .. n : Cont(At(t, i + k))
  IN CASE c <= 127 -> 1
       [] c \in 194 .. 223 /\ Conts(1) -> 2
       [] c \in 224 .. 239 /\ Conts(2) /\ (c = 224 => d >= 160) -> 3
       [] c \in 240 .. 244 /\ Conts(3) /\ (c = 240 => d >= 144) /\ (c = 244 => d <= 143) -> 4
       [] OTHER -> 0

\* The length of the UTF-8 character at i, or 0: no overlong form, no surrogate,
\* nothing past U+10FFFF.
utf8_validate_cz(t, i) ==
  LET c == At(t, i)
      d == At(t, i + 1)
      Conts(n) == \A k \in 1 .. n : Cont(At(t, i + k))
  IN CASE c <= 127 -> 1
       [] c \in 194 .. 223 /\ Conts(1) -> 2
       [] c \in 224 .. 239 /\ Conts(2) /\ (c = 224 => d >= 160) /\ (c = 237 => d <= 159) -> 3
       [] c \in 240 .. 244 /\ Conts(3) /\ (c = 240 => d >= 144) /\ (c = 244 => d <= 143) -> 4
       [] OTHER -> 0

RECURSIVE ValidFrom(_, _)
ValidFrom(t, i) == \/ i > Len(t)
                   \/ utf8_validate_cz(t, i) > 0 /\ ValidFrom(t, i + utf8_validate_cz(t, i))

utf8_validate(t) == ValidFrom(t, 1)

\* The code point of the character at i.
utf8_read_char(t, i) ==
  LET Low(k) == At(t, i + k) % 64
      c == At(t, i)
  IN CASE c <= 127 -> c
       [] c \in 128 .. 223 -> (c % 32) * 64 + Low(1)
       [] c \in 224 .. 239 -> (c % 16) * 4096 + Low(1) * 64 + Low(2)
       [] OTHER -> (c % 8) * 262144 + Low(1) * 4096 + Low(2) * 64 + Low(3)

utf8_write_char(u) ==
  CASE u <= 127 -> <<u>>
    [] u \in 128 .. 2047 -> <<192 + u \div 64, 128 + (u % 64)>>
    [] u \in 2048 .. 65535 -> <<224 + u \div 4096, 128 + ((u \div 64) % 64), 128 + (u % 64)>>
    [] OTHER -> <<240 + u \div 262144, 128 + ((u \div 4096) % 64), 128 + ((u \div 64) % 64), 128 + (u % 64)>>

\* The code point of a surrogate pair, or 0.
from_surrogate_pair(uc, lc) ==
  IF uc \in 55296 .. 56319 /\ lc \in 56320 .. 57343
  THEN 65536 + (uc % 1024) * 1024 + (lc % 1024) ELSE 0

to_surrogate_pair(u) == <<55296 + (((u - 65536) \div 1024) % 1024), 56320 + ((u - 65536) % 1024)>>

HexValue(c) == CASE c \in 48 .. 57 -> c - 48
                 [] c \in 65 .. 70 -> c - 55
                 [] c \in 97 .. 102 -> c - 87
                 [] OTHER -> -1

parse_hex16(t, i) ==
  IF \E k \in 0 .. 3 : HexValue(At(t, i + k)) = -1 THEN Fail
  ELSE Parsed(HexValue(At(t, i)) * 4096 + HexValue(At(t, i + 1)) * 256
                + HexValue(At(t, i + 2)) * 16 + HexValue(At(t, i + 3)), i + 4)

write_hex16(v) == [k \in 1 .. 4 |-> LET d == (v \div 16^(4 - k)) % 16
                                    IN IF d < 10 THEN 48 + d ELSE 55 + d]

-----------------------------------------------------------------------------
(* The parser                                                              *)

\* The first place from i on that holds none of the bytes in S.
PastAll(t, i, S) == CHOOSE j \in i .. Len(t) + 1 :
                      (\A k \in i .. j - 1 : t[k] \in S) /\ At(t, j) \notin S

skip_space(t, i) == IF i > Len(t) THEN i ELSE PastAll(t, i, {9, 10, 13, 32})

expect_literal(t, i, lit) == i + Len(lit) - 1 <= Len(t) /\ SubSeq(t, i, i + Len(lit) - 1) = lit

Digits == 48 .. 57

\* parse_number: '-'? (0 | [1-9][0-9]*) ('.' [0-9]+)? ([Ee] [+-]? [0-9]+)?
\* A part that begins and has no digit fails the whole number.
parse_number(t, i) ==
  LET Run(j) == IF At(t, j) \in Digits THEN PastAll(t, j, Digits) ELSE 0
      a == IF At(t, i) = 45 THEN i + 1 ELSE i
      b == IF At(t, a) = 48 THEN a + 1 ELSE Run(a)
      c == IF b > 0 /\ At(t, b) = 46 THEN Run(b + 1) ELSE b
      d == IF c > 0 /\ At(t, c) \in {69, 101}
           THEN Run(IF At(t, c + 1) \in {43, 45} THEN c + 2 ELSE c + 1) ELSE c
  IN IF d = 0 THEN Fail ELSE Parsed([tag |-> "number", n |-> SubSeq(t, i, d - 1)], d)

\* The escape \uXXXX whose digits begin at i: one unit or a surrogate pair, not zero.
UnicodeEscape(t, i) ==
  LET Point(u, j) == IF u = 0 THEN Fail ELSE Parsed(utf8_write_char(u), j)
      Pair(h, l) == IF l.ok THEN Point(from_surrogate_pair(h.v, l.v), l.next) ELSE Fail
      Unit(h) == IF ~h.ok THEN Fail
                 ELSE IF h.v \notin 55296 .. 57343 THEN Point(h.v, h.next)
                 ELSE IF At(t, h.next) = Backslash /\ At(t, h.next + 1) = 117
                 THEN Pair(h, parse_hex16(t, h.next + 2)) ELSE Fail
  IN Unit(parse_hex16(t, i))

\* Mutant: \b and \f are mixed up.
UnescapedSwapped == [c \in {34, 92, 47, 98, 102, 110, 114, 116} |->
                CASE c = 98 -> 12 [] c = 102 -> 8 [] c = 110 -> 10
                  [] c = 114 -> 13 [] c = 116 -> 9 [] OTHER -> c]

\* What stands for the character after a backslash: " \ / b f n r t.
Unescaped == [c \in {34, 92, 47, 98, 102, 110, 114, 116} |->
                CASE c = 98 -> 8 [] c = 102 -> 12 [] c = 110 -> 10
                  [] c = 114 -> 13 [] c = 116 -> 9 [] OTHER -> c]

\* One turn of the loop of parse_string: the bytes of the next character.
CharAt(t, i) ==
  LET c == At(t, i)
      e == At(t, i + 1)
      n == utf8_validate_cz(t, i)
  IN CASE c = Backslash /\ e = 117 -> UnicodeEscape(t, i + 2)
       [] c = Backslash /\ e # 117 ->
            IF e \in DOMAIN Unescaped THEN Parsed(<<Unescaped[e]>>, i + 2) ELSE Fail
       [] c <= 31 -> Fail
       [] OTHER -> IF n = 0 THEN Fail ELSE Parsed(SubSeq(t, i, i + n - 1), i + n)

RECURSIVE CharsFrom(_, _, _)
CharsFrom(t, i, s) == IF At(t, i) = Quote THEN Parsed(s, i + 1)
                      ELSE LET Rest(c) == IF c.ok THEN CharsFrom(t, c.next, s \o c.v) ELSE Fail
                           IN Rest(CharAt(t, i))

parse_string(t, i) == IF At(t, i) = Quote THEN CharsFrom(t, i + 1, <<>>) ELSE Fail

Null == [tag |-> "null"]
Literals == {<<<<110, 117, 108, 108>>, Null>>,
             <<<<102, 97, 108, 115, 101>>, [tag |-> "bool", b |-> FALSE]>>,
             <<<<116, 114, 117, 101>>, [tag |-> "bool", b |-> TRUE]>>}

RECURSIVE parse_value(_, _), ElementsFrom(_, _, _), MembersFrom(_, _, _)

\* The loop of parse_array, at an element.
ElementsFrom(t, i, xs) ==
  LET Behind(j, all) == CASE At(t, j) = 93 -> Parsed([tag |-> "array", c |-> all], j + 1)
                          [] At(t, j) = 44 -> ElementsFrom(t, skip_space(t, j + 1), all)
                          [] OTHER -> Fail
      Element(v) == IF v.ok THEN Behind(skip_space(t, v.next), Append(xs, v.v)) ELSE Fail
  IN Element(parse_value(t, i))

parse_array(t, i) ==
  LET j == skip_space(t, i + 1)
  IN IF At(t, j) = 93 THEN Parsed([tag |-> "array", c |-> <<>>], j + 1) ELSE ElementsFrom(t, j, <<>>)

\* The loop of parse_object, at a key.
MembersFrom(t, i, ms) ==
  LET Behind(j, all) == CASE At(t, j) = 125 -> Parsed([tag |-> "object", c |-> all], j + 1)
                          [] At(t, j) = 44 -> MembersFrom(t, skip_space(t, j + 1), all)
                          [] OTHER -> Fail
      Value(k, v) == IF v.ok THEN Behind(skip_space(t, v.next), Append(ms, <<k, v.v>>)) ELSE Fail
      Colon(k, c) == IF At(t, c) = 58 THEN Value(k, parse_value(t, skip_space(t, c + 1))) ELSE Fail
      Key(k) == IF k.ok THEN Colon(k.v, skip_space(t, k.next)) ELSE Fail
  IN Key(parse_string(t, i))

parse_object(t, i) ==
  LET j == skip_space(t, i + 1)
  IN IF At(t, j) = 125 THEN Parsed([tag |-> "object", c |-> <<>>], j + 1) ELSE MembersFrom(t, j, <<>>)

parse_value(t, i) ==
  LET c == At(t, i)
      Text(s) == IF s.ok THEN Parsed([tag |-> "string", s |-> s.v], s.next) ELSE Fail
  IN CASE \E l \in Literals : l[1][1] = c ->
            (LET l == CHOOSE l \in Literals : l[1][1] = c
             IN IF expect_literal(t, i, l[1]) THEN Parsed(l[2], i + Len(l[1])) ELSE Fail)
       [] c = Quote -> Text(parse_string(t, i))
       [] c = 91 -> parse_array(t, i)
       [] c = 123 -> parse_object(t, i)
       [] OTHER -> parse_number(t, i)

\* json_decode (and json_validate): one value, with nothing but space around it.
json_decode(t) == LET Alone(v) == IF v.ok /\ At(t, skip_space(t, v.next)) = 0 THEN v ELSE Fail
                  IN Alone(parse_value(t, skip_space(t, 1)))

-----------------------------------------------------------------------------
(* The writer                                                              *)

Escapes == {<<34, 34>>, <<92, 92>>, <<8, 98>>, <<12, 102>>, <<10, 110>>, <<13, 114>>, <<9, 116>>}

RECURSIVE EscapedFrom(_, _)
\* The loop of emit_string; escape_unicode is never set.
EscapedFrom(s, i) ==
  IF i > Len(s) THEN <<>>
  ELSE LET c == s[i]
           n == utf8_validate_cz(s, i)
       IN IF \E e \in Escapes : e[1] = c
          THEN <<Backslash, (CHOOSE e \in Escapes : e[1] = c)[2]>> \o EscapedFrom(s, i + 1)
          ELSE IF c < 31 THEN <<Backslash, 117>> \o write_hex16(c) \o EscapedFrom(s, i + 1)
          ELSE SubSeq(s, i, i + n - 1) \o EscapedFrom(s, i + n)

emit_string(s) == <<Quote>> \o EscapedFrom(s, 1) \o <<Quote>>

\* emit_number: infinities and NaN become null.
emit_number(n) == LET p == parse_number(n, 1)
                  IN IF p.ok /\ At(n, p.next) = 0 THEN n ELSE <<110, 117, 108, 108>>

emit_scalar(v) == CASE v.tag = "null" -> <<110, 117, 108, 108>>
                    [] v.tag = "bool" -> (CHOOSE l \in Literals : l[2] = v)[1]
                    [] v.tag = "string" -> emit_string(v.s)
                    [] v.tag = "number" -> emit_number(v.n)

Separated(xs, sep) == FlattenSeq([k \in 1 .. Len(xs) |-> IF k = 1 THEN xs[k] ELSE sep \o xs[k]])

RECURSIVE emit_value(_), emit_value_indented(_, _, _)

emit_array(v) == <<91>> \o Separated([k \in 1 .. Len(v.c) |-> emit_value(v.c[k])], <<44>>) \o <<93>>
emit_object(v) ==
  <<123>> \o Separated([k \in 1 .. Len(v.c) |->
                          emit_string(v.c[k][1]) \o <<58>> \o emit_value(v.c[k][2])], <<44>>) \o <<125>>

emit_value(v) == CASE v.tag = "array" -> emit_array(v)
                   [] v.tag = "object" -> emit_object(v)
                   [] OTHER -> emit_scalar(v)

\* emit_array_indented, emit_object_indented: one child a line, one level deeper.
Indent(sp, n) == FlattenSeq([k \in 1 .. n |-> sp])
Bracketed(open, lines, close, sp, lvl) ==
  IF lines = <<>> THEN <<open, close>>
  ELSE <<open, 10>> \o Separated([k \in 1 .. Len(lines) |-> Indent(sp, lvl + 1) \o lines[k]], <<44, 10>>)
         \o <<10>> \o Indent(sp, lvl) \o <<close>>

emit_array_indented(v, sp, lvl) ==
  Bracketed(91, [k \in 1 .. Len(v.c) |-> emit_value_indented(v.c[k], sp, lvl + 1)], 93, sp, lvl)
emit_object_indented(v, sp, lvl) ==
  Bracketed(123, [k \in 1 .. Len(v.c) |-> emit_string(v.c[k][1]) \o <<58, 32>>
                                            \o emit_value_indented(v.c[k][2], sp, lvl + 1)], 125, sp, lvl)

emit_value_indented(v, sp, lvl) ==
  CASE v.tag = "array" -> emit_array_indented(v, sp, lvl)
    [] v.tag = "object" -> emit_object_indented(v, sp, lvl)
    [] OTHER -> emit_scalar(v)

\* json_stringify (json_encode when there is no space to indent with).
json_stringify(v, sp) == IF sp = <<>> THEN emit_value(v) ELSE emit_value_indented(v, sp, 0)
=============================================================================
