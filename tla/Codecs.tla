------------------------------- MODULE Codecs -------------------------------
(***************************************************************************)
(* What travels through a request as text or as a tree: JSON, routes,      *)
(* forms, base64.  The codecs are operators, so a behaviour of a codec is  *)
(* one state that holds its input; the trees of JSON nodes and the routes  *)
(* are state machines of their own, and a behaviour is of one part only.   *)
(***************************************************************************)
EXTENDS Integers, Sequences, FiniteSets

CONSTANTS Values,   \* JSON values to write and read back
          Spaces,   \* what json_stringify indents with
          Texts,    \* JSON texts to read
          Bytes4,   \* four bytes to read a UTF-8 character from
          Datas,    \* data to encode as base64
          Dates,    \* [t, gmtoff]: a time, and the offset of the zone a date of it is read in
          Multiparts, \* [parts, boundary, chunk, len]: multipart forms and how they are read
          Queries,  \* [args, max, chunk]: arguments of plain forms
          Nodes, Patterns, Paths, Methods, MaxRoutes

VARIABLES part,   \* which codec the behaviour is about
          input,
          node, fault,   \* of JsonTree
          nodes, routes  \* of Router

J == INSTANCE JsonText
B == INSTANCE Text
F == INSTANCE Forms
T == INSTANCE JsonTree
R == INSTANCE Router

vars == <<part, input, node, fault, nodes, routes>>

Init == /\ \/ part = "value" /\ input \in Values
           \/ part = "text" /\ input \in Texts
           \/ part = "utf8" /\ input \in Bytes4
           \/ part = "base64" /\ input \in Datas
           \/ part = "date" /\ input \in Dates
           \/ part = "multipart" /\ input \in Multiparts
           \/ part = "query" /\ input \in Queries
           \/ part \in {"tree", "router"} /\ input = <<>>
        /\ T!Init /\ R!Init

Tree == part = "tree" /\ T!Next /\ UNCHANGED <<part, input, nodes, routes>>
Routing == part = "router" /\ R!Next /\ UNCHANGED <<part, input, node, fault>>

Next == Tree \/ Routing

Spec == Init /\ [][Next]_vars

-----------------------------------------------------------------------------
(* JSON, read back                                                         *)

RECURSIVE Plainly(_), Holds31(_)

\* The value with what is no JSON number made null.
Plainly(v) ==
  CASE v.tag = "number" -> IF v.n[Len(v.n)] \in J!Digits THEN v ELSE J!Null
    [] v.tag = "array" -> [v EXCEPT !.c = [k \in DOMAIN v.c |-> Plainly(v.c[k])]]
    [] v.tag = "object" -> [v EXCEPT !.c = [k \in DOMAIN v.c |-> <<v.c[k][1], Plainly(v.c[k][2])>>]]
    [] OTHER -> v

Has31(s) == \E k \in DOMAIN s : s[k] = 31
Holds31(v) ==
  CASE v.tag = "string" -> Has31(v.s)
    [] v.tag = "array" -> \E k \in DOMAIN v.c : Holds31(v.c[k])
    [] v.tag = "object" -> \E k \in DOMAIN v.c : Has31(v.c[k][1]) \/ Holds31(v.c[k][2])
    [] OTHER -> FALSE

\* What is read (d) of what was written of v.
ReadBack(d, v) == IF Holds31(v) THEN ~d.ok ELSE d.ok /\ d.v = Plainly(v)

\* What json_encode or json_stringify writes json_decode reads back as the same value,
\* infinities and NaN as null, except that a text with the byte 0x1F is refused:
\* emit_string escapes the control characters below it, parse_string refuses it too.
\* In the same way base64 and the HTTP dates of utils.c return what they were given.
RoundTrips ==
  /\ part = "value" => \A sp \in Spaces : ReadBack(J!json_decode(J!json_stringify(input, sp)), input)
  /\ part = "base64" => B!Base64Returns(input)
  /\ part = "date" => B!DateReturns(input.t, input.gmtoff)

-----------------------------------------------------------------------------
(* The grammar of RFC 8259, by splitting a text                            *)

Space == {9, 10, 13, 32}
All(t, S) == \A k \in DOMAIN t : t[k] \in S
Part(t, i, j) == SubSeq(t, i, j - 1)
After(t, i) == SubSeq(t, i, Len(t))

IsInt(t) == t # <<>> /\ All(t, J!Digits) /\ (t[1] = 48 => Len(t) = 1)
IsFrac(t) == t = <<>> \/ (Len(t) > 1 /\ t[1] = 46 /\ All(Tail(t), J!Digits))
IsExp(t) == \/ t = <<>>
            \/ /\ Len(t) > 1 /\ t[1] \in {69, 101}
               /\ \/ All(Tail(t), J!Digits)
                  \/ Len(t) > 2 /\ t[2] \in {43, 45} /\ All(After(t, 3), J!Digits)
IsNumber(t) ==
  LET u == IF t # <<>> /\ t[1] = 45 THEN Tail(t) ELSE t
  IN \E i \in 1 .. Len(u) + 1 : \E j \in i .. Len(u) + 1 :
       IsInt(Part(u, 1, i)) /\ IsFrac(Part(u, i, j)) /\ IsExp(After(u, j))

Scalar(u) == u \in 1 .. 1114111 /\ u \notin 55296 .. 57343
Hex(t) == J!HexValue(t[3]) * 4096 + J!HexValue(t[4]) * 256 + J!HexValue(t[5]) * 16 + J!HexValue(t[6])
IsHex(t) == t[1] = 92 /\ t[2] = 117 /\ \A k \in 3 .. 6 : J!HexValue(t[k]) >= 0

\* One character of a string: itself, or an escape.
IsChar(t) ==
  CASE Len(t) = 1 -> t[1] \in 32 .. 127 \ {34, 92}
    [] Len(t) = 2 /\ t[1] = 92 -> t[2] \in {34, 92, 47, 98, 102, 110, 114, 116}
    [] Len(t) = 6 -> IsHex(t) /\ Scalar(Hex(t))
    [] Len(t) = 12 -> /\ IsHex(t) /\ IsHex(After(t, 7))
                      /\ \E u \in {J!from_surrogate_pair(Hex(t), Hex(After(t, 7)))} :
                           u > 0 /\ J!to_surrogate_pair(u) = <<Hex(t), Hex(After(t, 7))>>
    [] OTHER -> FALSE

RECURSIVE AreChars(_), IsValue(_)
AreChars(t) == t = <<>> \/ \E n \in {1, 2, 6, 12} \cap 1 .. Len(t) :
                             IsChar(SubSeq(t, 1, n)) /\ AreChars(After(t, n + 1))
IsString(t) == /\ Len(t) > 1 /\ t[1] = 34 /\ t[Len(t)] = 34 /\ AreChars(SubSeq(t, 2, Len(t) - 1))

Padded(t, Is(_)) == \E i \in 1 .. Len(t) : \E j \in i + 1 .. Len(t) + 1 :
                      All(Part(t, 1, i), Space) /\ All(After(t, j), Space) /\ Is(Part(t, i, j))
IsMember(t) == \E k \in DOMAIN t : /\ t[k] = 58 /\ Padded(Part(t, 1, k), IsString)
                                   /\ Padded(After(t, k + 1), IsValue)
\* Some of the commas cut the text into elements.
AreElements(t, Is(_)) ==
  \E K \in SUBSET {k \in DOMAIN t : t[k] = 44} :
    \A k \in K \cup {0} :
      LET end == {j \in K \cup {Len(t) + 1} : j > k}
      IN Padded(Part(t, k + 1, CHOOSE j \in end : \A i \in end : j <= i), Is)
IsValue(t) ==
  LET in == SubSeq(t, 2, Len(t) - 1)
      Enclosed(a, b, Is(_)) == /\ Len(t) > 1 /\ t[1] = a /\ t[Len(t)] = b
                               /\ All(in, Space) \/ AreElements(in, Is)
  IN \/ IsNumber(t) \/ IsString(t) \/ \E l \in J!Literals : l[1] = t
     \/ Enclosed(91, 93, IsValue) \/ Enclosed(123, 125, IsMember)

\* json_decode accepts the texts of the grammar and no others; utf8_validate_cz lets
\* through the bytes utf8_write_char makes of a Unicode scalar value and no others.
Accepts ==
  /\ part = "text" => J!json_decode(input).ok = Padded(input, IsValue)
  /\ part = "utf8" =>
       LET n == J!utf8_validate_cz(input, 1)
           u == J!utf8_read_char(input, 1)
       IN n > 0 <=> Scalar(u) /\ \E k \in 1 .. 4 : J!utf8_write_char(u) = SubSeq(input, 1, k)

\* The trees of nodes that the calls of the JSON library build stay sound.
TreeSound == part = "tree" => T!TreeSound

\* The route that fits a path is found, with its parameters.
RouteFound == part = "router" => R!RouteFound

\* The fields, files and arguments of a form arrive, however its body is read.
FormsArrive ==
  /\ part = "multipart" => F!PartsArrive(input.parts, input.boundary, input.chunk, input.len)
  /\ part = "query" => F!ArgumentsArrive(input.args, input.max, input.chunk)
=============================================================================
