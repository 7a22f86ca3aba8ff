------------------------------ MODULE MCCodecs ------------------------------
(* Inputs for the codecs: small texts over the characters that matter.     *)
EXTENDS Codecs, SequencesExt

UpTo(S, n) == UNION {[1 .. k -> S] : k \in 0 .. n}

\* '"' '\' '/' BS FF LF CR TAB, control characters and their limit, DEL, and
\* characters of two, three and four bytes.
Points == {34, 92, 47, 8, 12, 10, 13, 9, 1, 30, 31, 32, 97, 127, 233, 8364, 128512}
Str(ps) == [tag |-> "string", s |-> FlattenSeq([k \in DOMAIN ps |-> J!utf8_write_char(ps[k])])]
Num(t) == [tag |-> "number", n |-> t]
Arr(c) == [tag |-> "array", c |-> c]
Obj(c) == [tag |-> "object", c |-> c]

\* 0, -1.5, 1e+20, inf
Scalars == {J!Null, [tag |-> "bool", b |-> TRUE], Num(<<48>>), Num(<<45, 49, 46, 53>>),
            Num(<<49, 101, 43, 50, 48>>), Num(<<105, 110, 102>>), Str(<<>>), Str(<<31>>)}
Keys == {<<>>, <<97>>, <<31>>, <<34>>}
Of(vs) == {Arr(c) : c \in UpTo(vs, 2)} \cup {Obj(c) : c \in UpTo(Keys \X vs, 1)}
MCValues == {Str(ps) : ps \in UpTo(Points, 2)} \cup Scalars \cup Of(Scalars)
              \cup Of({Arr(<<>>), Obj(<<>>), Arr(<<J!Null>>), Obj(<<<<<<97>>, Num(<<48>>)>>>>)})
              \cup {Obj(c) : c \in UpTo({<<>>, <<97>>} \X {J!Null, Arr(<<Str(<<97>>)>>)}, 2)}

Braces(n) == UpTo({123, 125, 34, 58, 44, 48}, n)
\* brackets; braces; numbers; strings; \u escapes alone and in pairs
HexText(c) == <<92, 117>> \o c
Units == {<<68, 56, 48, 48>>, <<100, 98, 70, 102>>, <<68, 67, 48, 48>>, <<68, 70, 70, 70>>, <<48, 48, 52, 49>>}
MCTexts == UpTo({91, 93, 44, 48, 45, 32}, 5)
             \cup Braces(4) \cup {<<123>> \o t \o <<125>> : t \in Braces(4)}
             \cup {<<123, 34>> \o t \o <<125>> : t \in UpTo({34, 58, 44, 48, 32}, 5)}
             \cup UpTo({45, 48, 49, 46, 101, 43}, 5)
             \cup {<<34>> \o t : t \in UpTo({34, 92, 110, 31, 97, 117}, 4)}
             \cup {<<34>> \o HexText(c) \o <<34>> : c \in [1 .. 4 -> {48, 56, 65, 68, 100, 71}]}
             \cup {<<34>> \o HexText(c) \o HexText(d) \o <<34>> : c, d \in Units}
             \cup {l[1] : l \in J!Literals} \cup {SubSeq(l[1], 1, 3) : l \in J!Literals}

Lead == {1, 127, 128, 191, 192, 193, 194, 223, 224, 225, 236, 237, 238, 239, 240, 241, 243, 244, 245, 255}
Follow == {65, 127, 128, 143, 144, 159, 160, 191, 192}
MCBytes4 == {<<a, b, c, d>> : a \in Lead, b \in Follow, c \in {65, 128, 191, 192}, d \in {65, 128, 191, 192}}

MCDatas == UpTo({0, 1, 63, 64, 255}, 4)

\* The first and the last second of days around the ends of months and years.
MCDates == {[t |-> d * 86400 + s, gmtoff |-> off] :
              d \in {0, 1, 58, 59, 364, 365, 789, 790, 11015, 11016, 11322, 11323, 19781, 19782, 20088, 24836},
              s \in {0, 1, 43200, 86399}, off \in {-18000, 0, 7200, 20700}}

Boundary == <<"-", "-", "b">>
Clear(d) == \A i \in 1 .. Len(d) - 2 : SubSeq(d, i, i + 2) # Boundary
PartsOf(names, datas) == [name : names, typed : BOOLEAN, data : {d \in datas : Clear(d)}]
Alphabet == {"-", "b", "x", F!CR, F!LF}
Lists == {<<p>> : p \in PartsOf({"file1"}, UpTo(Alphabet, 4))}
           \cup {<<p, q>> : p \in PartsOf({"field1", "file1"}, UpTo({"-", F!CR}, 2)),
                            q \in PartsOf({"field2", "file2"}, {<<>>, <<"b">>, <<"-", "-">>})}
MCMultiparts == [parts : Lists, boundary : {Boundary}, chunk : {1, 3, 100}, len : {3}]

Words == {<<"a">>, <<"b", "a">>}
MCQueries == [args : UpTo(Words \X Words, 3), max : {2, 4}, chunk : {1, 3}]

MCPatterns == {<<"/">>, <<"/", ":", "a">>, <<"/", "a">>, <<"/", "a", "/">>, <<"/", "a", "b">>,
               <<"/", "a", "/", ":", "b">>, <<"/", "a", "/", "b">>, <<"/", "a", "/", ":", "a", "/", ":", "b">>,
               <<"/", "a", ":", "b", ":", "a">>, <<"/", ":", "a", "/", "b">>}
MCPaths == {<<"/">> \o p : p \in UpTo({"/", "a", "b"}, 4)}
MCSpaces == {<<>>, <<32>>, <<9, 9>>}
=============================================================================
