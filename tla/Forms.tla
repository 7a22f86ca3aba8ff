------------------------------- MODULE Forms --------------------------------
(***************************************************************************)
(* The forms of base/kore/http.c: multipart_find_data and the parts of a   *)
(* multipart body it finds, the reading of an uploaded file, and the       *)
(* arguments of a query string or of a plain form.                         *)
(*                                                                         *)
(* A body is a sequence of symbols, a whole header line one of them: the   *)
(* content-disposition of a field or of a file, or another header.         *)
(* http_body_read delivers at most chunk symbols.                          *)
(***************************************************************************)
EXTENDS Text

CR == "r"
LF == "n"
FieldHeaders == {"field1", "field2"}
FileHeaders == {"file1", "file2"}

-----------------------------------------------------------------------------
(* multipart_find_data.  The state of a search: what was read and not yet  *)
(* passed (in), what is still to be read, and how much was read in all.    *)

\* http_body_read into the buffer.
Read(s, chunk) == LET n == IF Len(s.rest) < chunk THEN Len(s.rest) ELSE chunk
                  IN [in |-> s.in \o SubSeq(s.rest, 1, n),
                      rest |-> SubSeq(s.rest, n + 1, Len(s.rest)), read |-> s.read + n]

Keep(s, from) == [s EXCEPT !.in = SubSeq(s.in, from, Len(s.in))]

RECURSIVE FindData(_, _, _, _)

\* Mutant: of the beginning of a needle that is cut off nothing is kept.
FindDataCut(s, out, needle, chunk) ==
  LET p == FirstOf(s.in, needle[1])
      left == Len(s.in) - p + 1
      n == Len(needle)
      Passed(k) == out \o SubSeq(s.in, 1, k)
  IN IF Len(s.in) < n
     THEN IF s.rest = <<>> THEN [ok |-> FALSE, s |-> s, out |-> out]
          ELSE FindData(Read(s, chunk), out, needle, chunk)
     ELSE IF p = 0 \/ left < n THEN FindData(Keep(s, Len(s.in) + 1), Passed(Len(s.in)), needle, chunk)
     ELSE IF SubSeq(s.in, p, p + n - 1) = needle
     THEN [ok |-> TRUE, s |-> Keep(s, p + n), out |-> Passed(p - 1)]
     ELSE FindData(Keep(s, p + 1), Passed(p), needle, chunk)

\* The loop: read until the needle fits; look for its first byte; pass over what is
\* in front of it, and over the byte itself when the needle does not follow.
FindData(s, out, needle, chunk) ==
  LET p == FirstOf(s.in, needle[1])
      left == Len(s.in) - p + 1
      n == Len(needle)
      Passed(k) == out \o SubSeq(s.in, 1, k)
  IN IF Len(s.in) < n
     THEN IF s.rest = <<>> THEN [ok |-> FALSE, s |-> s, out |-> out]
          ELSE FindData(Read(s, chunk), out, needle, chunk)
     ELSE IF p = 0 THEN FindData(Keep(s, Len(s.in) + 1), Passed(Len(s.in)), needle, chunk)
     ELSE IF left < n THEN FindData(Keep(s, p), Passed(p - 1), needle, chunk)
     ELSE IF SubSeq(s.in, p, p + n - 1) = needle
     THEN [ok |-> TRUE, s |-> Keep(s, p + n), out |-> Passed(p - 1)]
     ELSE FindData(Keep(s, p + 1), Passed(p), needle, chunk)

\* multipart_add_field: what is in front of the next boundary, less the line end; less
\* than one byte of value is no argument.
multipart_add_field(s, h, boundary, chunk) ==
  LET f == FindData(s, <<>>, boundary, chunk)
  IN IF f.ok /\ Len(f.out) >= 3
     THEN [s |-> f.s, add |-> <<[kind |-> "field", name |-> h, value |-> SubSeq(f.out, 1, Len(f.out) - 2)]>>]
     ELSE [s |-> f.s, add |-> <<>>]

\* multipart_file_add: the place in the body and the length are kept.
multipart_file_add(s, h, boundary, chunk) ==
  LET f == FindData(s, <<>>, boundary, chunk)
  IN IF f.ok /\ Len(f.out) >= 3
     THEN [s |-> f.s, add |-> <<[kind |-> "file", name |-> h, position |-> s.read - Len(s.in),
                                 length |-> Len(f.out) - 2]>>]
     ELSE [s |-> f.s, add |-> <<>>]

RECURSIVE multipart_parse_headers(_, _, _, _), PartsFrom(_, _, _)

\* The loop over the headers of a part: each content-disposition takes the data up to
\* the next boundary; other headers, and a file without a name, take nothing.
multipart_parse_headers(s, hs, boundary, chunk) ==
  IF hs = <<>> THEN [s |-> s, add |-> <<>>]
  ELSE LET h == Head(hs)
           a == IF h \in FieldHeaders THEN multipart_add_field(s, h, boundary, chunk)
                ELSE IF h \in FileHeaders THEN multipart_file_add(s, h, boundary, chunk)
                ELSE [s |-> s, add |-> <<>>]
           r == multipart_parse_headers(a.s, Tail(hs), boundary, chunk)
       IN [s |-> r.s, add |-> a.add \o r.add]

\* kore_split_string of the header block at line ends: four headers at most.
Headers(out) == LET hs == SelectSeq(out, LAMBDA x : x \notin {CR, LF})
                IN SubSeq(hs, 1, IF Len(hs) < 4 THEN Len(hs) ELSE 4)

\* The loop of http_populate_multipart_form, behind a boundary.
PartsFrom(s, boundary, chunk) ==
  LET Rest(p) == p.add \o PartsFrom(p.s, boundary, chunk)
      Part(h) == IF h.ok THEN Rest(multipart_parse_headers(h.s, Headers(h.out), boundary, chunk)) ELSE <<>>
      Line(e) == IF ~e.ok \/ (Len(e.s.in) < 4 /\ e.s.rest = <<>>) THEN <<>>
                 ELSE Part(FindData(e.s, <<>>, <<CR, LF, CR, LF>>, chunk))
  IN Line(FindData(s, <<>>, <<CR, LF>>, chunk))

http_populate_multipart_form(body, boundary, chunk) ==
  LET f == FindData([in |-> <<>>, rest |-> body, read |-> 0], <<>>, boundary, chunk)
  IN IF f.ok THEN PartsFrom(f.s, boundary, chunk) ELSE <<>>

RECURSIVE FileBytes(_, _, _, _)

\* http_file_read until it returns 0, len symbols at a time.
FileBytes(body, f, offset, len) ==
  LET toread == IF len < f.length - offset THEN len ELSE f.length - offset
      off == f.position + offset
  IN IF toread <= 0 \/ off > Len(body) THEN <<>>
     ELSE SubSeq(body, off + 1, off + toread) \o FileBytes(body, f, offset + toread, len)

-----------------------------------------------------------------------------
\* The arguments of a text "name=value&...": each piece gives one when it has a name
\* and a value that are not empty; what follows a second '=' is dropped.
Arguments(text, max) ==
  LET args == kore_split_string(text, "&", max)
      vals == [k \in DOMAIN args |-> kore_split_string(args[k], "=", 3)]
  IN SelectSeq(vals, LAMBDA v : Len(v) = 2)

\* http_populate_get: HTTP_MAX_QUERY_ARGS leaves room for one argument less.
http_populate_get(query, max) == Arguments(query, max)

\* HttpRequest::queryParam: the first argument of that name, <<>> for NULL.
queryParam(args, name) == LET k == SelectInSeq(args, LAMBDA a : a[1] = name)
                          IN IF k = 0 THEN <<>> ELSE args[k][2]

RECURSIVE ReadAll(_, _)
ReadAll(s, chunk) == IF s.rest = <<>> THEN s.in ELSE ReadAll(Read(s, chunk), chunk)

\* http_populate_post: the same of the body, which is read to its end.
http_populate_post(body, max, chunk) ==
  Arguments(ReadAll([in |-> <<>>, rest |-> body, read |-> 0], chunk), max)

-----------------------------------------------------------------------------
(* Properties                                                              *)

\* The body a client sends for a list of parts, some with a second header.
Rendered(parts, boundary) ==
  FlattenSeq([k \in DOMAIN parts |->
    boundary \o <<CR, LF, parts[k].name, CR, LF>>
      \o (IF parts[k].typed THEN <<"other", CR, LF>> ELSE <<>>)
      \o <<CR, LF>> \o parts[k].data \o <<CR, LF>>])
  \o boundary \o <<"-", "-", CR, LF>>

\* What becomes of a part: its name and its data, byte for byte.
Received(body, x, len) == IF x.kind = "field" THEN <<x.name, x.value>> ELSE <<x.name, FileBytes(body, x, 0, len)>>

\* What was got are the parts that have data.
AreParts(got, full, body, len) ==
  /\ Len(got) = Len(full)
  /\ \A k \in DOMAIN got : Received(body, got[k], len) = <<full[k].name, full[k].data>>

\* Every field and every file of a form arrives with its data, in order, however the
\* body is cut into reads and however the file is read back, also when its data hold
\* the beginning of a boundary; parts without data are left out.
PartsArrive(parts, boundary, chunk, len) ==
  \E body \in {Rendered(parts, boundary)} :
    AreParts(http_populate_multipart_form(body, boundary, chunk),
             SelectSeq(parts, LAMBDA p : p.data # <<>>), body, len)

\* The arguments of a form arrive in order, up to one less than the limit.
ArgumentsArrive(args, max, chunk) ==
  LET text == FlattenSeq([k \in DOMAIN args |->
                (IF k = 1 THEN <<>> ELSE <<"&">>) \o args[k][1] \o <<"=">> \o args[k][2]])
      want == SubSeq(args, 1, IF Len(args) < max THEN Len(args) ELSE max - 1)
      got == http_populate_get(text, max)
  IN /\ got = want /\ http_populate_post(text, max, chunk) = want
     /\ \A k \in DOMAIN want : (\A j \in 1 .. k - 1 : want[j][1] # want[k][1])
                               => queryParam(got, want[k][1]) = want[k][2]
=============================================================================
