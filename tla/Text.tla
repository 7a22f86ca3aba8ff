-------------------------------- MODULE Text --------------------------------
(***************************************************************************)
(* The text tools of base/kore/utils.c that routing, forms, authorization  *)
(* and static files use: splitting, searching, base64 and HTTP dates.      *)
(***************************************************************************)
EXTENDS Integers, Sequences, FiniteSets, SequencesExt

\* kore_mem_find for a single byte: its place in the text, or 0.
FirstOf(s, c) == SelectInSeq(s, LAMBDA x : x = c)

RECURSIVE SplitFrom(_, _, _)

\* The loop of kore_split_string: strsep finds the next token, an empty one is passed
\* over; there is room for one token less than the array has elements.
SplitFrom(s, delim, room) ==
  IF room = 0 \/ s = <<>> THEN <<>>
  ELSE LET k == FirstOf(s, delim)
           tok == IF k = 0 THEN s ELSE SubSeq(s, 1, k - 1)
           rest == IF k = 0 THEN <<>> ELSE SubSeq(s, k + 1, Len(s))
       IN IF tok = <<>> THEN SplitFrom(rest, delim, room)
          ELSE <<tok>> \o SplitFrom(rest, delim, room - 1)

kore_split_string(s, delim, ele) == IF ele = 0 THEN <<>> ELSE SplitFrom(s, delim, ele - 1)

-----------------------------------------------------------------------------
(* base64.  A character is its place in b64table, or Pad for '=', or       *)
(* Stray for a character that is not in the table.                         *)

Pad == 64
Stray == 65

\* The digits of group k: the three bytes at 3k - 2, zero where the data end.
Group(data, k) == LET B(i) == IF i <= Len(data) THEN data[i] ELSE 0
                      b == B(3 * k - 2) * 65536 + B(3 * k - 1) * 256 + B(3 * k)
                  IN <<b \div 262144, (b \div 4096) % 64, (b \div 64) % 64, b % 64>>

kore_base64_encode(data) ==
  LET padding == (3 - (Len(data) % 3)) % 3
      groups == (Len(data) + padding) \div 3
      digits == FlattenSeq([k \in 1 .. groups |-> Group(data, k)])
  IN SubSeq(digits, 1, Len(digits) - padding) \o [i \in 1 .. padding |-> Pad]

\* kore_base64_decode: up to the first '='; a group cut short counts only before a
\* '=', and needs two digits.
kore_base64_decode(in) ==
  LET k == FirstOf(in, Pad)
      ds == IF k = 0 THEN in ELSE SubSeq(in, 1, k - 1)
      full == Len(ds) \div 4
      left == Len(ds) % 4
      D(i) == IF i <= Len(ds) THEN ds[i] ELSE 0
      Bytes(g) == LET b == D(4 * g - 3) * 262144 + D(4 * g - 2) * 4096 + D(4 * g - 1) * 64 + D(4 * g)
                  IN <<b \div 65536, (b \div 256) % 256, b % 256>>
      whole == FlattenSeq([g \in 1 .. full |-> Bytes(g)])
  IN IF Stray \in ToSet(ds) \/ (k > 0 /\ left < 2) THEN [ok |-> FALSE]
     ELSE [ok |-> TRUE, data |-> IF k = 0 THEN whole ELSE whole \o SubSeq(Bytes(full + 1), 1, left - 1)]

-----------------------------------------------------------------------------
(* HTTP dates.  A date is the six fields that the spaces in it separate,   *)
(* the time of day again three of them; a field is a number or a name.     *)

Months == <<"Jan", "Feb", "Mar", "Apr", "May", "Jun", "Jul", "Aug", "Sep", "Oct", "Nov", "Dec">>

\* The days before year y of the calendar since the year 1970, and before its month m.
Leap(y) == y % 4 = 0 /\ (y % 100 # 0 \/ y % 400 = 0)
DaysTo(y) == 365 * (y - 1970) + ((y - 1969) \div 4) - ((y - 1901) \div 100) + ((y - 1601) \div 400)
DaysInto(y, m) == <<0, 31, 59, 90, 120, 151, 181, 212, 243, 273, 304, 334>>[m]
                    + (IF m > 2 /\ Leap(y) THEN 1 ELSE 0)

\* gmtime of the C library: the fields of a time.
gmtime(t) ==
  LET d == t \div 86400
      y == CHOOSE y \in 1970 .. 2038 : DaysTo(y) <= d /\ d < DaysTo(y + 1)
      n == d - DaysTo(y)
      m == CHOOSE m \in 1 .. 12 : DaysInto(y, m) <= n /\ (m = 12 \/ n < DaysInto(y, m + 1))
  IN [year |-> y, mon |-> m, mday |-> n - DaysInto(y, m) + 1,
      hour |-> (t % 86400) \div 3600, min |-> (t % 3600) \div 60, sec |-> t % 60]

\* mktime: the time whose local fields these are, with the offset that holds when
\* tm_isdst is what it is; a day past the end of a month is one of the next.
mktime(tm, gmtoff) == (DaysTo(tm.year) + DaysInto(tm.year, tm.mon) + tm.mday - 1) * 86400
                        + tm.hour * 3600 + tm.min * 60 + tm.sec - gmtoff

kore_time_to_date(t) ==
  LET tm == gmtime(t)
  IN <<"Day,", tm.mday, Months[tm.mon], tm.year, <<tm.hour, tm.min, tm.sec>>, "GMT">>

\* kore_strtonum of a field that is a number.
kore_strtonum(n, min, max) == n \in min .. max

\* kore_date_to_time, in a time zone whose offset is gmtoff now: the fields are taken for
\* local time and the offset is added again; 0 for a date with a field out of range.
kore_date_to_time(date, gmtoff) ==
  LET tm == [year |-> date[4], mon |-> SelectInSeq(Months, LAMBDA n : n = date[3]), mday |-> date[2],
             hour |-> date[5][1], min |-> date[5][2], sec |-> date[5][3]]
  IN IF /\ Len(date) = 6 /\ kore_strtonum(tm.year, 1900, 2068) /\ tm.mon # 0
        /\ kore_strtonum(tm.mday, 1, 31) /\ Len(date[5]) = 3
        /\ kore_strtonum(tm.hour, 0, 23) /\ kore_strtonum(tm.min, 0, 59) /\ kore_strtonum(tm.sec, 0, 60)
     THEN mktime(tm, gmtoff) + gmtoff ELSE 0

-----------------------------------------------------------------------------
\* What kore_base64_encode writes kore_base64_decode reads back.
Base64Returns(data) == kore_base64_decode(kore_base64_encode(data)) = [ok |-> TRUE, data |-> data]

\* The Last-Modified a client sends back as If-Modified-Since is the time of the file,
\* in every time zone.
DateReturns(t, gmtoff) == kore_date_to_time(kore_time_to_date(t), gmtoff) = t
=============================================================================
