--------------------------- MODULE MessagesProofs ---------------------------
(***************************************************************************)
(* The messages between the processes, for any number of workers, any      *)
(* messages and any ends of processes.                                     *)
(***************************************************************************)
EXTENDS Messages, WellFoundedInduction, TLAPS

\* Whom a message may be for, what is on a stream, and what is remembered of a message.
Dests == Ids \cup {PARENT, ALL}
Parts == [m : Nat \ {0}, part : {"head", "body"}, dst : Dests]
Message == [src : Ids, dst : Dests, type : {s[2] : s \in Sends}, inc : [Ids -> Nat]]

\* What is on its way from worker w to the parent, and from the parent to it.
UpStream(w) == uppipe[w] \o wqueue[w]
DownStream(w) == dnpipe[w] \o pqueue[w]

\* The stream q is cut between parts, and its reader has the header need.
Framed(need, q) ==
  /\ q # <<>> => q[1].part = (IF need = NoHeader THEN "head" ELSE "body") /\ (need # NoHeader => q[1].m = need)
  /\ \A i \in 1 .. Len(q) - 1 : /\ q[i].part = "head" => q[i + 1].part = "body" /\ q[i + 1].m = q[i].m
                                /\ q[i].part = "body" => q[i + 1].part = "head"

\* The stream q ends with a body: the next part may be a header.
Whole(need, q) == IF q = <<>> THEN need = NoHeader ELSE q[Len(q)].part = "body"

\* The messages whose bodies are before place j of q.
Before(q, j) == {q[i].m : i \in {i \in 1 .. j - 1 : q[i].part = "body"}}
Bodies(q) == Before(q, Len(q) + 1)

\* What worker w has got or will get of message m, when none of its lives ends.
Reached(m, w) == m \in Range(handled[w]) \cup Bodies(DownStream(w))

\* The parent has relayed message m.
Passed(m) == \A w \in Ids : For(m, w) /\ sent[m].inc[w] = inc[w] => Reached(m, w)

\* Message m is one that worker w must get before n.
Due(m, n, w) == m < n /\ For(m, w) /\ sent[m].inc[w] = inc[w] /\ SameLife(m, n)

\* The types of the variables.
Typed ==
  /\ sent \in Seq(Message)
  /\ up \in [Ids -> {"up", "dead", "gone"}] /\ inc \in [Ids -> Nat] /\ parentUp \in BOOLEAN
  /\ connections \in Seq(Ids)
  /\ wqueue \in [Ids -> Seq(Parts)] /\ uppipe \in [Ids -> Seq(Parts)] /\ pneed \in [Ids -> Nat]
  /\ pqueue \in [Ids -> Seq(Parts)] /\ dnpipe \in [Ids -> Seq(Parts)] /\ wneed \in [Ids -> Nat]
  /\ handled \in [Ids -> Seq(Nat)] /\ holders \in [Ids -> SUBSET (Ids \cup {PARENT})]

\* The processes: the parent has a connection to every worker, a worker that ended has
\* nothing queued, and one that runs holds the parent's end of its pair.
Running ==
  /\ parentUp => Range(connections) = Ids
  /\ \A w \in Ids : /\ up[w] # "up" => wqueue[w] = <<>>
                    /\ up[w] = "up" => w \in holders[w]

\* No message is of a life that is still to come.
Sent == \A m \in DOMAIN sent : /\ \A w \in Ids : sent[m].inc[w] <= inc[w]
                               /\ sent[m].type = "accesslog" => sent[m].dst = PARENT

\* What a worker sends: its own messages of this life, ...
UpOK(w) ==
  /\ Framed(pneed[w], UpStream(w)) /\ (up[w] = "up" => Whole(pneed[w], UpStream(w)))
  /\ \A j \in DOMAIN UpStream(w) :
       LET u == UpStream(w)[j]
       IN /\ u.m \in DOMAIN sent /\ sent[u.m].src = w /\ sent[u.m].inc[w] = inc[w]
          /\ u.dst = sent[u.m].dst

\* ... and none before the earlier ones.
UpOrder(w) == parentUp =>
  /\ \A j \in DOMAIN UpStream(w) : \A m \in DOMAIN sent :
       m < UpStream(w)[j].m /\ SameLife(m, UpStream(w)[j].m) => m \in Before(UpStream(w), j) \/ Passed(m)
  /\ up[w] = "up" =>
       \A m \in DOMAIN sent : sent[m].src = w /\ sent[m].inc[w] = inc[w] => m \in Bodies(UpStream(w)) \/ Passed(m)

\* What a worker gets: messages that are for it, under its id, ...
DownOK(w) ==
  /\ Framed(wneed[w], DownStream(w)) /\ (parentUp => Whole(wneed[w], DownStream(w)))
  /\ \A j \in DOMAIN DownStream(w) :
       LET u == DownStream(w)[j] IN u.m \in DOMAIN sent /\ For(u.m, w) /\ u.dst = w
  /\ \A i \in DOMAIN handled[w] : handled[w][i] \in DOMAIN sent /\ For(handled[w][i], w)

\* ... and none before the earlier ones of the same sender.
DownOrder(w) ==
  /\ \A j \in DOMAIN DownStream(w) : \A m \in DOMAIN sent :
       Due(m, DownStream(w)[j].m, w) => m \in Range(handled[w]) \cup Before(DownStream(w), j)
  /\ \A i \in DOMAIN handled[w] : \A m \in DOMAIN sent :
       Due(m, handled[w][i], w) => m \in {handled[w][k] : k \in 1 .. i - 1}

\* The inductive invariant.
Inv == /\ Typed /\ Running /\ Sent
       /\ \A w \in Ids : UpOK(w) /\ UpOrder(w) /\ DownOK(w) /\ DownOrder(w)

-----------------------------------------------------------------------------
(* Streams *)

\* The ids of workers are numbers, and neither PARENT nor ALL.
LEMMA IdsApart ==
  /\ Ids \subseteq Nat /\ PARENT \notin Ids /\ ALL \notin Ids /\ PARENT # ALL
<1>1. N \in 1 .. PARENT
  BY MessagesAssumption, Zenon
<1> QED
  BY <1>1 DEF Ids, PARENT, ALL

\* The two parts of a message.
LEMMA UnitsParts ==
  ASSUME NEW m \in Nat \ {0}, NEW d \in Dests
  PROVE  /\ Units(m, d) \in Seq(Parts) /\ Len(Units(m, d)) = 2
         /\ Units(m, d)[1] = [m |-> m, part |-> "head", dst |-> d]
         /\ Units(m, d)[2] = [m |-> m, part |-> "body", dst |-> d]
<1>1. [m |-> m, part |-> "head", dst |-> d] \in Parts /\ [m |-> m, part |-> "body", dst |-> d] \in Parts
  BY Zenon DEF Parts
<1> QED
  BY <1>1 DEF Units

\* A write moves the first parts of the queue to the socket (net_send_flush).
LEMMA Split ==
  ASSUME NEW T, NEW q \in Seq(T), NEW k \in 0 .. Len(q)
  PROVE  /\ Written(q, k) \in Seq(T) /\ Unwritten(q, k) \in Seq(T)
         /\ Written(q, k) \o Unwritten(q, k) = q
<1>1. Len(q) \in Nat
  OBVIOUS
<1>2. PICK a : a = Written(q, k)
  BY Zenon
<1>3. PICK b : b = Unwritten(q, k)
  BY Zenon
<1>4. a \in Seq(T) /\ Len(a) = k /\ \A i \in 1 .. k : a[i] = q[i]
  BY <1>1, <1>2 DEF Written
<1>5. b \in Seq(T) /\ Len(b) = Len(q) - k /\ \A i \in 1 .. Len(q) - k : b[i] = q[k + i]
  BY <1>1, <1>3 DEF Unwritten
<1>6. a \o b \in Seq(T) /\ Len(a \o b) = Len(q)
  BY <1>1, <1>4, <1>5
<1>7. ASSUME NEW i \in 1 .. Len(q) PROVE (a \o b)[i] = q[i]
  <2>1. CASE i <= k
    BY <1>4, <2>1
  <2>2. CASE i > k
    <3>1. i - k \in 1 .. Len(q) - k /\ i = k + (i - k)
      BY <1>1, <2>2
    <3>2. (a \o b)[i] = b[i - k]
      BY <1>1, <1>4, <1>5, <2>2
    <3>3. b[i - k] = q[k + (i - k)]
      BY <1>5, <3>1, Zenon
    <3> QED
      BY <3>1, <3>2, <3>3, Zenon
  <2>3. i <= k \/ i > k
    BY <1>1
  <2> QED
    BY <2>1, <2>2, <2>3, Zenon
<1>8. a \o b = q
  <2>1. PICK c : c = a \o b
    BY Zenon
  <2>2. c \in Seq(T) /\ Len(c) = Len(q) /\ \A i \in 1 .. Len(q) : c[i] = q[i]
    BY <1>6, <1>7, <2>1, Zenon
  <2>3. c = q
    BY <2>2
  <2> QED
    BY <2>1, <2>3, Zenon
<1> QED
  BY <1>2, <1>3, <1>4, <1>5, <1>8, Zenon

\* What the sequence of two sequences is.
LEMMA Concat ==
  ASSUME NEW T, NEW a \in Seq(T), NEW b \in Seq(T)
  PROVE  /\ a \o b \in Seq(T) /\ Len(a \o b) = Len(a) + Len(b)
         /\ Len(a) \in Nat /\ Len(b) \in Nat
         /\ \A i \in 1 .. Len(a) : (a \o b)[i] = a[i]
         /\ \A i \in 1 .. Len(b) : (a \o b)[Len(a) + i] = b[i]
  OBVIOUS

\* One behind the other, in whatever order they are put together.
LEMMA Assoc ==
  ASSUME NEW T, NEW a \in Seq(T), NEW b \in Seq(T), NEW c \in Seq(T)
  PROVE  (a \o b) \o c = a \o (b \o c)
<1>1. PICK l : l = (a \o b) \o c
  BY Zenon
<1>2. PICK r : r = a \o (b \o c)
  BY Zenon
<1>3. l \in Seq(T) /\ r \in Seq(T) /\ Len(l) = Len(r) /\ Len(r) = Len(a) + Len(b) + Len(c)
  BY <1>1, <1>2
<1>4. Len(a) \in Nat /\ Len(b) \in Nat /\ Len(c) \in Nat
  OBVIOUS
<1>5. ASSUME NEW i \in 1 .. Len(r) PROVE l[i] = r[i]
  <2>1. CASE i <= Len(a)
    BY <1>1, <1>2, <1>3, <1>4, <2>1
  <2>2. CASE i > Len(a) /\ i <= Len(a) + Len(b)
    <3>1. l[i] = b[i - Len(a)]
      BY <1>1, <1>3, <1>4, <2>2
    <3>2. r[i] = (b \o c)[i - Len(a)]
      BY <1>2, <1>3, <1>4, <2>2
    <3>3. (b \o c)[i - Len(a)] = b[i - Len(a)]
      BY <1>4, <2>2
    <3> QED
      BY <3>1, <3>2, <3>3, Zenon
  <2>3. CASE i > Len(a) + Len(b)
    <3>1. l[i] = c[i - (Len(a) + Len(b))]
      BY <1>1, <1>3, <1>4, <2>3
    <3>2. r[i] = (b \o c)[i - Len(a)]
      BY <1>2, <1>3, <1>4, <2>3
    <3>3. (b \o c)[i - Len(a)] = c[(i - Len(a)) - Len(b)]
      BY <1>3, <1>4, <2>3
    <3>4. (i - Len(a)) - Len(b) = i - (Len(a) + Len(b))
      BY <1>4
    <3> QED
      BY <3>1, <3>2, <3>3, <3>4, Zenon
  <2> QED
    BY <1>4, <2>1, <2>2, <2>3
<1>6. l = r
  BY <1>3, <1>5
<1> QED
  BY <1>1, <1>2, <1>6, Zenon

\* A write changes nothing of what is on its way: p is the socket, q the queue.
LEMMA Rejoin ==
  ASSUME NEW T, NEW p \in Seq(T), NEW q \in Seq(T), NEW k \in 0 .. Len(q)
  PROVE  /\ p \o Written(q, k) \in Seq(T) /\ Unwritten(q, k) \in Seq(T)
         /\ (p \o Written(q, k)) \o Unwritten(q, k) = p \o q
<1>1. PICK a : a = Written(q, k)
  BY Zenon
<1>2. PICK b : b = Unwritten(q, k)
  BY Zenon
<1>3. a \in Seq(T) /\ b \in Seq(T) /\ a \o b = q
  BY <1>1, <1>2, Split, Zenon
<1>4. a \in Seq(T) /\ b \in Seq(T)
  BY <1>3, Zenon
<1>5. (p \o a) \o b = p \o (a \o b)
  BY <1>4, Assoc, SMTT(30)
<1>6. p \o a \in Seq(T)
  BY <1>4, Concat, Zenon
<1> QED
  BY <1>1, <1>2, <1>3, <1>5, <1>6, Zenon

\* The reader takes the first part.
LEMMA FramedTail ==
  ASSUME NEW q \in Seq(Parts), q # <<>>, NEW need \in Nat, Framed(need, q)
  PROVE  /\ need = NoHeader => Head(q).part = "head" /\ Framed(Head(q).m, Tail(q))
         /\ need # NoHeader => Head(q).part = "body" /\ Head(q).m = need /\ Framed(NoHeader, Tail(q))
         /\ Whole(need, q) /\ need = NoHeader => Whole(Head(q).m, Tail(q))
         /\ Whole(need, q) /\ need # NoHeader => Whole(NoHeader, Tail(q))
<1>1. PICK t : t = Tail(q)
  BY Zenon
<1>2. /\ t \in Seq(Parts) /\ Len(t) = Len(q) - 1 /\ \A i \in 1 .. Len(t) : t[i] = q[i + 1]
      /\ Len(q) \in Nat /\ Len(q) > 0
  BY <1>1
<1>3. Head(q) = q[1] /\ q[1].m \in Nat \ {0} /\ q[1].part \in {"head", "body"}
  <2>1. q[1] \in Parts /\ Head(q) = q[1]
    BY <1>2
  <2> QED
    BY <2>1, Zenon DEF Parts
<1>4. q[1].part = (IF need = NoHeader THEN "head" ELSE "body") /\ (need # NoHeader => q[1].m = need)
  BY Zenon DEF Framed
<1>5. \A i \in 1 .. Len(t) - 1 : /\ t[i].part = "head" => t[i + 1].part = "body" /\ t[i + 1].m = t[i].m
                                 /\ t[i].part = "body" => t[i + 1].part = "head"
  <2> TAKE i \in 1 .. Len(t) - 1
  <2>1. i + 1 \in 1 .. Len(q) - 1 /\ t[i] = q[i + 1] /\ t[i + 1] = q[(i + 1) + 1]
    BY <1>2
  <2> QED
    BY <2>1, Zenon DEF Framed
<1>6. t # <<>> => t[1] = q[2] /\ 1 \in 1 .. Len(q) - 1
  BY <1>2
<1>7. t # <<>> => /\ q[1].part = "head" => t[1].part = "body" /\ t[1].m = q[1].m
                  /\ q[1].part = "body" => t[1].part = "head"
  BY <1>6 DEF Framed
<1>8. need = NoHeader => Framed(q[1].m, t)
  BY <1>3, <1>4, <1>5, <1>7, Zenon DEF Framed, NoHeader
<1>9. need # NoHeader => Framed(NoHeader, t)
  BY <1>3, <1>4, <1>5, <1>7, Zenon DEF Framed, NoHeader
<1>10. t # <<>> => t[Len(t)] = q[Len(q)]
  BY <1>2
<1>11. t = <<>> => q[Len(q)] = q[1]
  <2>1. t = <<>> => Len(t) = 0
    BY <1>2
  <2>2. t = <<>> => Len(q) = 1
    BY <1>2, <2>1
  <2> QED
    BY <2>2, Zenon
<1>12. Whole(need, q) => q[Len(q)].part = "body"
  BY Zenon DEF Whole
<1>13. Whole(need, q) /\ need = NoHeader => Whole(q[1].m, t)
  BY <1>4, <1>10, <1>11, <1>12, Zenon DEF Whole
<1>14. Whole(need, q) /\ need # NoHeader => Whole(NoHeader, t)
  BY <1>4, <1>10, <1>11, <1>12, Zenon DEF Whole
<1> QED
  BY <1>1, <1>3, <1>4, <1>8, <1>9, <1>13, <1>14, Zenon

\* A message goes behind a stream that ends with a body.
LEMMA FramedUnits ==
  ASSUME NEW q \in Seq(Parts), NEW need \in Nat, Framed(need, q), Whole(need, q),
         NEW m \in Nat \ {0}, NEW d \in Dests
  PROVE  Framed(need, q \o Units(m, d)) /\ Whole(need, q \o Units(m, d))
<1>1. PICK u : u = Units(m, d)
  BY Zenon
<1>2. u \in Seq(Parts) /\ Len(u) = 2 /\ u[1] = [m |-> m, part |-> "head", dst |-> d]
      /\ u[2] = [m |-> m, part |-> "body", dst |-> d]
  BY <1>1, UnitsParts, Zenon
<1>3. PICK r : r = q \o u
  BY Zenon
<1>4. Len(q) \in Nat /\ r \in Seq(Parts) /\ Len(r) = Len(q) + 2 /\ \A i \in 1 .. Len(q) : r[i] = q[i]
  <2>1. u \in Seq(Parts) /\ Len(u) = 2
    BY <1>2, Zenon
  <2>2. /\ q \o u \in Seq(Parts) /\ Len(q \o u) = Len(q) + Len(u)
        /\ Len(q) \in Nat /\ \A i \in 1 .. Len(q) : (q \o u)[i] = q[i]
    BY <2>1, Concat, ZenonT(60)
  <2>3. r \in Seq(Parts) /\ Len(r) = Len(q) + Len(u) /\ Len(q) \in Nat /\ \A i \in 1 .. Len(q) : r[i] = q[i]
    BY <1>3, <2>2, Zenon
  <2> QED
    BY <2>1, <2>2, <2>3, Zenon
<1>5. r[Len(q) + 1] = u[1] /\ r[Len(q) + 2] = u[2]
  BY <1>2, <1>3, <1>4
<1>6. u[1].part = "head" /\ u[1].m = m /\ u[2].part = "body" /\ u[2].m = m
  BY <1>2
<1>7. r # <<>> /\ r[1].part = (IF need = NoHeader THEN "head" ELSE "body") /\ (need # NoHeader => r[1].m = need)
  <2>1. CASE q = <<>>
    <3>1. need = NoHeader /\ r[1] = u[1]
      BY <1>4, <1>5, <2>1 DEF Whole
    <3> QED
      BY <1>4, <1>6, <3>1
  <2>2. CASE q # <<>>
    <3>1. r[1] = q[1]
      BY <1>4, <2>2
    <3> QED
      BY <1>4, <2>2, <3>1 DEF Framed
  <2> QED
    BY <2>1, <2>2, Zenon
<1>8. ASSUME NEW i \in 1 .. Len(r) - 1
      PROVE  /\ r[i].part = "head" => r[i + 1].part = "body" /\ r[i + 1].m = r[i].m
             /\ r[i].part = "body" => r[i + 1].part = "head"
  <2>1. CASE i < Len(q)
    <3>1. i \in 1 .. Len(q) - 1 /\ r[i] = q[i] /\ r[i + 1] = q[i + 1]
      BY <1>4, <2>1
    <3> QED
      BY <3>1, Zenon DEF Framed
  <2>2. CASE i = Len(q)
    <3>1. r[i] = q[Len(q)] /\ r[i + 1] = u[1] /\ q # <<>>
      BY <1>4, <1>5, <2>2
    <3>2. q[Len(q)].part = "body"
      BY <3>1, Zenon DEF Whole
    <3> QED
      BY <1>6, <3>1, <3>2, Zenon
  <2>3. CASE i = Len(q) + 1
    <3>1. r[i] = u[1] /\ r[i + 1] = u[2]
      BY <1>4, <1>5, <2>3
    <3> QED
      BY <1>6, <3>1, Zenon
  <2> QED
    BY <1>4, <2>1, <2>2, <2>3
<1>9. r[Len(r)].part = "body"
  BY <1>4, <1>5, <1>6, Zenon
<1> QED
  BY <1>1, <1>3, <1>7, <1>8, <1>9, Zenon DEF Framed, Whole

\* The first parts of a stream are a stream: an end of a process takes the last ones.
LEMMA FramedPrefix ==
  ASSUME NEW q \in Seq(Parts), NEW r \in Seq(Parts), NEW need, Framed(need, q \o r)
  PROVE  Framed(need, q)
<1>1. PICK s : s = q \o r
  BY Zenon
<1>2. Len(s) = Len(q) + Len(r) /\ Len(q) \in Nat /\ Len(r) \in Nat /\ \A i \in 1 .. Len(q) : s[i] = q[i]
  BY <1>1
<1>3. q # <<>> => s # <<>> /\ s[1] = q[1]
  BY <1>1, <1>2
<1>4. ASSUME NEW i \in 1 .. Len(q) - 1 PROVE i \in 1 .. Len(s) - 1 /\ s[i] = q[i] /\ s[i + 1] = q[i + 1]
  BY <1>2
<1>5. Framed(need, s)
  BY <1>1, Zenon
<1> QED
  BY <1>3, <1>4, <1>5 DEF Framed

\* What is before a place of a stream does not depend on what is behind it, ...
LEMMA BeforePrefix ==
  ASSUME NEW q \in Seq(Parts), NEW r \in Seq(Parts), NEW j \in 1 .. Len(q) + 1
  PROVE  Before(q \o r, j) = Before(q, j)
<1>1. \A i \in 1 .. j - 1 : (q \o r)[i] = q[i]
  OBVIOUS
<1> QED
  BY <1>1, Zenon DEF Before

\* ... and loses what the reader takes.
LEMMA BeforeTail ==
  ASSUME NEW q \in Seq(Parts), q # <<>>, NEW j \in 1 .. Len(q)
  PROVE  Before(q, j + 1) = Before(Tail(q), j) \cup (IF Head(q).part = "body" THEN {Head(q).m} ELSE {})
<1>1. PICK t : t = Tail(q)
  BY Zenon
<1>2. Len(q) \in Nat /\ j \in Nat /\ j >= 1 /\ Head(q) = q[1] /\ \A i \in 1 .. j - 1 : t[i] = q[i + 1]
  BY <1>1
<1>3. ASSUME NEW x \in Before(q, j + 1)
      PROVE  x \in Before(t, j) \cup (IF q[1].part = "body" THEN {q[1].m} ELSE {})
  <2>1. PICK i \in 1 .. j : q[i].part = "body" /\ x = q[i].m
    BY <1>2 DEF Before
  <2>2. CASE i = 1
    BY <2>1, <2>2, Zenon
  <2>3. CASE i # 1
    <3>1. i - 1 \in 1 .. j - 1 /\ t[i - 1] = q[i]
      BY <1>2, <2>3
    <3> QED
      BY <2>1, <3>1, Zenon DEF Before
  <2> QED
    BY <2>2, <2>3, Zenon
<1>4. ASSUME NEW x \in Before(t, j) PROVE x \in Before(q, j + 1)
  <2>1. PICK i \in 1 .. j - 1 : t[i].part = "body" /\ x = t[i].m
    BY Zenon DEF Before
  <2>2. i + 1 \in 1 .. (j + 1) - 1 /\ q[i + 1].part = "body" /\ x = q[i + 1].m
    BY <1>2, <2>1
  <2> QED
    BY <2>2, Zenon DEF Before
<1>5. q[1].part = "body" => q[1].m \in Before(q, j + 1)
  <2>1. 1 \in 1 .. (j + 1) - 1
    BY <1>2
  <2> QED
    BY <2>1, Zenon DEF Before
<1>6. Before(q, j + 1) = Before(t, j) \cup (IF q[1].part = "body" THEN {q[1].m} ELSE {})
  BY <1>3, <1>4, <1>5, Zenon
<1> QED
  BY <1>1, <1>2, <1>6, Zenon

\* The reader takes one body at most.
LEMMA BodiesTail ==
  ASSUME NEW q \in Seq(Parts), q # <<>>
  PROVE  Bodies(q) = Bodies(Tail(q)) \cup (IF Head(q).part = "body" THEN {Head(q).m} ELSE {})
<1>1. Len(q) \in 1 .. Len(q) /\ Len(Tail(q)) + 1 = Len(q)
  OBVIOUS
<1>2. Before(q, Len(q) + 1) = Before(Tail(q), Len(q)) \cup (IF Head(q).part = "body" THEN {Head(q).m} ELSE {})
  BY <1>1, BeforeTail, Zenon
<1> QED
  BY <1>1, <1>2, Zenon DEF Bodies

\* What is before a place is before a later one.
LEMMA BeforeMore ==
  ASSUME NEW q, NEW i \in Int, NEW j \in Int, i <= j
  PROVE  Before(q, i) \subseteq Before(q, j)
<1>1. 1 .. i - 1 \subseteq 1 .. j - 1
  OBVIOUS
<1> QED
  BY <1>1, Zenon DEF Before

\* A message that is sent adds its body.
LEMMA BodiesUnits ==
  ASSUME NEW q \in Seq(Parts), NEW m \in Nat \ {0}, NEW d \in Dests
  PROVE  Bodies(q \o Units(m, d)) = Bodies(q) \cup {m}
<1>1. PICK u : u = Units(m, d)
  BY Zenon
<1>2. u \in Seq(Parts) /\ Len(u) = 2 /\ u[1] = [m |-> m, part |-> "head", dst |-> d]
      /\ u[2] = [m |-> m, part |-> "body", dst |-> d]
  BY <1>1, UnitsParts, Zenon
<1>3. PICK r : r = q \o u
  BY Zenon
<1>4. Len(q) \in Nat /\ r \in Seq(Parts) /\ Len(r) = Len(q) + 2 /\ \A i \in 1 .. Len(q) : r[i] = q[i]
  <2>1. u \in Seq(Parts) /\ Len(u) = 2
    BY <1>2, Zenon
  <2>2. /\ q \o u \in Seq(Parts) /\ Len(q \o u) = Len(q) + Len(u)
        /\ Len(q) \in Nat /\ \A i \in 1 .. Len(q) : (q \o u)[i] = q[i]
    BY <2>1, Concat, ZenonT(60)
  <2>3. r \in Seq(Parts) /\ Len(r) = Len(q) + Len(u) /\ Len(q) \in Nat /\ \A i \in 1 .. Len(q) : r[i] = q[i]
    BY <1>3, <2>2, Zenon
  <2> QED
    BY <2>1, <2>2, <2>3, Zenon
<1>5. r[Len(q) + 1] = u[1] /\ r[Len(q) + 2] = u[2]
  BY <1>2, <1>3, <1>4
<1>6. r[Len(q) + 1].part = "head" /\ r[Len(q) + 2].part = "body" /\ r[Len(q) + 2].m = m
  BY <1>2, <1>5
<1>7. ASSUME NEW x \in Bodies(r) PROVE x \in Bodies(q) \cup {m}
  <2>1. PICK i \in 1 .. Len(q) + 2 : r[i].part = "body" /\ x = r[i].m
    BY <1>4 DEF Bodies, Before
  <2>2. i \in 1 .. Len(q) \/ i = Len(q) + 1 \/ i = Len(q) + 2
    BY <1>4
  <2>3. CASE i \in 1 .. Len(q)
    BY <1>4, <2>1, <2>3 DEF Bodies, Before
  <2> QED
    BY <1>6, <2>1, <2>2, <2>3, Zenon
<1>8. ASSUME NEW x \in Bodies(q) PROVE x \in Bodies(r)
  <2>1. PICK i \in 1 .. (Len(q) + 1) - 1 : q[i].part = "body" /\ x = q[i].m
    BY Zenon DEF Bodies, Before
  <2>2. i \in 1 .. (Len(r) + 1) - 1 /\ r[i] = q[i]
    BY <1>4
  <2> QED
    BY <2>1, <2>2, Zenon DEF Bodies, Before
<1>9. m \in Bodies(r)
  <2>1. Len(q) + 2 \in 1 .. (Len(r) + 1) - 1
    BY <1>4
  <2> QED
    BY <1>6, <2>1, Zenon DEF Bodies, Before
<1> QED
  BY <1>1, <1>3, <1>7, <1>8, <1>9, Zenon

\* A part is taken from the socket: the queue behind it stays.
LEMMA TailConcat ==
  ASSUME NEW T, NEW a \in Seq(T), NEW b \in Seq(T), a # <<>>
  PROVE  /\ Tail(a) \in Seq(T) /\ Head(a) \in T
         /\ a \o b # <<>> /\ Head(a \o b) = Head(a) /\ Tail(a \o b) = Tail(a) \o b
<1>1. PICK q : q = a \o b
  BY Zenon
<1>2. /\ q \in Seq(T) /\ Len(q) = Len(a) + Len(b) /\ Len(a) \in Nat /\ Len(b) \in Nat
      /\ \A i \in 1 .. Len(a) : q[i] = a[i]
      /\ \A i \in 1 .. Len(b) : q[Len(a) + i] = b[i]
  BY <1>1, Concat
<1>3. Len(a) >= 1 /\ q # <<>> /\ Head(q) = q[1] /\ Head(a) = a[1]
  BY <1>2
<1>4. PICK t : t = Tail(a)
  BY Zenon
<1>5. t \in Seq(T) /\ Len(t) = Len(a) - 1 /\ \A i \in 1 .. Len(t) : t[i] = a[i + 1]
  BY <1>3, <1>4
<1>6. PICK l : l = Tail(q)
  BY Zenon
<1>7. l \in Seq(T) /\ Len(l) = Len(q) - 1 /\ \A i \in 1 .. Len(l) : l[i] = q[i + 1]
  BY <1>2, <1>3, <1>6
<1>8. PICK r : r = t \o b
  BY Zenon
<1>9. /\ r \in Seq(T) /\ Len(r) = Len(t) + Len(b)
      /\ \A i \in 1 .. Len(t) : r[i] = t[i]
      /\ \A i \in 1 .. Len(b) : r[Len(t) + i] = b[i]
  BY <1>5, <1>8, Concat, SMTT(30)
<1>10. ASSUME NEW i \in 1 .. Len(l) PROVE l[i] = r[i]
  <2>1. CASE i <= Len(t)
    <3>1. l[i] = q[i + 1] /\ i + 1 \in 1 .. Len(a) /\ r[i] = t[i] /\ t[i] = a[i + 1]
      BY <1>2, <1>3, <1>5, <1>7, <1>9, <2>1
    <3> QED
      BY <1>2, <3>1, Zenon
  <2>2. CASE i > Len(t)
    <3>1. i - Len(t) \in 1 .. Len(b) /\ i = Len(t) + (i - Len(t)) /\ i + 1 = Len(a) + (i - Len(t))
      BY <1>2, <1>3, <1>5, <1>7, <2>2
    <3>2. r[Len(t) + (i - Len(t))] = b[i - Len(t)] /\ q[Len(a) + (i - Len(t))] = b[i - Len(t)]
      BY <1>2, <1>9, <3>1, Zenon
    <3> QED
      BY <1>7, <3>1, <3>2, Zenon
  <2> QED
    BY <1>2, <1>3, <1>5, <2>1, <2>2
<1>11. l = r
  <2>1. Len(l) = Len(r)
    BY <1>2, <1>3, <1>5, <1>7, <1>9
  <2> QED
    BY <1>7, <1>9, <1>10, <2>1, SMTT(30)
<1> QED
  BY <1>1, <1>2, <1>3, <1>4, <1>5, <1>6, <1>8, <1>11

-----------------------------------------------------------------------------
(* What a step leaves alone *)

\* The streams are sequences of parts.
LEMMA StreamsTyped ==
  ASSUME Typed, NEW w \in Ids
  PROVE  UpStream(w) \in Seq(Parts) /\ DownStream(w) \in Seq(Parts)
<1>1. uppipe[w] \in Seq(Parts) /\ wqueue[w] \in Seq(Parts) /\ dnpipe[w] \in Seq(Parts) /\ pqueue[w] \in Seq(Parts)
  BY Zenon DEF Typed
<1> QED
  BY <1>1, Concat, Zenon DEF UpStream, DownStream

\* The messages sent so far stay as they are.
Grows == DOMAIN sent \subseteq DOMAIN sent' /\ \A m \in DOMAIN sent : sent'[m] = sent[m]

\* The stream of a worker to the parent is as it was.
LEMMA UpKept ==
  ASSUME NEW w \in Ids, UpOK(w), Grows, UpStream(w)' = UpStream(w), pneed'[w] = pneed[w],
         inc'[w] = inc[w], up'[w] = "up" => up[w] = "up"
  PROVE  UpOK(w)'
  BY DEF UpOK, Grows

\* The stream from the parent to a worker is as it was.
LEMMA DownKept ==
  ASSUME NEW w \in Ids, Typed, Typed', DownOK(w), DownOrder(w), Grows, DownStream(w)' = DownStream(w),
         wneed'[w] = wneed[w], handled'[w] = handled[w], inc'[w] = inc[w], parentUp' => parentUp
  PROVE  DownOK(w)' /\ DownOrder(w)'
<1>1. DownOK(w)'
  BY DEF DownOK, Grows, For
<1>2. DOMAIN sent = 1 .. Len(sent) /\ DOMAIN sent' = 1 .. Len(sent') /\ Len(sent) \in Nat /\ Len(sent') \in Nat
  OBVIOUS
<1>3. ASSUME NEW n \in DOMAIN sent, NEW m \in DOMAIN sent', Due(m, n, w)'
      PROVE  m \in DOMAIN sent /\ Due(m, n, w)
  <2>1. m < n
    BY <1>3, Zenon DEF Due
  <2>2. m \in DOMAIN sent
    BY <1>2, <2>1
  <2> QED
    BY <1>3, <2>2, Zenon DEF Due, Grows, For, SameLife
<1>4. \A j \in DOMAIN DownStream(w) : DownStream(w)[j].m \in DOMAIN sent
  BY Zenon DEF DownOK
<1>5. \A i \in DOMAIN handled[w] : handled[w][i] \in DOMAIN sent
  BY Zenon DEF DownOK
<1>6. \A j \in DOMAIN DownStream(w)' : \A m \in DOMAIN sent' :
        Due(m, DownStream(w)[j].m, w)' => m \in Range(handled'[w]) \cup Before(DownStream(w)', j)
  <2> TAKE j \in DOMAIN DownStream(w)'
  <2> TAKE m \in DOMAIN sent'
  <2> HAVE Due(m, DownStream(w)[j].m, w)'
  <2>1. PICK n : n = DownStream(w)[j].m
    BY Zenon
  <2>2. DownStream(w)'[j].m = n /\ n \in DOMAIN sent /\ Due(m, n, w)'
    BY <1>4, <2>1, Zenon DEF Due, SameLife
  <2>3. m \in DOMAIN sent /\ Due(m, n, w)
    BY <1>3, <2>2, Zenon
  <2> QED
    BY <2>1, <2>3, Zenon DEF DownOrder
<1>7. \A i \in DOMAIN handled'[w] : \A m \in DOMAIN sent' :
        Due(m, handled[w][i], w)' => m \in {handled'[w][k] : k \in 1 .. i - 1}
  <2> TAKE i \in DOMAIN handled'[w]
  <2> TAKE m \in DOMAIN sent'
  <2> HAVE Due(m, handled[w][i], w)'
  <2>1. PICK n : n = handled[w][i]
    BY Zenon
  <2>2. handled'[w][i] = n /\ n \in DOMAIN sent /\ Due(m, n, w)'
    BY <1>5, <2>1, Zenon DEF Due, SameLife
  <2>3. m \in DOMAIN sent /\ Due(m, n, w)
    BY <1>3, <2>2, Zenon
  <2> QED
    BY <2>1, <2>3 DEF DownOrder
<1> QED
  BY <1>1, <1>6, <1>7, Zenon DEF DownOrder

\* What the parent has relayed it has relayed, and a worker's stream to it is as it was.
LEMMA OrderKept ==
  ASSUME NEW w \in Ids, UpOrder(w), sent' = sent, UpStream(w)' = UpStream(w), inc'[w] = inc[w],
         up'[w] = "up" => up[w] = "up", parentUp' => parentUp,
         parentUp' => \A m \in DOMAIN sent : Passed(m) => Passed(m)'
  PROVE  UpOrder(w)'
  BY Zenon DEF UpOrder, SameLife

\* No worker that lives on loses a message that reached it.
LEMMA PassedKept ==
  ASSUME Typed, Sent, NEW m \in DOMAIN sent, sent' = sent,
         \A v \in Ids : inc'[v] \in Nat /\ inc'[v] >= inc[v] /\ (inc'[v] = inc[v] => (Reached(m, v) => Reached(m, v)'))
  PROVE  Passed(m) => Passed(m)'
<1>1. \A v \in Ids : sent[m].inc[v] <= inc[v] /\ sent[m].inc[v] \in Nat /\ inc[v] \in Nat
  <2>1. sent[m].inc \in [Ids -> Nat] /\ inc \in [Ids -> Nat]
    <3>1. sent[m] \in Message /\ inc \in [Ids -> Nat]
      BY DEF Typed
    <3> QED
      BY <3>1, Zenon DEF Message
  <2> QED
    BY <2>1, Zenon DEF Sent
<1>2. ASSUME Passed(m), NEW v \in Ids, For(m, v)', sent[m].inc[v] = inc'[v] PROVE Reached(m, v)'
  <2>1. inc'[v] = inc[v]
    BY <1>1, <1>2
  <2>2. For(m, v)
    BY <1>2, Zenon DEF For
  <2> QED
    BY <1>2, <2>1, <2>2, Zenon DEF Passed
<1> QED
  BY <1>2, Zenon DEF Passed

\* A write changes no stream.
LEMMA Unmoved ==
  ASSUME Inv, Typed', Running', UNCHANGED <<sent, up, inc, parentUp, pneed, wneed, handled>>,
         \A v \in Ids : UpStream(v)' = UpStream(v) /\ DownStream(v)' = DownStream(v)
  PROVE  Inv'
<1>1. Grows
  BY Zenon DEF Grows
<1>2. Typed /\ Sent /\ \A v \in Ids : UpOK(v) /\ UpOrder(v) /\ DownOK(v) /\ DownOrder(v)
  BY Zenon DEF Inv
<1>3. Sent'
  BY <1>2, Zenon DEF Sent
<1>4. ASSUME NEW m \in DOMAIN sent, Passed(m) PROVE Passed(m)'
  BY <1>4, Zenon DEF Passed, For, Reached
<1>5. ASSUME NEW v \in Ids PROVE UpOK(v)' /\ DownOK(v)' /\ DownOrder(v)'
  BY <1>1, <1>2, UpKept, DownKept, Zenon
<1>6. ASSUME NEW v \in Ids PROVE UpOrder(v)'
  BY <1>2, <1>4, OrderKept, Zenon
<1> QED
  BY <1>3, <1>5, <1>6, Zenon DEF Inv

\* net_send_flush in a worker and in the parent.
LEMMA FlushKeeps ==
  ASSUME Inv, NEW w \in Ids, WorkerFlush(w) \/ ParentFlush(w)
  PROVE  Inv'
<1>1. Typed /\ Running
  BY Zenon DEF Inv
<1>2. CASE WorkerFlush(w)
  <2>1. PICK k \in 1 .. Len(wqueue[w]) :
          /\ up[w] = "up"
          /\ wqueue' = [wqueue EXCEPT ![w] = Unwritten(wqueue[w], k)]
          /\ uppipe' = [uppipe EXCEPT ![w] = uppipe[w] \o Written(wqueue[w], k)]
          /\ UNCHANGED <<sent, pneed, downward, handled, logged, processes>>
    BY <1>2, Zenon DEF WorkerFlush
  <2>2. wqueue[w] \in Seq(Parts) /\ uppipe[w] \in Seq(Parts) /\ k \in 0 .. Len(wqueue[w])
    BY <1>1 DEF Typed
  <2>3. PICK a : a = uppipe[w] \o Written(wqueue[w], k)
    BY Zenon
  <2>4. PICK b : b = Unwritten(wqueue[w], k)
    BY Zenon
  <2>5. a \in Seq(Parts) /\ b \in Seq(Parts) /\ a \o b = UpStream(w)
    BY <2>2, <2>3, <2>4, Rejoin, ZenonT(60) DEF UpStream
  <2>7. wqueue' = [wqueue EXCEPT ![w] = b] /\ uppipe' = [uppipe EXCEPT ![w] = a]
    BY <2>1, <2>3, <2>4, Zenon
  <2>8. UNCHANGED <<sent, up, inc, parentUp, connections, pneed, pqueue, dnpipe, wneed, handled, holders>>
    BY <2>1, Zenon DEF downward, processes
  <2>9. Typed'
    BY <1>1, <2>5, <2>7, <2>8, Zenon DEF Typed
  <2>10. Running'
    BY <1>1, <2>1, <2>7, <2>8, Zenon DEF Running, Typed
  <2>11. \A v \in Ids : UpStream(v)' = UpStream(v) /\ DownStream(v)' = DownStream(v)
    <3> TAKE v \in Ids
    <3>1. CASE v = w
      BY <1>1, <2>5, <2>7, <2>8, <3>1, Zenon DEF UpStream, DownStream, Typed
    <3>2. CASE v # w
      BY <1>1, <2>7, <2>8, <3>2, Zenon DEF UpStream, DownStream, Typed
    <3> QED
      BY <3>1, <3>2, Zenon
  <2> QED
    BY <2>8, <2>9, <2>10, <2>11, Unmoved, Zenon
<1>3. CASE ParentFlush(w)
  <2>1. PICK k \in 1 .. Len(pqueue[w]) :
          /\ pqueue' = [pqueue EXCEPT ![w] = Unwritten(pqueue[w], k)]
          /\ dnpipe' = [dnpipe EXCEPT ![w] = dnpipe[w] \o Written(pqueue[w], k)]
          /\ UNCHANGED <<sent, upward, wneed, handled, logged, processes>>
    BY <1>3, Zenon DEF ParentFlush
  <2>2. pqueue[w] \in Seq(Parts) /\ dnpipe[w] \in Seq(Parts) /\ k \in 0 .. Len(pqueue[w])
    BY <1>1 DEF Typed
  <2>3. PICK a : a = dnpipe[w] \o Written(pqueue[w], k)
    BY Zenon
  <2>4. PICK b : b = Unwritten(pqueue[w], k)
    BY Zenon
  <2>5. a \in Seq(Parts) /\ b \in Seq(Parts) /\ a \o b = DownStream(w)
    BY <2>2, <2>3, <2>4, Rejoin, Zenon DEF DownStream
  <2>7. pqueue' = [pqueue EXCEPT ![w] = b] /\ dnpipe' = [dnpipe EXCEPT ![w] = a]
    BY <2>1, <2>3, <2>4, Zenon
  <2>8. UNCHANGED <<sent, up, inc, parentUp, connections, wqueue, uppipe, pneed, wneed, handled, holders>>
    BY <2>1, Zenon DEF upward, processes
  <2>9. Typed'
    BY <1>1, <2>5, <2>7, <2>8, Zenon DEF Typed
  <2>10. Running'
    BY <1>1, <2>8, Zenon DEF Running
  <2>11. \A v \in Ids : UpStream(v)' = UpStream(v) /\ DownStream(v)' = DownStream(v)
    <3> TAKE v \in Ids
    <3>1. CASE v = w
      BY <1>1, <2>5, <2>7, <2>8, <3>1, Zenon DEF UpStream, DownStream, Typed
    <3>2. CASE v # w
      BY <1>1, <2>7, <2>8, <3>2, Zenon DEF UpStream, DownStream, Typed
    <3> QED
      BY <3>1, <3>2, Zenon
  <2> QED
    BY <2>8, <2>9, <2>10, <2>11, Unmoved, Zenon
<1> QED
  BY <1>2, <1>3, Zenon

-----------------------------------------------------------------------------
(* The steps *)

\* kore_msg_send.
LEMMA SendKeeps ==
  ASSUME Inv, NEW s \in Sends, Send(s[1], s[2], s[3])
  PROVE  Inv'
<1>1. PICK w \in Ids, d \in Dests : w = s[1] /\ d = s[3] /\ (s[2] = "accesslog" => d = PARENT)
  BY MessagesAssumption, Zenon DEF Dests
<1>2. PICK h : h = Len(sent) + 1
  BY Zenon
<1>3. PICK msg : msg = [src |-> w, dst |-> d, type |-> s[2], inc |-> inc]
  BY Zenon
<1>4. /\ Typed /\ Running /\ Sent
      /\ \A v \in Ids : UpOK(v) /\ UpOrder(v) /\ DownOK(v) /\ DownOrder(v)
  BY Zenon DEF Inv
<1>5. sent \in Seq(Message) /\ DOMAIN sent = 1 .. Len(sent) /\ Len(sent) \in Nat /\ inc \in [Ids -> Nat]
  BY <1>4 DEF Typed
<1>6. msg \in Message /\ msg.src = w /\ msg.dst = d /\ msg.inc = inc /\ msg.type = s[2]
  BY <1>1, <1>3, <1>5, Zenon DEF Message
<1>7. PICK k \in 0 .. 4 :
        /\ up[w] = "up"
        /\ sent' = Append(sent, msg)
        /\ LET queue == wqueue[w] \o Units(Len(sent'), d)
           IN /\ k <= Len(queue)
              /\ wqueue' = [wqueue EXCEPT ![w] = Unwritten(queue, k)]
              /\ uppipe' = [uppipe EXCEPT ![w] = @ \o Written(queue, k)]
        /\ UNCHANGED <<pneed, downward, handled, logged, processes>>
  BY <1>1, <1>3, Zenon DEF Send
<1>8. /\ sent' \in Seq(Message) /\ Len(sent') = h /\ h \in Nat \ {0} /\ DOMAIN sent' = 1 .. h
      /\ \A m \in 1 .. Len(sent) : sent'[m] = sent[m]
  BY <1>2, <1>5, <1>6, <1>7
<1>9. sent'[h] = msg /\ Grows
  BY <1>2, <1>5, <1>6, <1>7, <1>8 DEF Grows
<1>10. UNCHANGED <<up, inc, parentUp, connections, holders, pneed, pqueue, dnpipe, wneed, handled>>
  BY <1>7, Zenon DEF downward, processes
<1>11. PICK u : u = Units(h, d)
  BY Zenon
<1>12. /\ u \in Seq(Parts) /\ Len(u) = 2
       /\ u[1] = [m |-> h, part |-> "head", dst |-> d] /\ u[2] = [m |-> h, part |-> "body", dst |-> d]
  BY <1>8, <1>11, UnitsParts
<1>13. uppipe[w] \in Seq(Parts) /\ wqueue[w] \in Seq(Parts)
  BY <1>4, Zenon DEF Typed
<1>14. PICK queue : queue = wqueue[w] \o u
  BY Zenon
<1>15. queue \in Seq(Parts) /\ k \in 0 .. Len(queue)
  <2>1. queue \in Seq(Parts)
    BY <1>12, <1>13, <1>14, Concat, Zenon
  <2>2. k <= Len(queue)
    BY <1>7, <1>8, <1>11, <1>14, Zenon
  <2> QED
    BY <2>1, <2>2
<1>16. PICK a : a = uppipe[w] \o Written(queue, k)
  BY Zenon
<1>17. PICK b : b = Unwritten(queue, k)
  BY Zenon
<1>18. wqueue' = [wqueue EXCEPT ![w] = b] /\ uppipe' = [uppipe EXCEPT ![w] = a]
  BY <1>7, <1>8, <1>11, <1>14, <1>16, <1>17, Zenon
<1>19. a \in Seq(Parts) /\ b \in Seq(Parts) /\ a \o b = uppipe[w] \o queue
  BY <1>13, <1>15, <1>16, <1>17, Rejoin, ZenonT(60)
<1>20. PICK q : q = UpStream(w)
  BY Zenon
<1>21. q \in Seq(Parts) /\ Len(q) \in Nat
  BY <1>4, <1>20, StreamsTyped
<1>22. uppipe[w] \o queue = q \o u
  <2>1. PICK p : p = uppipe[w]
    BY Zenon
  <2>2. PICK o : o = wqueue[w]
    BY Zenon
  <2>3. p \in Seq(Parts) /\ o \in Seq(Parts) /\ u \in Seq(Parts)
    BY <1>12, <1>13, <2>1, <2>2, Zenon
  <2>4. (p \o o) \o u = p \o (o \o u)
    OBVIOUS
  <2> QED
    BY <1>14, <1>20, <2>1, <2>2, <2>4, Zenon DEF UpStream
<1>23. UpStream(w)' = q \o u
  BY <1>4, <1>18, <1>19, <1>22, Zenon DEF UpStream, Typed
<1>24. \A v \in Ids : v # w => UpStream(v)' = UpStream(v)
  BY <1>4, <1>18, Zenon DEF UpStream, Typed
<1>25. \A v \in Ids : DownStream(v)' = DownStream(v)
  BY <1>10, Zenon DEF DownStream
<1>26. Typed'
  BY <1>4, <1>8, <1>10, <1>18, <1>19, Zenon DEF Typed
<1>27. Running'
  BY <1>4, <1>7, <1>10, <1>18, Zenon DEF Running, Typed
<1>28. Sent'
  <2> SUFFICES ASSUME NEW m \in DOMAIN sent'
               PROVE  /\ \A v \in Ids : sent'[m].inc[v] <= inc[v]
                      /\ sent'[m].type = "accesslog" => sent'[m].dst = PARENT
    BY <1>10, Zenon DEF Sent
  <2>1. CASE m \in DOMAIN sent
    BY <1>4, <1>5, <1>8, <2>1, Zenon DEF Sent
  <2>2. CASE m = h
    <3>1. \A v \in Ids : inc[v] <= inc[v]
      BY <1>5
    <3> QED
      BY <1>1, <1>6, <1>9, <2>2, <3>1, Zenon
  <2> QED
    BY <1>2, <1>5, <1>8, <2>1, <2>2
<1>29. ASSUME NEW m \in DOMAIN sent, Passed(m) PROVE Passed(m)'
  <2>1. sent'[m] = sent[m]
    BY <1>9, Zenon DEF Grows
  <2> QED
    BY <1>10, <1>25, <1>29, <2>1, Zenon DEF Passed, For, Reached
<1>30. ASSUME NEW m \in DOMAIN sent', NEW n \in DOMAIN sent, m < n, SameLife(m, n)'
       PROVE  m \in DOMAIN sent /\ SameLife(m, n)
  <2>1. m \in DOMAIN sent
    BY <1>5, <1>8, <1>30
  <2> QED
    BY <1>9, <1>30, <2>1, Zenon DEF SameLife, Grows
<1>31. ASSUME NEW v \in Ids PROVE DownOK(v)' /\ DownOrder(v)'
  BY <1>4, <1>9, <1>10, <1>25, <1>26, DownKept, Zenon
<1>32. ASSUME NEW v \in Ids, v # w PROVE UpOK(v)' /\ UpOrder(v)'
  <2>1. UpOK(v)'
    BY <1>4, <1>9, <1>10, <1>24, <1>32, UpKept, Zenon
  <2>2. ASSUME NEW j \in DOMAIN UpStream(v), NEW m \in DOMAIN sent', parentUp,
               m < UpStream(v)[j].m, SameLife(m, UpStream(v)[j].m)'
        PROVE  m \in Before(UpStream(v), j) \/ Passed(m)'
    <3>1. PICK n : n = UpStream(v)[j].m
      BY Zenon
    <3>2. n \in DOMAIN sent
      BY <1>4, <3>1, Zenon DEF UpOK
    <3>3. SameLife(m, n)' /\ UpStream(v)'[j].m = n
      BY <1>24, <1>32, <2>2, <3>1, Zenon DEF SameLife
    <3>4. m \in DOMAIN sent /\ SameLife(m, n)
      BY <1>30, <2>2, <3>1, <3>2, <3>3, Zenon
    <3> QED
      BY <1>4, <1>29, <2>2, <3>1, <3>4, Zenon DEF UpOrder
  <2>3. ASSUME NEW m \in DOMAIN sent', parentUp, up[v] = "up", sent'[m].src = v, sent'[m].inc[v] = inc[v]
        PROVE  m \in Bodies(UpStream(v)) \/ Passed(m)'
    <3>1. m \in DOMAIN sent
      BY <1>2, <1>5, <1>6, <1>8, <1>9, <1>32, <2>3
    <3>2. sent'[m] = sent[m]
      BY <1>9, <3>1, Zenon DEF Grows
    <3> QED
      BY <1>4, <1>29, <2>3, <3>1, <3>2, Zenon DEF UpOrder
  <2>4. UpOrder(v)'
    <3>1. UpStream(v)' = UpStream(v)
      BY <1>24, <1>32, Zenon
    <3> QED
      BY <1>10, <2>2, <2>3, <3>1, Zenon DEF UpOrder, SameLife
  <2> QED
    BY <2>1, <2>4, Zenon
<1>33. PICK r : r = q \o u
  BY Zenon
<1>34. /\ r \in Seq(Parts) /\ Len(r) = Len(q) + 2 /\ \A j \in 1 .. Len(q) : r[j] = q[j]
       /\ r[Len(q) + 1] = u[1] /\ r[Len(q) + 2] = u[2]
  <2>1. u \in Seq(Parts) /\ Len(u) = 2
    BY <1>12, Zenon
  <2>2. /\ q \o u \in Seq(Parts) /\ Len(q \o u) = Len(q) + Len(u)
        /\ \A j \in 1 .. Len(q) : (q \o u)[j] = q[j]
        /\ \A j \in 1 .. Len(u) : (q \o u)[Len(q) + j] = u[j]
    <3>1. q \in Seq(Parts) /\ u \in Seq(Parts)
      BY <1>21, <2>1, Zenon
    <3> QED
      BY <3>1, Concat
  <2> QED
    BY <1>33, <2>1, <2>2
<1>35. \A j \in DOMAIN r : j \in 1 .. Len(q) \/ ((j = Len(q) + 1 \/ j = Len(q) + 2) /\ r[j].m = h /\ r[j].dst = d)
  <2> TAKE j \in DOMAIN r
  <2>1. j \in 1 .. Len(q) \/ j = Len(q) + 1 \/ j = Len(q) + 2
    BY <1>21, <1>34
  <2>2. u[1].m = h /\ u[1].dst = d /\ u[2].m = h /\ u[2].dst = d
    BY <1>12
  <2> QED
    BY <1>34, <2>1, <2>2, Zenon
<1>36. UpOK(w)'
  <2>1. Framed(pneed[w], q) /\ Whole(pneed[w], q) /\ pneed[w] \in Nat
    BY <1>4, <1>7, <1>20, Zenon DEF UpOK, Typed
  <2>2. Framed(pneed[w], r) /\ Whole(pneed[w], r)
    BY <1>8, <1>11, <1>21, <1>33, <2>1, FramedUnits, Zenon
  <2>3. ASSUME NEW j \in DOMAIN r
        PROVE  r[j].m \in DOMAIN sent' /\ sent'[r[j].m].src = w /\ sent'[r[j].m].inc[w] = inc[w] /\ r[j].dst = sent'[r[j].m].dst
    <3>1. CASE j \in 1 .. Len(q)
      <4>1. j \in DOMAIN UpStream(w) /\ r[j] = UpStream(w)[j]
        BY <1>20, <1>21, <1>34, <3>1
      <4>2. /\ r[j].m \in DOMAIN sent /\ sent[r[j].m].src = w /\ sent[r[j].m].inc[w] = inc[w]
            /\ r[j].dst = sent[r[j].m].dst
        BY <1>4, <4>1 DEF UpOK
      <4> QED
        BY <1>9, <4>2, Zenon DEF Grows
    <3>2. CASE r[j].m = h /\ r[j].dst = d
      BY <1>6, <1>8, <1>9, <3>2
    <3> QED
      BY <1>35, <3>1, <3>2, Zenon
  <2> QED
    BY <1>10, <1>23, <1>33, <2>2, <2>3, Zenon DEF UpOK
<1>37. UpOrder(w)'
  <2>1. ASSUME NEW m \in DOMAIN sent, parentUp, sent[m].src = w, sent[m].inc[w] = inc[w]
        PROVE  m \in Bodies(q) \/ Passed(m)'
    BY <1>4, <1>7, <1>20, <1>29, <2>1, Zenon DEF UpOrder
  <2>2. Bodies(r) = Bodies(q) \cup {h}
    BY <1>8, <1>11, <1>21, <1>33, BodiesUnits, Zenon
  <2>3. ASSUME NEW j \in DOMAIN r, NEW m \in DOMAIN sent', parentUp, m < r[j].m, SameLife(m, r[j].m)'
        PROVE  m \in Before(r, j) \/ Passed(m)'
    <3>1. CASE j \in 1 .. Len(q)
      <4>1. j \in DOMAIN UpStream(w) /\ r[j] = UpStream(w)[j] /\ Before(r, j) = Before(UpStream(w), j)
        <5>1. j \in 1 .. Len(q) + 1
          BY <1>21, <3>1
        <5> QED
          BY <1>12, <1>20, <1>21, <1>33, <1>34, <3>1, <5>1, BeforePrefix, SMTT(30)
      <4>2. PICK n : n = r[j].m
        BY Zenon
      <4>3. n \in DOMAIN sent /\ n = UpStream(w)[j].m
        BY <1>4, <4>1, <4>2, Zenon DEF UpOK
      <4>4. m < n /\ SameLife(m, n)'
        BY <2>3, <4>2, Zenon DEF SameLife
      <4>5. m \in DOMAIN sent /\ SameLife(m, n)
        BY <1>30, <4>3, <4>4, Zenon
      <4>6. m \in Before(UpStream(w), j) \/ Passed(m)
        BY <1>4, <2>3, <4>1, <4>3, <4>4, <4>5, Zenon DEF UpOrder
      <4> QED
        BY <1>29, <4>1, <4>5, <4>6, Zenon
    <3>2. CASE (j = Len(q) + 1 \/ j = Len(q) + 2) /\ r[j].m = h
      <4>1. m \in DOMAIN sent
        BY <1>2, <1>5, <1>8, <2>3, <3>2
      <4>2. SameLife(m, h)'
        BY <2>3, <3>2, Zenon DEF SameLife
      <4>3. sent[m].src = w /\ sent[m].inc[w] = inc[w]
        BY <1>6, <1>9, <4>1, <4>2, Zenon DEF SameLife, Grows
      <4>4. Before(r, Len(q) + 1) = Bodies(q)
        <5>1. Len(q) + 1 \in 1 .. Len(q) + 1
          BY <1>21
        <5> QED
          BY <1>12, <1>21, <1>33, <5>1, BeforePrefix, Zenon DEF Bodies
      <4>5. Before(r, Len(q) + 1) \subseteq Before(r, j)
        BY <1>21, <3>2, BeforeMore
      <4> QED
        BY <2>1, <2>3, <4>1, <4>3, <4>4, <4>5, Zenon
    <3> QED
      BY <1>35, <3>1, <3>2, Zenon
  <2>4. ASSUME NEW m \in DOMAIN sent', parentUp, sent'[m].src = w, sent'[m].inc[w] = inc[w]
        PROVE  m \in Bodies(r) \/ Passed(m)'
    <3>1. m \in DOMAIN sent \/ m = h
      BY <1>2, <1>5, <1>8
    <3>2. m \in DOMAIN sent => sent'[m] = sent[m]
      BY <1>9, Zenon DEF Grows
    <3> QED
      BY <2>1, <2>2, <2>4, <3>1, <3>2, Zenon
  <2>5. UpStream(w)' = r
    BY <1>23, <1>33, Zenon
  <2> QED
    BY <1>10, <2>3, <2>4, <2>5, Zenon DEF UpOrder, SameLife
<1> QED
  BY <1>26, <1>27, <1>28, <1>31, <1>32, <1>36, <1>37, Zenon DEF Inv

\* msg_recv_packet and msg_recv_data in a worker.
LEMMA WorkerRecvKeeps ==
  ASSUME Inv, NEW w \in Ids, WorkerRecv(w)
  PROVE  Inv'
<1>1. /\ Typed /\ Running /\ Sent
      /\ \A v \in Ids : UpOK(v) /\ UpOrder(v) /\ DownOK(v) /\ DownOrder(v)
  BY Zenon DEF Inv
<1>2. /\ dnpipe[w] \in Seq(Parts) /\ pqueue[w] \in Seq(Parts) /\ wneed[w] \in Nat
      /\ handled[w] \in Seq(Nat) /\ dnpipe[w] # <<>>
  BY <1>1, Zenon DEF Typed, WorkerRecv
<1>3. PICK q : q = DownStream(w)
  BY Zenon
<1>4. PICK unit : unit = Head(dnpipe[w])
  BY Zenon
<1>5. PICK t : t = Tail(q)
  BY Zenon
<1>6. PICK n : n = unit.m
  BY Zenon
<1>7. PICK hw : hw = handled[w]
  BY Zenon
<1>8. q \in Seq(Parts) /\ q # <<>> /\ unit = Head(q) /\ t = Tail(dnpipe[w]) \o pqueue[w] /\ Tail(dnpipe[w]) \in Seq(Parts)
  <2>1. PICK a \in Seq(Parts), b \in Seq(Parts) : a = dnpipe[w] /\ b = pqueue[w] /\ a # <<>>
    BY <1>2, Zenon
  <2>2. /\ Tail(a) \in Seq(Parts) /\ a \o b # <<>> /\ Head(a \o b) = Head(a) /\ Tail(a \o b) = Tail(a) \o b
    <3>1. a # <<>>
      BY <2>1, Zenon
    <3> QED
      BY <3>1, TailConcat
  <2>3. q \in Seq(Parts)
    BY <1>1, <1>3, StreamsTyped, Zenon
  <2> QED
    BY <1>3, <1>4, <1>5, <2>1, <2>2, <2>3, Zenon DEF DownStream
<1>9. /\ \/ /\ wneed[w] = NoHeader
            /\ wneed' = [wneed EXCEPT ![w] = n] /\ handled' = handled
         \/ /\ wneed[w] # NoHeader
            /\ wneed' = [wneed EXCEPT ![w] = NoHeader]
            /\ handled' = [handled EXCEPT ![w] = Append(hw, n)]
      /\ dnpipe' = [dnpipe EXCEPT ![w] = Tail(dnpipe[w])]
      /\ UNCHANGED <<sent, up, inc, parentUp, connections, wqueue, uppipe, pneed, pqueue, holders>>
  BY <1>4, <1>6, <1>7, Zenon DEF WorkerRecv, upward, processes
<1>10. /\ t \in Seq(Parts) /\ Len(t) = Len(q) - 1 /\ Len(q) \in Nat \ {0} /\ unit = q[1]
       /\ \A j \in 1 .. Len(t) : t[j] = q[j + 1]
  BY <1>5, <1>8
<1>11. n \in Nat \ {0} /\ unit.part \in {"head", "body"}
  <2>1. q[1] \in Parts
    <3>1. q \in Seq(Parts) /\ 1 \in 1 .. Len(q)
      BY <1>8, <1>10
    <3> QED
      BY <3>1
  <2> QED
    BY <1>6, <1>10, <2>1, Zenon DEF Parts
<1>12. Typed'
  <2>1. handled' \in [Ids -> Seq(Nat)]
    <3>1. Append(hw, n) \in Seq(Nat) /\ handled \in [Ids -> Seq(Nat)]
      BY <1>1, <1>2, <1>7, <1>11 DEF Typed
    <3> QED
      BY <1>9, <3>1, Zenon
  <2>2. wneed' \in [Ids -> Nat]
    <3>1. wneed \in [Ids -> Nat] /\ NoHeader \in Nat /\ n \in Nat
      BY <1>1, <1>11, Zenon DEF Typed, NoHeader
    <3>2. wneed' = [wneed EXCEPT ![w] = n] \/ wneed' = [wneed EXCEPT ![w] = NoHeader]
      BY <1>9, Zenon
    <3> QED
      BY <3>1, <3>2, Zenon
  <2>3. dnpipe' \in [Ids -> Seq(Parts)]
    BY <1>1, <1>8, <1>9, Zenon DEF Typed
  <2> QED
    BY <1>1, <1>9, <2>1, <2>2, <2>3, Zenon DEF Typed
<1>13. Running' /\ Sent'
  BY <1>1, <1>9, Zenon DEF Running, Sent
<1>14. Grows
  BY <1>9, Zenon DEF Grows
<1>15. DownStream(w)' = t /\ \A v \in Ids : v # w => DownStream(v)' = DownStream(v)
  BY <1>1, <1>8, <1>9, Zenon DEF DownStream, Typed
<1>16. \A v \in Ids : UpStream(v)' = UpStream(v)
  BY <1>9, Zenon DEF UpStream
<1>17. \A v \in Ids : v # w => wneed'[v] = wneed[v] /\ handled'[v] = handled[v]
  BY <1>1, <1>9, Zenon DEF Typed
<1>18. ASSUME NEW v \in Ids, v # w PROVE DownOK(v)' /\ DownOrder(v)'
  BY <1>1, <1>9, <1>12, <1>14, <1>15, <1>17, <1>18, DownKept, Zenon
<1>19. /\ Framed(wneed[w], q) /\ (parentUp => Whole(wneed[w], q))
       /\ \A j \in 1 .. Len(q) : q[j].m \in DOMAIN sent /\ For(q[j].m, w) /\ q[j].dst = w
       /\ \A i \in DOMAIN hw : hw[i] \in DOMAIN sent /\ For(hw[i], w)
  BY <1>1, <1>3, <1>7, <1>8, SMTT(30) DEF DownOK
<1>20. /\ \A j \in 1 .. Len(q) : \A m \in DOMAIN sent : Due(m, q[j].m, w) => m \in Range(hw) \cup Before(q, j)
       /\ \A i \in DOMAIN hw : \A m \in DOMAIN sent : Due(m, hw[i], w) => m \in {hw[k] : k \in 1 .. i - 1}
  BY <1>1, <1>3, <1>7, <1>8, SMTT(30) DEF DownOrder
<1>21. \A m \in DOMAIN sent : \A x : Due(m, x, w)' <=> Due(m, x, w)
  BY <1>9, Zenon DEF Due, For, SameLife
<1>22. \A j \in 1 .. Len(t) : t[j].m \in DOMAIN sent /\ For(t[j].m, w) /\ t[j].dst = w
  <2> TAKE j \in 1 .. Len(t)
  <2>1. j + 1 \in 1 .. Len(q) /\ t[j] = q[j + 1]
    BY <1>10
  <2> QED
    BY <1>19, <2>1, Zenon
<1>23. ASSUME NEW j \in 1 .. Len(t), NEW m \in DOMAIN sent, Due(m, t[j].m, w)
       PROVE  m \in Range(hw) \cup Before(t, j) \cup (IF unit.part = "body" THEN {n} ELSE {})
  <2>1. j + 1 \in 1 .. Len(q) /\ t[j] = q[j + 1] /\ j \in 1 .. Len(q)
    BY <1>10
  <2>2. m \in Range(hw) \cup Before(q, j + 1)
    BY <1>20, <1>23, <2>1, Zenon
  <2>3. Before(q, j + 1) = Before(t, j) \cup (IF unit.part = "body" THEN {n} ELSE {})
    BY <1>5, <1>6, <1>8, <2>1, BeforeTail, Zenon
  <2> QED
    BY <2>2, <2>3, Zenon
<1>24. Bodies(q) = Bodies(t) \cup (IF unit.part = "body" THEN {n} ELSE {})
  BY <1>5, <1>6, <1>8, BodiesTail, Zenon
<1>25. /\ DownOK(w)' /\ DownOrder(w)'
       /\ Range(handled'[w]) = Range(hw) \cup (IF unit.part = "body" THEN {n} ELSE {})
  <2>1. CASE wneed[w] = NoHeader
    <3>1. wneed'[w] = n /\ handled'[w] = hw
      BY <1>1, <1>7, <1>9, <2>1, ZenonT(60) DEF Typed
    <3>2. unit.part = "head" /\ Framed(n, t) /\ (parentUp => Whole(n, t))
      BY <1>2, <1>5, <1>6, <1>8, <1>19, <2>1, FramedTail, SMTT(30)
    <3>3. DownOK(w)'
      BY <1>9, <1>15, <1>19, <1>22, <3>1, <3>2, SMTT(30) DEF DownOK, For
    <3>4. DownOrder(w)'
      BY <1>9, <1>10, <1>15, <1>20, <1>21, <1>23, <3>1, <3>2, SMTT(30) DEF DownOrder
    <3> QED
      BY <3>1, <3>2, <3>3, <3>4, Zenon
  <2>2. CASE wneed[w] # NoHeader
    <3>1. wneed'[w] = NoHeader /\ handled'[w] = Append(hw, n)
      BY <1>1, <1>9, <2>2, Zenon DEF Typed
    <3>2. unit.part = "body" /\ Framed(NoHeader, t) /\ (parentUp => Whole(NoHeader, t))
      BY <1>2, <1>5, <1>6, <1>8, <1>19, <2>2, FramedTail, Zenon
    <3>3. PICK g : g = Append(hw, n)
      BY Zenon
    <3>4. /\ g \in Seq(Nat) /\ Len(g) = Len(hw) + 1 /\ Len(hw) \in Nat /\ DOMAIN g = 1 .. Len(hw) + 1
          /\ DOMAIN hw = 1 .. Len(hw) /\ g[Len(hw) + 1] = n /\ \A i \in 1 .. Len(hw) : g[i] = hw[i]
      BY <1>2, <1>7, <1>11, <3>3
    <3>5. Range(g) = Range(hw) \cup {n}
      BY <3>4 DEF Range
    <3>6. q[1].m = n /\ 1 \in 1 .. Len(q)
      BY <1>6, <1>10
    <3>7. \A i \in DOMAIN g : g[i] \in DOMAIN sent /\ For(g[i], w)
      <4> TAKE i \in DOMAIN g
      <4>1. i \in 1 .. Len(hw) \/ i = Len(hw) + 1
        BY <3>4, SMTT(30)
      <4> QED
        BY <1>19, <3>4, <3>6, <4>1, Zenon
    <3>8. DownOK(w)'
      BY <1>9, <1>10, <1>15, <1>22, <3>1, <3>2, <3>3, <3>7, SMTT(30) DEF DownOK, For
    <3>9. ASSUME NEW i \in DOMAIN g, NEW m \in DOMAIN sent, Due(m, g[i], w)
          PROVE  m \in {g[k] : k \in 1 .. i - 1}
      <4>1. CASE i \in 1 .. Len(hw)
        <5>1. g[i] = hw[i] /\ \A k \in 1 .. i - 1 : g[k] = hw[k]
          BY <3>4, <4>1
        <5>2. m \in {hw[k] : k \in 1 .. i - 1}
          BY <1>20, <3>4, <3>9, <4>1, <5>1, Zenon
        <5> QED
          BY <5>1, <5>2, Zenon
      <4>2. CASE i = Len(hw) + 1
        <5>1. Due(m, q[1].m, w)
          BY <3>4, <3>6, <3>9, <4>2, Zenon
        <5>2. m \in Range(hw) \cup Before(q, 1)
          BY <1>20, <3>6, <5>1, Zenon
        <5>3. Before(q, 1) = {}
          BY DEF Before
        <5>4. PICK k \in 1 .. Len(hw) : m = hw[k]
          BY <3>4, <5>2, <5>3, Zenon DEF Range
        <5>5. k \in 1 .. i - 1 /\ g[k] = m
          BY <3>4, <4>2, <5>4
        <5> QED
          BY <5>5, Zenon
      <4> QED
        BY <3>4, <4>1, <4>2
    <3>10. DownOrder(w)'
      <4>1. \A j \in 1 .. Len(t) : \A m \in DOMAIN sent : Due(m, t[j].m, w) => m \in Range(g) \cup Before(t, j)
        BY <1>23, <3>2, <3>5, Zenon
      <4>2. \A j \in 1 .. Len(t) : \A m \in DOMAIN sent : Due(m, t[j].m, w)' => m \in Range(g) \cup Before(t, j)
        <5> TAKE j \in 1 .. Len(t)
        <5> TAKE m \in DOMAIN sent
        <5> HAVE Due(m, t[j].m, w)'
        <5>1. Due(m, t[j].m, w)
          BY <1>21, Zenon
        <5> QED
          BY <4>1, <5>1, Zenon
      <4>3. \A i \in DOMAIN g : \A m \in DOMAIN sent : Due(m, g[i], w)' => m \in {g[k] : k \in 1 .. i - 1}
        BY <1>21, <3>9, Zenon
      <4>4. sent' = sent /\ handled'[w] = g /\ DownStream(w)' = t /\ DOMAIN t = 1 .. Len(t)
        BY <1>9, <1>10, <1>15, <3>1, <3>3
      <4> QED
        BY <4>2, <4>3, <4>4 DEF DownOrder
    <3> QED
      BY <3>1, <3>2, <3>3, <3>5, <3>8, <3>10, Zenon
  <2> QED
    BY <2>1, <2>2, Zenon
<1>26. ASSUME NEW m \in DOMAIN sent, NEW v \in Ids, Reached(m, v) PROVE Reached(m, v)'
  <2>1. CASE v = w
    BY <1>3, <1>7, <1>15, <1>24, <1>25, <1>26, <2>1, Zenon DEF Reached
  <2>2. CASE v # w
    BY <1>15, <1>17, <1>26, <2>2, Zenon DEF Reached
  <2> QED
    BY <2>1, <2>2, Zenon
<1>27. ASSUME NEW m \in DOMAIN sent, Passed(m) PROVE Passed(m)'
  BY <1>9, <1>26, <1>27, Zenon DEF Passed, For
<1>28. ASSUME NEW v \in Ids PROVE UpOK(v)' /\ UpOrder(v)'
  <2>1. UpOK(v)'
    BY <1>1, <1>9, <1>14, <1>16, UpKept, Zenon
  <2>2. UpOrder(v)'
    BY <1>1, <1>9, <1>16, <1>27, OrderKept, Zenon
  <2> QED
    BY <2>1, <2>2, Zenon
<1> QED
  BY <1>12, <1>13, <1>18, <1>25, <1>28, Zenon DEF Inv

\* The parent takes the next part that worker w sent; what it relays with a body it relays
\* to every worker the message is for.
LEMMA UpTaken ==
  ASSUME Typed, Typed', NEW w \in Ids, UpOK(w), UpOrder(w), UpStream(w) # <<>>, sent' = sent,
         inc'[w] = inc[w], up'[w] = up[w], parentUp, parentUp',
         UpStream(w)' = Tail(UpStream(w)), NEW n, n = Head(UpStream(w)).m,
         pneed'[w] = IF pneed[w] = NoHeader THEN n ELSE NoHeader,
         \A m \in DOMAIN sent : Passed(m) => Passed(m)',
         pneed[w] # NoHeader => Passed(n)'
  PROVE  UpOK(w)' /\ UpOrder(w)'
<1>1. PICK q : q = UpStream(w)
  BY Zenon
<1>2. PICK t : t = Tail(q)
  BY Zenon
<1>3. q \in Seq(Parts) /\ q # <<>>
  BY <1>1, StreamsTyped, Zenon
<1>4. t \in Seq(Parts) /\ Len(t) = Len(q) - 1 /\ Len(q) \in Nat \ {0} /\ \A j \in 1 .. Len(t) : t[j] = q[j + 1]
  BY <1>2, <1>3
<1>5. pneed[w] \in Nat /\ Framed(pneed[w], q) /\ (up[w] = "up" => Whole(pneed[w], q))
  BY <1>1, Zenon DEF Typed, UpOK
<1>6. \A j \in 1 .. Len(q) : /\ q[j].m \in DOMAIN sent /\ sent[q[j].m].src = w /\ sent[q[j].m].inc[w] = inc[w]
                             /\ q[j].dst = sent[q[j].m].dst
  BY <1>1, <1>3, SMTT(30) DEF UpOK
<1>7. \A j \in 1 .. Len(t) : /\ t[j].m \in DOMAIN sent /\ sent[t[j].m].src = w /\ sent[t[j].m].inc[w] = inc[w]
                             /\ t[j].dst = sent[t[j].m].dst
  <2> TAKE j \in 1 .. Len(t)
  <2>1. j + 1 \in 1 .. Len(q) /\ t[j] = q[j + 1]
    BY <1>4, SMTT(30)
  <2> QED
    BY <1>6, <2>1, Zenon
<1>8. Framed(pneed'[w], t) /\ (up[w] = "up" => Whole(pneed'[w], t)) /\ (Head(q).part = "body" => Passed(n)')
  <2>1. CASE pneed[w] = NoHeader
    BY <1>1, <1>2, <1>3, <1>5, <2>1, FramedTail, Zenon
  <2>2. CASE pneed[w] # NoHeader
    BY <1>1, <1>2, <1>3, <1>5, <2>2, FramedTail
  <2> QED
    BY <2>1, <2>2, Zenon
<1>9. UpStream(w)' = t /\ DOMAIN t = 1 .. Len(t)
  BY <1>1, <1>2, <1>4
<1>10. UpOK(w)'
  BY <1>7, <1>8, <1>9, Zenon DEF UpOK
<1>11. ASSUME NEW j \in 1 .. Len(t), NEW m \in DOMAIN sent, m < t[j].m, SameLife(m, t[j].m)
       PROVE  m \in Before(t, j) \/ Passed(m)'
  <2>1. j + 1 \in 1 .. Len(q) /\ t[j] = q[j + 1] /\ j \in 1 .. Len(q)
    BY <1>4
  <2>2. m \in Before(q, j + 1) \/ Passed(m)
    BY <1>1, <1>3, <1>11, <2>1, SMTT(30) DEF UpOrder
  <2>3. Before(q, j + 1) = Before(t, j) \cup (IF Head(q).part = "body" THEN {Head(q).m} ELSE {})
    BY <1>2, <1>3, <2>1, BeforeTail, Zenon
  <2> QED
    BY <1>1, <1>8, <2>2, <2>3, Zenon
<1>12. ASSUME NEW m \in DOMAIN sent, up[w] = "up", sent[m].src = w, sent[m].inc[w] = inc[w]
       PROVE  m \in Bodies(t) \/ Passed(m)'
  <2>1. m \in Bodies(q) \/ Passed(m)
    BY <1>1, <1>12, Zenon DEF UpOrder
  <2>2. Bodies(q) = Bodies(t) \cup (IF Head(q).part = "body" THEN {Head(q).m} ELSE {})
    BY <1>2, <1>3, BodiesTail, Zenon
  <2> QED
    BY <1>1, <1>8, <2>1, <2>2, Zenon
<1>13. UpOrder(w)'
  <2>1. \A m \in DOMAIN sent : \A x : SameLife(m, x)' <=> SameLife(m, x)
    BY Zenon DEF SameLife
  <2>2. \A j \in DOMAIN t : \A m \in DOMAIN sent : m < t[j].m /\ SameLife(m, t[j].m)' => m \in Before(t, j) \/ Passed(m)'
    <3> TAKE j \in DOMAIN t
    <3> TAKE m \in DOMAIN sent
    <3> HAVE m < t[j].m /\ SameLife(m, t[j].m)'
    <3>1. SameLife(m, t[j].m)
      BY <2>1, Zenon
    <3> QED
      BY <1>9, <1>11, <3>1, Zenon
  <2> QED
    BY <1>9, <1>12, <2>2, Zenon DEF UpOrder
<1> QED
  BY <1>10, <1>13, Zenon

\* A message is relayed to worker v.
LEMMA DownGrows ==
  ASSUME Typed, NEW v \in Ids, DownOK(v), DownOrder(v), parentUp, parentUp', sent' = sent,
         inc'[v] = inc[v], wneed'[v] = wneed[v], handled'[v] = handled[v],
         NEW n \in DOMAIN sent, For(n, v), DownStream(v)' = DownStream(v) \o Units(n, v),
         \A m \in DOMAIN sent : Due(m, n, v) => Reached(m, v)
  PROVE  DownOK(v)' /\ DownOrder(v)' /\ Bodies(DownStream(v))' = Bodies(DownStream(v)) \cup {n}
<1>1. PICK q : q = DownStream(v)
  BY Zenon
<1>2. PICK u : u = Units(n, v)
  BY Zenon
<1>3. PICK r : r = q \o u
  BY Zenon
<1>4. n \in Nat \ {0} /\ v \in Dests
  BY SMTT(30) DEF Typed, Dests
<1>5. /\ u \in Seq(Parts) /\ Len(u) = 2
      /\ u[1] = [m |-> n, part |-> "head", dst |-> v] /\ u[2] = [m |-> n, part |-> "body", dst |-> v]
  BY <1>2, <1>4, UnitsParts, Zenon
<1>6. u[1].m = n /\ u[1].dst = v /\ u[2].m = n /\ u[2].dst = v
  BY <1>5
<1>7. q \in Seq(Parts) /\ u \in Seq(Parts)
  BY <1>1, <1>5, StreamsTyped, Zenon
<1>8. /\ q \o u \in Seq(Parts) /\ Len(q \o u) = Len(q) + Len(u) /\ Len(q) \in Nat
      /\ \A j \in 1 .. Len(q) : (q \o u)[j] = q[j]
      /\ \A j \in 1 .. Len(u) : (q \o u)[Len(q) + j] = u[j]
  BY <1>7, Concat
<1>9. /\ r \in Seq(Parts) /\ DOMAIN r = 1 .. Len(q) + 2 /\ Len(q) \in Nat
      /\ \A j \in 1 .. Len(q) : r[j] = q[j]
      /\ r[Len(q) + 1] = u[1] /\ r[Len(q) + 2] = u[2]
  <2>1. Len(u) = 2
    BY <1>5, Zenon
  <2> QED
    BY <1>3, <1>8, <2>1
<1>10. \A j \in DOMAIN r : j \in 1 .. Len(q) \/ ((j = Len(q) + 1 \/ j = Len(q) + 2) /\ r[j].m = n /\ r[j].dst = v)
  <2> TAKE j \in DOMAIN r
  <2>1. j \in 1 .. Len(q) \/ j = Len(q) + 1 \/ j = Len(q) + 2
    BY <1>9, SMTT(30)
  <2> QED
    BY <1>6, <1>9, <2>1, Zenon
<1>11. /\ Framed(wneed[v], q) /\ Whole(wneed[v], q) /\ wneed[v] \in Nat
       /\ \A j \in 1 .. Len(q) : q[j].m \in DOMAIN sent /\ For(q[j].m, v) /\ q[j].dst = v
       /\ \A i \in DOMAIN handled[v] : handled[v][i] \in DOMAIN sent /\ For(handled[v][i], v)
  BY <1>1, SMTT(30) DEF DownOK, Typed
<1>12. Framed(wneed[v], r) /\ Whole(wneed[v], r) /\ Bodies(r) = Bodies(q) \cup {n}
  BY <1>2, <1>3, <1>4, <1>7, <1>11, FramedUnits, BodiesUnits, Zenon
<1>13. DownStream(v)' = r
  BY <1>1, <1>2, <1>3, Zenon
<1>14. DownOK(v)'
  <2>1. \A j \in DOMAIN r : r[j].m \in DOMAIN sent /\ For(r[j].m, v) /\ r[j].dst = v
    BY <1>9, <1>10, <1>11, Zenon
  <2> QED
    BY <1>11, <1>12, <1>13, <2>1, Zenon DEF DownOK, For
<1>15. \A j \in DOMAIN r : \A m \in DOMAIN sent : Due(m, r[j].m, v) => m \in Range(handled[v]) \cup Before(r, j)
  <2> TAKE j \in DOMAIN r
  <2> TAKE m \in DOMAIN sent
  <2> HAVE Due(m, r[j].m, v)
  <2>1. CASE j \in 1 .. Len(q)
    <3>1. r[j] = q[j] /\ j \in DOMAIN q /\ j \in 1 .. Len(q) + 1
      BY <1>7, <1>9, <2>1
    <3>2. Before(r, j) = Before(q, j)
      BY <1>3, <1>7, <3>1, BeforePrefix, Zenon
    <3> QED
      BY <1>1, <3>1, <3>2, Zenon DEF DownOrder
  <2>2. CASE (j = Len(q) + 1 \/ j = Len(q) + 2) /\ r[j].m = n
    <3>1. m \in Range(handled[v]) \cup Bodies(q)
      BY <1>1, <2>2, Zenon DEF Reached
    <3>2. Before(r, Len(q) + 1) = Bodies(q)
      <4>1. Len(q) + 1 \in 1 .. Len(q) + 1
        BY <1>9
      <4> QED
        BY <1>3, <1>7, <4>1, BeforePrefix, Zenon DEF Bodies
    <3>3. Before(r, Len(q) + 1) \subseteq Before(r, j)
      BY <2>2, BeforeMore, SMTT(30)
    <3> QED
      BY <3>1, <3>2, <3>3, Zenon
  <2> QED
    BY <1>10, <2>1, <2>2, Zenon
<1>16. DownOrder(v)'
  <2>1. \A m \in DOMAIN sent : \A x : Due(m, x, v)' <=> Due(m, x, v)
    BY Zenon DEF Due, For, SameLife
  <2>2. \A j \in DOMAIN r : \A m \in DOMAIN sent : Due(m, r[j].m, v)' => m \in Range(handled[v]) \cup Before(r, j)
    <3> TAKE j \in DOMAIN r
    <3> TAKE m \in DOMAIN sent
    <3> HAVE Due(m, r[j].m, v)'
    <3>1. Due(m, r[j].m, v)
      BY <2>1, Zenon
    <3> QED
      BY <1>15, <3>1, Zenon
  <2>3. \A i \in DOMAIN handled[v] : \A m \in DOMAIN sent :
          Due(m, handled[v][i], v)' => m \in {handled[v][k] : k \in 1 .. i - 1}
    <3> TAKE i \in DOMAIN handled[v]
    <3> TAKE m \in DOMAIN sent
    <3> HAVE Due(m, handled[v][i], v)'
    <3>1. PICK x : x = handled[v][i]
      BY Zenon
    <3>2. Due(m, x, v)'
      BY <3>1, Zenon DEF Due, SameLife
    <3>3. Due(m, x, v)
      BY <2>1, <3>2, Zenon
    <3> QED
      BY <3>1, <3>3, Zenon DEF DownOrder
  <2>4. \A i \in DOMAIN handled'[v] : handled'[v][i] = handled[v][i]
    BY Zenon
  <2> QED
    BY <1>13, <2>2, <2>3, SMTT(30) DEF DownOrder
<1> QED
  BY <1>1, <1>12, <1>13, <1>14, <1>16, Zenon

\* msg_recv_packet and msg_recv_data in the parent.
LEMMA ParentRecvKeeps ==
  ASSUME Inv, NEW w \in Ids, ParentRecv(w)
  PROVE  Inv'
<1>1. /\ Typed /\ Running /\ Sent
      /\ \A v \in Ids : UpOK(v) /\ UpOrder(v) /\ DownOK(v) /\ DownOrder(v)
  BY Zenon DEF Inv
<1>2. parentUp /\ uppipe[w] # <<>> /\ uppipe[w] \in Seq(Parts) /\ wqueue[w] \in Seq(Parts) /\ Range(connections) = Ids
  BY <1>1, Zenon DEF Typed, ParentRecv, Running
<1>3. PICK q : q = UpStream(w)
  BY Zenon
<1>4. PICK unit : unit = Head(uppipe[w])
  BY Zenon
<1>5. PICK n : n = unit.m
  BY Zenon
<1>6. /\ q \in Seq(Parts) /\ q # <<>> /\ unit = Head(q) /\ Tail(q) = Tail(uppipe[w]) \o wqueue[w]
      /\ Tail(uppipe[w]) \in Seq(Parts)
  <2>1. PICK a \in Seq(Parts), b \in Seq(Parts) : a = uppipe[w] /\ b = wqueue[w] /\ a # <<>>
    BY <1>2, Zenon
  <2>2. /\ Tail(a) \in Seq(Parts) /\ a \o b # <<>> /\ Head(a \o b) = Head(a) /\ Tail(a \o b) = Tail(a) \o b
    <3>1. a # <<>>
      BY <2>1, Zenon
    <3> QED
      BY <3>1, TailConcat
  <2>3. q \in Seq(Parts)
    BY <1>1, <1>3, StreamsTyped, Zenon
  <2> QED
    BY <1>3, <1>4, <2>1, <2>2, <2>3, Zenon DEF UpStream
<1>7. /\ uppipe' = [uppipe EXCEPT ![w] = Tail(uppipe[w])]
      /\ UNCHANGED <<sent, up, inc, parentUp, connections, wqueue, wneed, handled, holders>>
  BY Zenon DEF ParentRecv, processes
<1>8. unit = q[1] /\ 1 \in 1 .. Len(q)
  BY <1>6
<1>9. /\ n \in DOMAIN sent /\ sent[n].src = w /\ sent[n].inc[w] = inc[w] /\ unit.dst = sent[n].dst
      /\ n \in Nat \ {0}
  <2>1. /\ q[1].m \in DOMAIN sent /\ sent[q[1].m].src = w /\ sent[q[1].m].inc[w] = inc[w]
        /\ q[1].dst = sent[q[1].m].dst
    BY <1>1, <1>3, <1>6, <1>8, SMTT(30) DEF UpOK
  <2>2. DOMAIN sent \subseteq Nat \ {0}
    BY <1>1 DEF Typed
  <2> QED
    BY <1>5, <1>8, <2>1, <2>2, ZenonT(60)
<1>10. Grows
  BY <1>7, Zenon DEF Grows
<1>11. UpStream(w)' = Tail(UpStream(w)) /\ \A v \in Ids : v # w => UpStream(v)' = UpStream(v)
  BY <1>1, <1>3, <1>6, <1>7, Zenon DEF UpStream, Typed
<1>12. Running' /\ Sent'
  BY <1>1, <1>7, Zenon DEF Running, Sent
<1>13. /\ pneed' = [pneed EXCEPT ![w] = IF pneed[w] = NoHeader THEN n ELSE NoHeader]
       /\ pneed'[w] = (IF pneed[w] = NoHeader THEN n ELSE NoHeader)
       /\ pneed' \in [Ids -> Nat] /\ \A v \in Ids : v # w => pneed'[v] = pneed[v]
  <2>1. pneed' = [pneed EXCEPT ![w] = IF pneed[w] = NoHeader THEN n ELSE NoHeader]
    BY <1>4, <1>5, Zenon DEF ParentRecv
  <2>2. pneed \in [Ids -> Nat] /\ NoHeader \in Nat
    BY <1>1, Zenon DEF Typed, NoHeader
  <2>3. PICK x \in Nat : x = IF pneed[w] = NoHeader THEN n ELSE NoHeader
    BY <1>9, <2>2, Zenon
  <2>4. pneed' = [pneed EXCEPT ![w] = x]
    BY <2>1, <2>3, Zenon
  <2> QED
    BY <2>1, <2>2, <2>3, <2>4, Zenon
<1>14. uppipe' \in [Ids -> Seq(Parts)]
  BY <1>1, <1>6, <1>7, Zenon DEF Typed
<1>15. ASSUME Typed', \A v \in Ids : DownOK(v)' /\ DownOrder(v)',
              \A m \in DOMAIN sent : Passed(m) => Passed(m)', pneed[w] # NoHeader => Passed(n)'
       PROVE  Inv'
  <2>1. UpOK(w)' /\ UpOrder(w)'
    <3>1. n = Head(UpStream(w)).m /\ UpStream(w) # <<>>
      BY <1>3, <1>5, <1>6, Zenon
    <3> QED
      BY <1>1, <1>2, <1>7, <1>11, <1>13, <1>15, <3>1, UpTaken, Zenon
  <2>2. ASSUME NEW v \in Ids, v # w PROVE UpOK(v)'
    BY <1>1, <1>7, <1>10, <1>11, <1>13, <2>2, UpKept, Zenon
  <2>3. ASSUME NEW v \in Ids, v # w PROVE UpOrder(v)'
    BY <1>1, <1>7, <1>11, <1>15, <2>3, OrderKept, Zenon
  <2> QED
    BY <1>12, <1>15, <2>1, <2>2, <2>3, Zenon DEF Inv
<1>16. CASE UNCHANGED <<pqueue, dnpipe>> /\ (pneed[w] # NoHeader => sent[n].type = "accesslog")
  <2>1. Typed'
    BY <1>1, <1>7, <1>13, <1>14, <1>16, Zenon DEF Typed
  <2>2. \A v \in Ids : DownStream(v)' = DownStream(v)
    BY <1>16, Zenon DEF DownStream
  <2>3. ASSUME NEW v \in Ids PROVE DownOK(v)' /\ DownOrder(v)'
    BY <1>1, <1>7, <1>10, <2>1, <2>2, DownKept, Zenon
  <2>4. ASSUME NEW m \in DOMAIN sent, Passed(m) PROVE Passed(m)'
    BY <1>7, <2>2, <2>4, Zenon DEF Passed, For, Reached
  <2>5. ASSUME pneed[w] # NoHeader PROVE Passed(n)'
    <3>1. sent[n].dst = PARENT
      BY <1>1, <1>9, <1>16, <2>5, Zenon DEF Sent
    <3>2. \A v \in Ids : ~For(n, v)'
      BY <1>7, <3>1, IdsApart, Zenon DEF For
    <3> QED
      BY <3>2, Zenon DEF Passed
  <2> QED
    BY <1>15, <2>1, <2>3, <2>4, <2>5, Zenon
<1>17. CASE pneed[w] # NoHeader /\ sent[n].type # "accesslog"
  <2>1. PICK copies : copies = RelayedTo(w, unit.dst)
    BY Zenon
  <2>2. copies \subseteq Ids /\ \A v \in Ids : v \in copies <=> For(n, v)
    BY <1>2, <1>9, <2>1, Zenon DEF RelayedTo, For
  <2>3. PICK queue : queue = [v \in Ids |-> pqueue[v] \o IF v \in copies THEN Units(n, v) ELSE <<>>]
    BY Zenon
  <2>4. PICK stuck \in SUBSET copies :
          LET k == [v \in Ids |-> IF v \in copies \ stuck THEN Len(queue[v]) ELSE 0]
          IN /\ pqueue' = [v \in Ids |-> Unwritten(queue[v], k[v])]
             /\ dnpipe' = [v \in Ids |-> dnpipe[v] \o Written(queue[v], k[v])]
    <3>1. pneed[w] # NoHeader /\ sent[Head(uppipe[w]).m].type # "accesslog"
      BY <1>4, <1>5, <1>17, Zenon
    <3>2. LET c == RelayedTo(w, Head(uppipe[w]).dst)
              q0 == [v \in Ids |-> pqueue[v] \o IF v \in c THEN Units(Head(uppipe[w]).m, v) ELSE <<>>]
          IN \E stuck \in SUBSET c :
               LET k == [v \in Ids |-> IF v \in c \ stuck THEN Len(q0[v]) ELSE 0]
               IN /\ pqueue' = [v \in Ids |-> Unwritten(q0[v], k[v])]
                  /\ dnpipe' = [v \in Ids |-> dnpipe[v] \o Written(q0[v], k[v])]
      BY <3>1, Zenon DEF ParentRecv
    <3>3. copies = RelayedTo(w, Head(uppipe[w]).dst)
      BY <1>4, <2>1, Zenon
    <3>4. queue = [v \in Ids |-> pqueue[v] \o IF v \in RelayedTo(w, Head(uppipe[w]).dst)
                                              THEN Units(Head(uppipe[w]).m, v) ELSE <<>>]
      BY <1>4, <1>5, <2>3, <3>3, Zenon
    <3> QED
      BY <3>2, <3>3, <3>4, ZenonT(60)
  <2>5. PICK k : k = [v \in Ids |-> IF v \in copies \ stuck THEN Len(queue[v]) ELSE 0]
    BY Zenon
  <2>6. /\ pqueue' = [v \in Ids |-> Unwritten(queue[v], k[v])]
        /\ dnpipe' = [v \in Ids |-> dnpipe[v] \o Written(queue[v], k[v])]
    BY <2>4, <2>5, Zenon
  <2>7. ASSUME NEW v \in Ids
        PROVE  /\ pqueue'[v] \in Seq(Parts) /\ dnpipe'[v] \in Seq(Parts)
               /\ DownStream(v)' = IF v \in copies THEN DownStream(v) \o Units(n, v) ELSE DownStream(v)
    <3>1. PICK p \in Seq(Parts), o \in Seq(Parts) : p = dnpipe[v] /\ o = pqueue[v]
      BY <1>1, Zenon DEF Typed
    <3>2. PICK e : e = IF v \in copies THEN Units(n, v) ELSE <<>>
      BY Zenon
    <3>3. e \in Seq(Parts)
      <4>1. Units(n, v) \in Seq(Parts)
        BY <1>9, UnitsParts, Zenon DEF Dests
      <4>2. <<>> \in Seq(Parts)
        OBVIOUS
      <4> QED
        BY <3>2, <4>1, <4>2, Zenon
    <3>4. PICK g : g = o \o e
      BY Zenon
    <3>5. g \in Seq(Parts) /\ queue[v] = g
      <4>1. o \o e \in Seq(Parts)
        BY <3>3, Concat, Zenon
      <4> QED
        BY <2>3, <3>1, <3>2, <3>4, <4>1, Zenon
    <3>6. PICK l : l = k[v]
      BY Zenon
    <3>7. l \in 0 .. Len(g)
      <4>1. Len(g) \in Nat
        BY <3>5
      <4>2. l = Len(g) \/ l = 0
        BY <2>5, <3>5, <3>6, Zenon
      <4> QED
        BY <4>1, <4>2
    <3>8. /\ p \o Written(g, l) \in Seq(Parts) /\ Unwritten(g, l) \in Seq(Parts)
          /\ (p \o Written(g, l)) \o Unwritten(g, l) = p \o g
      BY <3>5, <3>7, Rejoin, SMTT(30)
    <3>9. pqueue'[v] = Unwritten(g, l) /\ dnpipe'[v] = p \o Written(g, l)
      BY <2>6, <3>1, <3>5, <3>6, Zenon
    <3>10. p \o (o \o e) = (p \o o) \o e
      <4>1. p \in Seq(Parts) /\ o \in Seq(Parts) /\ e \in Seq(Parts)
        BY <3>3, Zenon
      <4> QED
        OBVIOUS
    <3>11. DownStream(v)' = (p \o o) \o e /\ DownStream(v) = p \o o
      BY <3>1, <3>4, <3>8, <3>9, <3>10, Zenon DEF DownStream
    <3>12. (p \o o) \o <<>> = p \o o
      <4>1. p \o o \in Seq(Parts)
        BY Concat, Zenon
      <4> QED
        BY <4>1
    <3> QED
      BY <3>2, <3>8, <3>9, <3>11, <3>12, Zenon
  <2>8. Typed'
    <3>1. pqueue' \in [Ids -> Seq(Parts)] /\ dnpipe' \in [Ids -> Seq(Parts)]
      BY <2>6, <2>7, Zenon
    <3> QED
      BY <1>1, <1>7, <1>13, <1>14, <3>1, Zenon DEF Typed
  <2>9. ASSUME NEW m \in DOMAIN sent, m < n, SameLife(m, n) PROVE Passed(m)
    <3>1. 1 \in DOMAIN UpStream(w) /\ UpStream(w)[1].m = n /\ Before(UpStream(w), 1) = {}
      BY <1>3, <1>5, <1>6, <1>8, SMTT(30) DEF Before
    <3> QED
      BY <1>1, <1>2, <2>9, <3>1, ZenonT(60) DEF UpOrder
  <2>10. ASSUME NEW v \in Ids, v \in copies
         PROVE  DownOK(v)' /\ DownOrder(v)' /\ Bodies(DownStream(v))' = Bodies(DownStream(v)) \cup {n}
    <3>1. \A m \in DOMAIN sent : Due(m, n, v) => Reached(m, v)
      BY <2>9, Zenon DEF Due, Passed
    <3>2. For(n, v) /\ DownStream(v)' = DownStream(v) \o Units(n, v)
      BY <2>2, <2>7, <2>10, Zenon
    <3> QED
      BY <1>1, <1>2, <1>7, <1>9, <3>1, <3>2, DownGrows, Zenon
  <2>11. ASSUME NEW v \in Ids, v \notin copies
         PROVE  DownOK(v)' /\ DownOrder(v)' /\ DownStream(v)' = DownStream(v)
    <3>1. DownStream(v)' = DownStream(v)
      BY <2>7, <2>11, Zenon
    <3> QED
      BY <1>1, <1>7, <1>10, <2>8, <3>1, DownKept, Zenon
  <2>12. ASSUME NEW m, NEW v \in Ids, Reached(m, v) PROVE Reached(m, v)'
    BY <1>7, <2>10, <2>11, <2>12, Zenon DEF Reached
  <2>13. ASSUME NEW m \in DOMAIN sent, Passed(m) PROVE Passed(m)'
    BY <1>7, <2>12, <2>13, Zenon DEF Passed, For
  <2>14. Passed(n)'
    <3>1. ASSUME NEW v \in Ids, For(n, v)' PROVE Reached(n, v)'
      <4>1. v \in copies
        BY <1>7, <2>2, <3>1, Zenon DEF For
      <4> QED
        BY <2>10, <4>1, Zenon DEF Reached
    <3> QED
      BY <3>1, Zenon DEF Passed
  <2> QED
    BY <1>15, <2>8, <2>10, <2>11, <2>13, <2>14, Zenon
<1> QED
  <2>1. \/ UNCHANGED <<pqueue, dnpipe>> /\ (pneed[w] # NoHeader => sent[n].type = "accesslog")
        \/ pneed[w] # NoHeader /\ sent[n].type # "accesslog"
    BY <1>4, <1>5, Zenon DEF ParentRecv
  <2> QED
    BY <1>16, <1>17, <2>1, Zenon

-----------------------------------------------------------------------------
(* Processes that end, and start again *)

\* A nonempty set of natural numbers has a least element.
LEMMA Least ==
  ASSUME NEW T \in SUBSET Nat, T # {}
  PROVE  \E m \in T : \A n \in T : m <= n
<1>1. PICK m \in T : \A n \in T : ~(<<n, m>> \in OpToRel(<, Nat))
  BY WFMin, NatLessThanWellFounded, Zenon
<1>2. m \in Nat /\ \A n \in T : n \in Nat /\ ~(n < m)
  BY <1>1, Zenon DEF OpToRel
<1>3. \A n \in T : m <= n
  BY <1>2
<1> QED
  BY <1>3, Zenon

\* The connection of a restarted worker goes to the end of the list, and no other leaves it
\* (kore_msg_parent_remove, kore_msg_parent_add).
LEMMA Readded ==
  ASSUME NEW w \in Ids, connections \in Seq(Ids), Range(connections) = Ids
  PROVE  Append(Removed(w), w) \in Seq(Ids) /\ Range(Append(Removed(w), w)) = Ids
<1>1. PICK c \in Seq(Ids) : c = connections
  BY Zenon
<1>2. PICK at \in DOMAIN c : c[at] = w
  BY <1>1, Zenon DEF Range
<1>3. PICK l : l = Search(c, LAMBDA x : x = w)
  BY Zenon
<1>4. l \in DOMAIN c /\ c[l] = w
  <2> DEFINE I == {i \in 1 .. Len(c) : c[i] = w}
  <2>1. l = IF I = {} THEN 0 ELSE Min(I)
    BY <1>3, Zenon DEF Search
  <2>2. at \in I /\ I \in SUBSET Nat
    BY <1>2
  <2>3. \A i \in I : i \in DOMAIN c /\ c[i] = w
    OBVIOUS
  <2> HIDE DEF I
  <2>4. \E m \in I : \A n \in I : m <= n
    BY <2>2, Least, Zenon
  <2>5. Min(I) \in I
    BY <2>4, Zenon DEF Min
  <2> QED
    BY <2>1, <2>2, <2>3, <2>5, Zenon
<1>5. Len(c) \in Nat /\ l \in 1 .. Len(c) /\ DOMAIN c = 1 .. Len(c)
  BY <1>4
<1>6. PICK r : r = Removed(w)
  BY Zenon
<1>7. r = Delete(c, l)
  <2>1. w \in Range(c)
    BY <1>2, Zenon DEF Range
  <2> QED
    BY <1>1, <1>3, <1>6, <2>1, Zenon DEF Removed, Unlink
<1>8. r = SubSeq(c, 1, l - 1) \o SubSeq(c, l + 1, Len(c))
  BY <1>7, Zenon DEF Delete
<1>9. PICK a : a = SubSeq(c, 1, l - 1)
  BY Zenon
<1>10. PICK b : b = SubSeq(c, l + 1, Len(c))
  BY Zenon
<1>11. a \in Seq(Ids) /\ Len(a) = l - 1 /\ \A i \in 1 .. l - 1 : a[i] = c[i]
  BY <1>5, <1>9
<1>12. b \in Seq(Ids) /\ Len(b) = Len(c) - l /\ \A i \in 1 .. Len(c) - l : b[i] = c[l + i]
  <2>1. b \in Seq(Ids)
    BY <1>5, <1>10
  <2>2. Len(b) = Len(c) - l
    <3>1. CASE l + 1 <= Len(c)
      BY <1>5, <1>10, <3>1
    <3>2. CASE l = Len(c)
      BY <1>5, <1>10, <3>2
    <3>3. l + 1 <= Len(c) \/ l = Len(c)
      <4>1. PICK n \in Nat : n = Len(c)
        BY <1>5, Zenon
      <4>2. l \in 1 .. n
        BY <1>5, <4>1, Zenon
      <4>3. l + 1 <= n \/ l = n
        BY <4>2
      <4> QED
        BY <4>1, <4>3, Zenon
    <3> QED
      BY <3>1, <3>2, <3>3, Zenon
  <2>3. ASSUME NEW i \in 1 .. Len(c) - l PROVE b[i] = c[l + i]
    BY <1>5, <1>10
  <2> QED
    BY <2>1, <2>2, <2>3, Zenon
<1>13. /\ r \in Seq(Ids) /\ Len(r) = Len(c) - 1
       /\ \A i \in 1 .. Len(a) : r[i] = a[i]
       /\ \A i \in 1 .. Len(b) : r[Len(a) + i] = b[i]
  <2>1. a \in Seq(Ids) /\ b \in Seq(Ids)
    BY <1>11, <1>12, Zenon
  <2>2. /\ a \o b \in Seq(Ids) /\ Len(a \o b) = Len(a) + Len(b)
        /\ \A i \in 1 .. Len(a) : (a \o b)[i] = a[i]
        /\ \A i \in 1 .. Len(b) : (a \o b)[Len(a) + i] = b[i]
    BY <2>1, Concat
  <2>3. r = a \o b
    BY <1>8, <1>9, <1>10, Zenon
  <2>4. Len(a) + Len(b) = Len(c) - 1
    BY <1>5, <1>11, <1>12
  <2> QED
    BY <2>2, <2>3, <2>4, Zenon
<1>14. PICK e : e = Append(r, w)
  BY Zenon
<1>15. /\ e \in Seq(Ids) /\ Len(e) = Len(c) /\ e[Len(c)] = w
       /\ \A i \in 1 .. Len(c) - 1 : e[i] = r[i]
  <2>1. r \in Seq(Ids) /\ Len(r) = Len(c) - 1
    BY <1>13, Zenon
  <2>2. /\ Append(r, w) \in Seq(Ids) /\ Len(Append(r, w)) = Len(r) + 1 /\ Append(r, w)[Len(r) + 1] = w
        /\ \A i \in 1 .. Len(r) : Append(r, w)[i] = r[i]
    BY <2>1
  <2>3. Len(r) + 1 = Len(c)
    BY <1>5, <2>1
  <2> QED
    BY <1>14, <2>1, <2>2, <2>3, Zenon
<1>16. ASSUME NEW v \in Ids PROVE v \in Range(e)
  <2>1. PICK i \in 1 .. Len(c) : c[i] = v
    BY <1>1, <1>5, Zenon DEF Range
  <2>2. DOMAIN e = 1 .. Len(c)
    BY <1>15
  <2>3. CASE i < l
    <3>1. i \in 1 .. l - 1 /\ i \in 1 .. Len(a) /\ i \in 1 .. Len(c) - 1
      BY <1>5, <1>11, <2>3
    <3>2. e[i] = v
      BY <1>11, <1>13, <1>15, <2>1, <3>1, Zenon
    <3> QED
      BY <2>1, <2>2, <3>2, Zenon DEF Range
  <2>4. CASE i = l
    <3>1. v = w /\ Len(c) \in 1 .. Len(c)
      BY <1>4, <1>5, <2>1, <2>4
    <3> QED
      BY <1>15, <2>2, <3>1, Zenon DEF Range
  <2>5. CASE i > l
    <3>1. /\ i - l \in 1 .. Len(c) - l /\ i - l \in 1 .. Len(b) /\ i - 1 \in 1 .. Len(c) - 1 /\ i - 1 \in 1 .. Len(c)
          /\ i - 1 = Len(a) + (i - l) /\ l + (i - l) = i
      BY <1>5, <1>11, <1>12, <2>5
    <3>2. e[i - 1] = r[i - 1]
      BY <1>15, <3>1, Zenon
    <3>3. r[Len(a) + (i - l)] = b[i - l]
      BY <1>13, <3>1, Zenon
    <3>4. b[i - l] = c[l + (i - l)]
      BY <1>12, <3>1, Zenon
    <3>5. e[i - 1] = v
      BY <2>1, <3>1, <3>2, <3>3, <3>4, Zenon
    <3> QED
      BY <2>2, <3>1, <3>5, Zenon DEF Range
  <2>6. i < l \/ i = l \/ i > l
    BY <1>5
  <2> QED
    BY <2>3, <2>4, <2>5, <2>6, Zenon
<1>17. Range(e) \subseteq Ids
  BY <1>15 DEF Range
<1> QED
  BY <1>6, <1>14, <1>15, <1>16, <1>17, Zenon

\* The restart of a worker: the old pair goes with all that is in it.
LEMMA RestartKeeps ==
  ASSUME Inv, NEW w \in Ids, Restart(w)
  PROVE  Inv'
<1>1. /\ Typed /\ Running /\ Sent
      /\ \A v \in Ids : UpOK(v) /\ UpOrder(v) /\ DownOK(v) /\ DownOrder(v)
  BY Zenon DEF Inv
<1>2. /\ parentUp /\ up[w] = "dead" /\ connections' = Append(Removed(w), w)
      /\ uppipe' = [uppipe EXCEPT ![w] = <<>>] /\ pneed' = [pneed EXCEPT ![w] = NoHeader]
      /\ pqueue' = [pqueue EXCEPT ![w] = <<>>] /\ dnpipe' = [dnpipe EXCEPT ![w] = <<>>]
      /\ wneed' = [wneed EXCEPT ![w] = NoHeader]
      /\ up' = [up EXCEPT ![w] = "up"] /\ inc' = [inc EXCEPT ![w] = @ + 1]
      /\ handled' = [handled EXCEPT ![w] = <<>>] /\ holders' = Inherit(w)
      /\ sent' = sent /\ wqueue' = wqueue /\ parentUp' = parentUp
  BY Zenon DEF Restart
<1>3. connections' \in Seq(Ids) /\ Range(connections') = Ids
  BY <1>1, <1>2, Readded, Zenon DEF Typed, Running
<1>4. /\ inc' \in [Ids -> Nat] /\ inc'[w] = inc[w] + 1 /\ inc[w] \in Nat
      /\ \A v \in Ids : v # w => inc'[v] = inc[v]
  <2>1. inc \in [Ids -> Nat]
    BY <1>1, Zenon DEF Typed
  <2> QED
    BY <1>2, <2>1
<1>5. \A v \in Ids : inc'[v] \in Nat /\ inc'[v] >= inc[v] /\ (inc'[v] = inc[v] => v # w)
  <2>1. inc \in [Ids -> Nat]
    BY <1>1, Zenon DEF Typed
  <2> QED
    BY <1>4, <2>1
<1>6. /\ holders' \in [Ids -> SUBSET (Ids \cup {PARENT})]
      /\ w \in holders'[w] /\ \A v \in Ids : v # w => (v \in holders[v] => v \in holders'[v])
  BY <1>1, <1>2, Zenon DEF Inherit, Typed
<1>7. Typed'
  <2>1. uppipe' \in [Ids -> Seq(Parts)] /\ pqueue' \in [Ids -> Seq(Parts)] /\ dnpipe' \in [Ids -> Seq(Parts)]
    BY <1>1, <1>2 DEF Typed
  <2>2. pneed' \in [Ids -> Nat] /\ wneed' \in [Ids -> Nat]
    BY <1>1, <1>2, Zenon DEF Typed, NoHeader
  <2>3. handled' \in [Ids -> Seq(Nat)] /\ up' \in [Ids -> {"up", "dead", "gone"}]
    <3>1. handled \in [Ids -> Seq(Nat)] /\ up \in [Ids -> {"up", "dead", "gone"}]
      BY <1>1, Zenon DEF Typed
    <3>2. <<>> \in Seq(Nat)
      OBVIOUS
    <3> QED
      BY <1>2, <3>1, <3>2, Zenon
  <2> QED
    BY <1>1, <1>2, <1>3, <1>4, <1>6, <2>1, <2>2, <2>3, Zenon DEF Typed
<1>8. Running'
  <2>1. ASSUME NEW v \in Ids PROVE (up'[v] # "up" => wqueue'[v] = <<>>) /\ (up'[v] = "up" => v \in holders'[v])
    <3>1. up \in [Ids -> {"up", "dead", "gone"}] /\ (v # w => up'[v] = up[v]) /\ up'[w] = "up"
      BY <1>1, <1>2, Zenon DEF Typed
    <3> QED
      BY <1>1, <1>2, <1>6, <3>1, Zenon DEF Running
  <2> QED
    BY <1>3, <2>1, Zenon DEF Running
<1>9. \A m \in DOMAIN sent, v \in Ids : sent[m].inc[v] \in Nat /\ sent[m].inc[v] <= inc[v] /\ inc[v] \in Nat
  <2>1. \A m \in DOMAIN sent : sent[m] \in Message
    BY <1>1 DEF Typed
  <2>2. \A m \in DOMAIN sent : sent[m].inc \in [Ids -> Nat]
    BY <2>1, Zenon DEF Message
  <2>3. inc \in [Ids -> Nat]
    BY <1>1, Zenon DEF Typed
  <2> QED
    BY <1>1, <2>2, <2>3, Zenon DEF Sent
<1>10. Sent'
  <2>1. ASSUME NEW m \in DOMAIN sent, NEW v \in Ids PROVE sent[m].inc[v] <= inc'[v]
    <3>1. sent[m].inc[v] \in Nat /\ sent[m].inc[v] <= inc[v] /\ inc[v] \in Nat /\ inc'[v] \in Nat /\ inc'[v] >= inc[v]
      BY <1>5, <1>9, Zenon
    <3> QED
      BY <3>1
  <2> QED
    BY <1>1, <1>2, <2>1, Zenon DEF Sent
<1>11. ASSUME NEW v \in Ids, v # w
       PROVE  /\ UpStream(v)' = UpStream(v) /\ DownStream(v)' = DownStream(v) /\ handled'[v] = handled[v]
              /\ pneed'[v] = pneed[v] /\ wneed'[v] = wneed[v] /\ inc'[v] = inc[v] /\ up'[v] = up[v]
  BY <1>1, <1>2, <1>11, Zenon DEF UpStream, DownStream, Typed
<1>12. /\ UpStream(w)' = <<>> /\ DownStream(w)' = <<>> /\ handled'[w] = <<>>
       /\ pneed'[w] = NoHeader /\ wneed'[w] = NoHeader
  <2>1. wqueue[w] = <<>>
    BY <1>1, <1>2, Zenon DEF Running
  <2>2. /\ uppipe'[w] = <<>> /\ dnpipe'[w] = <<>> /\ pqueue'[w] = <<>> /\ wqueue'[w] = <<>>
        /\ handled'[w] = <<>> /\ pneed'[w] = NoHeader /\ wneed'[w] = NoHeader
    BY <1>1, <1>2, <2>1, Zenon DEF Typed
  <2>3. <<>> \o <<>> = <<>>
    OBVIOUS
  <2> QED
    BY <2>2, <2>3, Zenon DEF UpStream, DownStream
<1>13. Grows
  BY <1>2, Zenon DEF Grows
<1>14. ASSUME NEW m \in DOMAIN sent, Passed(m) PROVE Passed(m)'
  <2>1. ASSUME NEW v \in Ids, v # w, Reached(m, v) PROVE Reached(m, v)'
    BY <1>11, <2>1, Zenon DEF Reached
  <2>2. \A v \in Ids : inc'[v] \in Nat /\ inc'[v] >= inc[v] /\ (inc'[v] = inc[v] => (Reached(m, v) => Reached(m, v)'))
    BY <1>5, <2>1, Zenon
  <2> QED
    BY <1>1, <1>2, <1>14, <2>2, PassedKept, Zenon
<1>15. ASSUME NEW v \in Ids, v # w PROVE UpOK(v)' /\ UpOrder(v)' /\ DownOK(v)' /\ DownOrder(v)'
  <2>1. UpOK(v)'
    BY <1>1, <1>11, <1>13, <1>15, UpKept, Zenon
  <2>2. UpOrder(v)'
    BY <1>1, <1>2, <1>11, <1>14, <1>15, OrderKept, Zenon
  <2>3. DownOK(v)' /\ DownOrder(v)'
    BY <1>1, <1>2, <1>7, <1>11, <1>13, <1>15, DownKept, Zenon
  <2> QED
    BY <2>1, <2>2, <2>3, Zenon
<1>16. UpOK(w)' /\ UpOrder(w)'
  <2>1. UpOK(w)'
    BY <1>12, SMTT(30) DEF UpOK, Framed, Whole
  <2>2. ASSUME NEW m \in DOMAIN sent PROVE sent[m].inc[w] # inc'[w]
    <3>1. sent[m].inc[w] \in Nat /\ sent[m].inc[w] <= inc[w] /\ inc[w] \in Nat
      BY <1>9, ZenonT(60)
    <3> QED
      BY <1>4, <3>1
  <2>3. UpOrder(w)'
    BY <1>2, <1>12, <2>2, SMTT(30) DEF UpOrder
  <2> QED
    BY <2>1, <2>3, Zenon
<1>17. DownOK(w)' /\ DownOrder(w)'
  BY <1>12, SMTT(30) DEF DownOK, DownOrder, Framed, Whole
<1> QED
  BY <1>7, <1>8, <1>10, <1>15, <1>16, <1>17, Zenon DEF Inv

\* A worker ends with the last of what it had queued lost: its stream is cut short.
LEMMA CutShort ==
  ASSUME Inv, NEW w \in Ids, NEW a \in Seq(Parts), NEW b \in Seq(Parts), UpStream(w) = a \o b, UpStream(w)' = a,
         up'[w] # "up", UNCHANGED <<sent, inc, parentUp, pneed, pqueue, dnpipe, wneed, handled>>
  PROVE  UpOK(w)' /\ UpOrder(w)'
<1>1. UpOK(w) /\ UpOrder(w)
  BY Zenon DEF Inv
<1>2. PICK q : q = a \o b
  BY Zenon
<1>3. /\ Len(q) = Len(a) + Len(b) /\ Len(a) \in Nat /\ Len(b) \in Nat /\ \A i \in 1 .. Len(a) : q[i] = a[i]
      /\ DOMAIN a = 1 .. Len(a) /\ DOMAIN q = 1 .. Len(q)
  BY <1>2
<1>4. \A j \in DOMAIN a : j \in DOMAIN q /\ q[j] = a[j]
  BY <1>3
<1>5. Framed(pneed[w], a)
  BY <1>1, FramedPrefix, Zenon DEF UpOK
<1>6. \A j \in DOMAIN a : Before(q, j) = Before(a, j)
  <2>1. ASSUME NEW j \in DOMAIN a PROVE Before(a \o b, j) = Before(a, j)
    <3>1. j \in 1 .. Len(a) + 1
      BY <1>3
    <3> QED
      BY <3>1, BeforePrefix, Zenon
  <2> QED
    BY <1>2, <2>1, Zenon
<1>7. UpOK(w)'
  <2>1. Framed(pneed[w], UpStream(w))'
    BY <1>5, Zenon
  <2>2. \A j \in DOMAIN a : LET u == a[j]
                            IN /\ u.m \in DOMAIN sent /\ sent[u.m].src = w /\ sent[u.m].inc[w] = inc[w]
                               /\ u.dst = sent[u.m].dst
    BY <1>1, <1>2, <1>4, SMTT(30) DEF UpOK
  <2> QED
    BY <2>1, <2>2, Zenon DEF UpOK
<1>8. \A m : Passed(m) => Passed(m)'
  BY Zenon DEF Passed, For, Reached, DownStream
<1>9. ASSUME parentUp, NEW j \in DOMAIN a, NEW m \in DOMAIN sent, m < a[j].m, SameLife(m, a[j].m)
      PROVE  m \in Before(a, j) \/ Passed(m)'
  <2>1. j \in DOMAIN UpStream(w) /\ UpStream(w)[j] = a[j] /\ Before(UpStream(w), j) = Before(a, j)
    BY <1>2, <1>4, <1>6, Zenon
  <2> QED
    BY <1>1, <1>8, <1>9, <2>1, Zenon DEF UpOrder
<1>10. UpOrder(w)'
  BY <1>9, Zenon DEF UpOrder, SameLife
<1> QED
  BY <1>7, <1>10, Zenon

\* The process of a worker is gone; what it wrote before is still read.
LEMMA WorkerEnds ==
  ASSUME Inv, NEW w \in Ids, NEW a \in Seq(Parts), NEW b \in Seq(Parts), UpStream(w) = a \o b,
         uppipe' = [uppipe EXCEPT ![w] = a], wqueue' = [wqueue EXCEPT ![w] = <<>>],
         NEW e \in {"dead", "gone"}, up' = [up EXCEPT ![w] = e], holders' = Closed(w),
         UNCHANGED <<sent, inc, parentUp, connections, pneed, pqueue, dnpipe, wneed, handled>>
  PROVE  Inv'
<1>1. /\ Typed /\ Running /\ Sent
      /\ \A v \in Ids : UpOK(v) /\ UpOrder(v) /\ DownOK(v) /\ DownOrder(v)
  BY Zenon DEF Inv
<1>2. Typed'
  <2>1. uppipe' \in [Ids -> Seq(Parts)] /\ wqueue' \in [Ids -> Seq(Parts)] /\ up' \in [Ids -> {"up", "dead", "gone"}]
    BY <1>1 DEF Typed
  <2>2. holders' \in [Ids -> SUBSET (Ids \cup {PARENT})]
    BY <1>1, Zenon DEF Typed, Closed
  <2> QED
    BY <1>1, <2>1, <2>2, Zenon DEF Typed
<1>3. /\ up'[w] # "up" /\ wqueue'[w] = <<>> /\ uppipe'[w] = a
      /\ \A v \in Ids : v # w => up'[v] = up[v] /\ wqueue'[v] = wqueue[v] /\ uppipe'[v] = uppipe[v]
  BY <1>1, Zenon DEF Typed
<1>4. Running'
  BY <1>1, <1>3, Zenon DEF Running, Closed
<1>5. Sent' /\ Grows
  BY <1>1, Zenon DEF Sent, Grows
<1>6. UpStream(w)' = a
  <2>1. a \o <<>> = a
    OBVIOUS
  <2> QED
    BY <1>3, <2>1, Zenon DEF UpStream
<1>7. UpOK(w)' /\ UpOrder(w)'
  BY <1>3, <1>6, CutShort, Zenon
<1>8. \A m \in DOMAIN sent : Passed(m) => Passed(m)'
  BY Zenon DEF Passed, For, Reached, DownStream
<1>9. ASSUME NEW v \in Ids, v # w PROVE UpOK(v)' /\ UpOrder(v)'
  <2>1. UpStream(v)' = UpStream(v) /\ up'[v] = up[v]
    BY <1>3, <1>9, Zenon DEF UpStream
  <2>2. UpOK(v)'
    BY <1>1, <1>5, <2>1, UpKept, Zenon
  <2>3. UpOrder(v)'
    BY <1>1, <1>8, <2>1, OrderKept, Zenon
  <2> QED
    BY <2>2, <2>3, Zenon
<1>10. ASSUME NEW v \in Ids PROVE DownOK(v)' /\ DownOrder(v)'
  <2>1. DownStream(v)' = DownStream(v)
    BY Zenon DEF DownStream
  <2> QED
    BY <1>1, <1>2, <1>5, <2>1, DownKept, Zenon
<1> QED
  BY <1>2, <1>4, <1>5, <1>7, <1>9, <1>10, Zenon DEF Inv

\* A worker dies, or ends after a last write.
LEMMA EndsKeep ==
  ASSUME Inv, NEW w \in Ids, Crash(w) \/ Quit(w)
  PROVE  Inv'
<1>1. uppipe \in [Ids -> Seq(Parts)] /\ wqueue \in [Ids -> Seq(Parts)]
  BY Zenon DEF Inv, Typed
<1>2. PICK a \in Seq(Parts), b \in Seq(Parts) : a = uppipe[w] /\ b = wqueue[w]
  BY <1>1, Zenon
<1>3. UpStream(w) = a \o b
  BY <1>2, Zenon DEF UpStream
<1>4. CASE Crash(w)
  <2>1. /\ wqueue' = [wqueue EXCEPT ![w] = <<>>] /\ up' = [up EXCEPT ![w] = "dead"] /\ holders' = Closed(w)
        /\ UNCHANGED <<sent, inc, parentUp, connections, pneed, pqueue, dnpipe, wneed, handled>> /\ uppipe' = uppipe
    BY <1>4, Zenon DEF Crash, downward
  <2>2. uppipe' = [uppipe EXCEPT ![w] = a]
    BY <1>1, <1>2, <2>1, Zenon
  <2> QED
    BY <1>3, <2>1, <2>2, WorkerEnds, Zenon
<1>5. CASE Quit(w)
  <2>1. PICK k \in 0 .. Len(b) :
             /\ wqueue' = [wqueue EXCEPT ![w] = <<>>] /\ up' = [up EXCEPT ![w] = "gone"] /\ holders' = Closed(w)
             /\ UNCHANGED <<sent, inc, parentUp, connections, pneed, pqueue, dnpipe, wneed, handled>>
             /\ uppipe' = [uppipe EXCEPT ![w] = @ \o Written(b, k)]
    BY <1>2, <1>5, Zenon DEF Quit, downward
  <2>2. PICK c : c = a \o Written(b, k)
    BY Zenon
  <2>3. PICK d : d = Unwritten(b, k)
    BY Zenon
  <2>4. c \in Seq(Parts) /\ d \in Seq(Parts) /\ c \o d = a \o b
    BY <2>2, <2>3, Rejoin, Zenon
  <2>5. uppipe' = [uppipe EXCEPT ![w] = c]
    BY <1>1, <1>2, <2>1, <2>2, Zenon
  <2> QED
    BY <1>3, <2>1, <2>4, <2>5, WorkerEnds, Zenon
<1> QED
  BY <1>4, <1>5, Zenon

\* The parent is killed: what it had queued is lost, what it wrote is still read.
LEMMA ParentDiesKeeps ==
  ASSUME Inv, ParentDies
  PROVE  Inv'
<1>1. /\ Typed /\ Running /\ Sent
      /\ \A v \in Ids : UpOK(v) /\ UpOrder(v) /\ DownOK(v) /\ DownOrder(v)
  BY Zenon DEF Inv
<1>2. /\ parentUp' = FALSE /\ connections' = <<>> /\ pqueue' = [w \in Ids |-> <<>>] /\ holders' = Closed(PARENT)
      /\ UNCHANGED <<sent, up, inc, wqueue, uppipe, pneed, dnpipe, wneed, handled>>
  BY Zenon DEF ParentDies, upward
<1>3. Typed'
  <2>1. pqueue' \in [Ids -> Seq(Parts)] /\ connections' \in Seq(Ids) /\ parentUp' \in BOOLEAN
    <3>1. <<>> \in Seq(Parts) /\ <<>> \in Seq(Ids)
      OBVIOUS
    <3> QED
      BY <1>2, <3>1, Zenon
  <2>2. holders' \in [Ids -> SUBSET (Ids \cup {PARENT})]
    BY <1>1, <1>2, Zenon DEF Typed, Closed
  <2> QED
    BY <1>1, <1>2, <2>1, <2>2, Zenon DEF Typed
<1>4. Running'
  BY <1>1, <1>2, IdsApart, Zenon DEF Running, Closed
<1>5. Sent' /\ Grows
  BY <1>1, <1>2, Zenon DEF Sent, Grows
<1>6. ASSUME NEW v \in Ids PROVE UpOK(v)' /\ UpOrder(v)'
  <2>1. UpStream(v)' = UpStream(v)
    BY <1>2, Zenon DEF UpStream
  <2>2. UpOK(v)'
    BY <1>1, <1>2, <1>5, <2>1, UpKept, Zenon
  <2> QED
    BY <1>2, <2>2, Zenon DEF UpOrder
<1>7. ASSUME NEW v \in Ids PROVE DownOK(v)' /\ DownOrder(v)'
  <2>1. PICK a \in Seq(Parts), b \in Seq(Parts) : a = dnpipe[v] /\ b = pqueue[v]
    BY <1>1, Zenon DEF Typed
  <2>2. PICK q : q = a \o b
    BY Zenon
  <2>3. DownStream(v) = q /\ DownStream(v) = a \o b
    BY <2>1, <2>2, Zenon DEF DownStream
  <2>4. DownStream(v)' = a
    <3>1. a \o <<>> = a
      OBVIOUS
    <3> QED
      BY <1>2, <2>1, <3>1, Zenon DEF DownStream
  <2>5. /\ Len(q) = Len(a) + Len(b) /\ Len(a) \in Nat /\ Len(b) \in Nat /\ \A i \in 1 .. Len(a) : q[i] = a[i]
        /\ DOMAIN a = 1 .. Len(a) /\ DOMAIN q = 1 .. Len(q)
    BY <2>2
  <2>6. \A j \in DOMAIN a : j \in DOMAIN q /\ q[j] = a[j]
    BY <2>5
  <2>7. Framed(wneed[v], a)
    BY <1>1, <2>3, FramedPrefix, Zenon DEF DownOK
  <2>8. ASSUME NEW j \in DOMAIN a PROVE Before(q, j) = Before(a, j)
    <3>1. j \in 1 .. Len(a) + 1
      BY <2>5
    <3> QED
      BY <2>2, <3>1, BeforePrefix, Zenon
  <2>9. DownOK(v)'
    <3>1. \A j \in DOMAIN a : a[j].m \in DOMAIN sent /\ For(a[j].m, v) /\ a[j].dst = v
      BY <1>1, <2>3, <2>6, Zenon DEF DownOK
    <3>2. \A m : For(m, v)' <=> For(m, v)
      BY <1>2, Zenon DEF For
    <3>3. \A i \in DOMAIN handled[v] : handled[v][i] \in DOMAIN sent /\ For(handled[v][i], v)
      BY <1>1, Zenon DEF DownOK
    <3>4. Framed(wneed[v], DownStream(v))'
      BY <1>2, <2>4, <2>7, Zenon
    <3> QED
      BY <1>2, <2>4, <3>1, <3>2, <3>3, <3>4, Zenon DEF DownOK
  <2>10. \A m, n : Due(m, n, v)' <=> Due(m, n, v)
    BY <1>2, Zenon DEF Due, For, SameLife
  <2>11. ASSUME NEW j \in DOMAIN a, NEW m \in DOMAIN sent, Due(m, a[j].m, v)
         PROVE  m \in Range(handled[v]) \cup Before(a, j)
    <3>1. j \in DOMAIN DownStream(v) /\ DownStream(v)[j] = a[j] /\ Before(DownStream(v), j) = Before(a, j)
      BY <2>3, <2>6, <2>8, Zenon
    <3> QED
      BY <1>1, <2>11, <3>1, Zenon DEF DownOrder
  <2>12. \A i \in DOMAIN handled[v] : \A m \in DOMAIN sent :
           Due(m, handled[v][i], v) => m \in {handled[v][k] : k \in 1 .. i - 1}
    BY <1>1, Zenon DEF DownOrder
  <2>13. DownOrder(v)'
    <3>1. \A j \in DOMAIN DownStream(v)' : \A m \in DOMAIN sent' :
            Due(m, DownStream(v)[j].m, v)' => m \in Range(handled'[v]) \cup Before(DownStream(v)', j)
      BY <1>2, <2>4, <2>10, <2>11, Zenon
    <3>2. \A i \in DOMAIN handled'[v] : \A m \in DOMAIN sent' :
            Due(m, handled[v][i], v)' => m \in {handled'[v][k] : k \in 1 .. i - 1}
      BY <1>2, <2>10, <2>12
    <3> QED
      BY <3>1, <3>2, Zenon DEF DownOrder
  <2> QED
    BY <2>9, <2>13, Zenon
<1> QED
  BY <1>3, <1>4, <1>5, <1>6, <1>7, Zenon DEF Inv

-----------------------------------------------------------------------------
(* Theorems *)

\* No message has been sent when the processes start.
LEMMA InitInv == Init => Inv
<1>1. SUFFICES ASSUME Init PROVE Inv
  BY Zenon
<1>2. <<>> \in Seq(Parts) /\ <<>> \in Seq(Nat) /\ <<>> \in Seq(Message) /\ <<>> \o <<>> = <<>>
  OBVIOUS
<1>3. N \in Nat
  BY MessagesAssumption DEF PARENT
<1>4. connections \in Seq(Ids) /\ Range(connections) = Ids
  <2>1. connections = [i \in 1 .. N |-> i - 1] /\ \A i \in 1 .. N : i - 1 \in Ids
    BY <1>1, <1>3 DEF Init, Ids
  <2>2. \A v \in Ids : v + 1 \in 1 .. N /\ (v + 1) - 1 = v
    BY <1>3 DEF Ids
  <2>3. connections \in Seq(Ids)
    BY <1>3, <2>1
  <2>4. ASSUME NEW v \in Ids PROVE v \in Range(connections)
    <3>1. v + 1 \in DOMAIN connections /\ connections[v + 1] = v
      BY <2>1, <2>2, Zenon
    <3> QED
      BY <3>1, Zenon DEF Range
  <2>5. \A i \in DOMAIN connections : connections[i] \in Ids
    BY <2>1, Zenon
  <2> QED
    BY <2>3, <2>4, <2>5, Zenon DEF Range
<1>5. holders \in [Ids -> SUBSET (Ids \cup {PARENT})] /\ \A w \in Ids : w \in holders[w]
  <2>1. \A w \in Ids : w >= w
    BY <1>3 DEF Ids
  <2> QED
    BY <1>1, <2>1, Zenon DEF Init, Inherited
<1>6. Typed
  BY <1>1, <1>2, <1>4, <1>5, Zenon DEF Init, Typed, NoHeader
<1>7. Running
  BY <1>1, <1>4, <1>5, Zenon DEF Init, Running
<1>8. DOMAIN sent = {}
  BY <1>1 DEF Init
<1>9. ASSUME NEW w \in Ids PROVE UpOK(w) /\ UpOrder(w) /\ DownOK(w) /\ DownOrder(w)
  <2>1. UpStream(w) = <<>> /\ DownStream(w) = <<>> /\ handled[w] = <<>> /\ pneed[w] = NoHeader /\ wneed[w] = NoHeader
    BY <1>1, <1>2, Zenon DEF Init, UpStream, DownStream
  <2>2. UpOK(w) /\ UpOrder(w)
    BY <1>8, <2>1, SMTT(30) DEF UpOK, UpOrder, Framed, Whole
  <2>3. DownOK(w) /\ DownOrder(w)
    BY <1>8, <2>1, SMTT(30) DEF DownOK, DownOrder, Framed, Whole
  <2> QED
    BY <2>2, <2>3, Zenon
<1> QED
  BY <1>6, <1>7, <1>8, <1>9, Zenon DEF Inv, Sent

\* Every step of a worker or of the parent keeps the invariant.
LEMMA NextInv == Inv /\ [Next]_vars => Inv'
<1>1. SUFFICES ASSUME Inv, [Next]_vars PROVE Inv'
  BY Zenon
<1>2. CASE UNCHANGED vars
  <2>1. UNCHANGED <<sent, up, inc, parentUp, connections, wqueue, uppipe, pneed, pqueue, dnpipe, wneed, handled, holders>>
    BY <1>2, Zenon DEF vars, upward, downward, processes
  <2>2. Typed' /\ Running'
    BY <1>1, <2>1, Zenon DEF Inv, Typed, Running
  <2>3. \A v \in Ids : UpStream(v)' = UpStream(v) /\ DownStream(v)' = DownStream(v)
    BY <2>1, Zenon DEF UpStream, DownStream
  <2> QED
    BY <1>1, <2>1, <2>2, <2>3, Unmoved, Zenon
<1>3. CASE Next
  <2>1. ASSUME NEW w \in Ids, WorkerFlush(w) \/ ParentFlush(w) PROVE Inv'
    BY <1>1, <2>1, FlushKeeps, Zenon
  <2>2. ASSUME NEW w \in Ids, WorkerRecv(w) PROVE Inv'
    BY <1>1, <2>2, WorkerRecvKeeps, Zenon
  <2>3. ASSUME NEW w \in Ids, ParentRecv(w) PROVE Inv'
    BY <1>1, <2>3, ParentRecvKeeps, Zenon
  <2>4. ASSUME NEW w \in Ids, Crash(w) \/ Quit(w) PROVE Inv'
    BY <1>1, <2>4, EndsKeep, Zenon
  <2>5. ASSUME NEW w \in Ids, Restart(w) PROVE Inv'
    BY <1>1, <2>5, RestartKeeps, Zenon
  <2>6. ASSUME NEW s \in Sends, Send(s[1], s[2], s[3]) PROVE Inv'
    BY <1>1, <2>6, SendKeeps, Zenon
  <2>7. CASE ParentDies
    BY <1>1, <2>7, ParentDiesKeeps, Zenon
  <2> QED
    BY <1>3, <2>1, <2>2, <2>3, <2>4, <2>5, <2>6, <2>7, Zenon DEF Next
<1> QED
  BY <1>1, <1>2, <1>3, Zenon

\* A stream that is cut between parts is in step with its reader.
LEMMA StaysInStep ==
  ASSUME NEW need, NEW q \in Seq(Parts), Framed(need, q)
  PROVE  InStep(need, q)
<1>1. q # <<>> => Head(q) = q[1]
  OBVIOUS
<1> QED
  BY <1>1, Zenon DEF Framed, InStep

\* What the invariant says of what the workers have got.
LEMMA InvOrdered == Inv => OrderedWithoutGaps
<1>1. SUFFICES ASSUME Inv, NEW w \in Ids
               PROVE  /\ InStep(pneed[w], uppipe[w] \o wqueue[w]) /\ InStep(wneed[w], dnpipe[w] \o pqueue[w])
                      /\ \A m \in Range(Arriving(w)) : For(m, w)
                      /\ \A u \in Range(dnpipe[w] \o pqueue[w]) : u.dst = w
                      /\ \A i \in DOMAIN handled[w], m \in 1 .. Len(sent) :
                           /\ For(m, w) /\ m < handled[w][i] /\ sent[m].inc[w] = inc[w]
                           /\ SameLife(m, handled[w][i])
                           => m \in Range(SubSeq(handled[w], 1, i - 1))
  BY Zenon DEF OrderedWithoutGaps
<1>2. Typed /\ UpOK(w) /\ DownOK(w) /\ DownOrder(w)
  BY <1>1, Zenon DEF Inv
<1>3. UpStream(w) \in Seq(Parts) /\ DownStream(w) \in Seq(Parts)
  BY <1>2, StreamsTyped, Zenon
<1>4. InStep(pneed[w], uppipe[w] \o wqueue[w]) /\ InStep(wneed[w], dnpipe[w] \o pqueue[w])
  <2>1. InStep(pneed[w], UpStream(w)) /\ InStep(wneed[w], DownStream(w))
    BY <1>2, <1>3, StaysInStep, Zenon DEF UpOK, DownOK
  <2> QED
    BY <2>1, Zenon DEF UpStream, DownStream
<1>5. \A m \in Range(Arriving(w)) : For(m, w)
  <2>1. PICK p \in Seq(Parts), o \in Seq(Parts) : p = dnpipe[w] /\ o = pqueue[w]
    BY <1>2, Zenon DEF Typed
  <2>2. PICK h \in Seq(Nat) : h = handled[w]
    BY <1>2, Zenon DEF Typed
  <2>3. PICK g : g = [i \in 1 .. Len(p) |-> p[i].m]
    BY Zenon
  <2>4. Len(p) \in Nat /\ \A i \in 1 .. Len(p) : p[i].m \in Nat
    <3>1. Len(p) \in Nat /\ \A i \in 1 .. Len(p) : p[i] \in Parts
      OBVIOUS
    <3> QED
      BY <3>1, Zenon DEF Parts
  <2>5. g \in Seq(Nat) /\ Len(g) = Len(p) /\ \A i \in 1 .. Len(p) : g[i] = p[i].m
    BY <2>3, <2>4
  <2>6. PICK s : s = h \o g
    BY Zenon
  <2>7. /\ s \in Seq(Nat) /\ Len(s) = Len(h) + Len(g) /\ Len(h) \in Nat /\ Len(g) \in Nat
        /\ \A i \in 1 .. Len(h) : s[i] = h[i]
        /\ \A i \in 1 .. Len(g) : s[Len(h) + i] = g[i]
    <3>1. h \in Seq(Nat) /\ g \in Seq(Nat)
      BY <2>5, Zenon
    <3> QED
      BY <2>6, <3>1, Concat
  <2>8. ASSUME NEW i \in 1 .. Len(p) PROVE For(p[i].m, w)
    <3>1. p \o o \in Seq(Parts) /\ i \in DOMAIN (p \o o) /\ (p \o o)[i] = p[i]
      OBVIOUS
    <3>2. DownStream(w) = p \o o
      BY <2>1, Zenon DEF DownStream
    <3> QED
      BY <1>2, <3>1, <3>2, Zenon DEF DownOK
  <2>9. ASSUME NEW i \in 1 .. Len(s) PROVE For(s[i], w)
    <3>1. CASE i <= Len(h)
      <4>1. i \in DOMAIN h /\ s[i] = h[i]
        BY <2>7, <3>1, SMTT(30)
      <4> QED
        BY <1>2, <2>2, <4>1, Zenon DEF DownOK
    <3>2. CASE i > Len(h)
      <4>1. i - Len(h) \in 1 .. Len(g) /\ i - Len(h) \in 1 .. Len(p) /\ i = Len(h) + (i - Len(h))
        BY <2>5, <2>7, <3>2
      <4>2. s[i] = p[i - Len(h)].m
        BY <2>5, <2>7, <4>1, Zenon
      <4> QED
        BY <2>8, <4>1, <4>2, Zenon
    <3>3. i <= Len(h) \/ i > Len(h)
      BY <2>7
    <3> QED
      BY <3>1, <3>2, <3>3, Zenon
  <2>10. Arriving(w) = s
    BY <2>1, <2>2, <2>3, <2>6, Zenon DEF Arriving
  <2>11. DOMAIN s = 1 .. Len(s)
    BY <2>7
  <2> QED
    BY <2>9, <2>10, <2>11, Zenon DEF Range
<1>6. \A u \in Range(dnpipe[w] \o pqueue[w]) : u.dst = w
  <2>1. \A u \in Range(DownStream(w)) : u.dst = w
    BY <1>2, Zenon DEF Range, DownOK
  <2> QED
    BY <2>1, Zenon DEF DownStream
<1>7. ASSUME NEW i \in DOMAIN handled[w], NEW m \in 1 .. Len(sent),
             For(m, w), m < handled[w][i], sent[m].inc[w] = inc[w], SameLife(m, handled[w][i])
      PROVE  m \in Range(SubSeq(handled[w], 1, i - 1))
  <2>1. m \in DOMAIN sent
    BY <1>2 DEF Typed
  <2>2. m \in {handled[w][k] : k \in 1 .. i - 1}
    BY <1>2, <1>7, <2>1, Zenon DEF DownOrder, Due
  <2>3. PICK k \in 1 .. i - 1 : handled[w][k] = m
    BY <2>2, Zenon
  <2>4. PICK h \in Seq(Nat) : h = handled[w]
    BY <1>2, Zenon DEF Typed
  <2>5. Len(h) \in Nat /\ i \in 1 .. Len(h)
    BY <2>4
  <2>6. PICK s : s = SubSeq(h, 1, i - 1)
    BY Zenon
  <2>7. DOMAIN s = 1 .. i - 1 /\ s[k] = h[k]
    BY <2>5, <2>6
  <2> QED
    BY <2>3, <2>4, <2>6, <2>7, Zenon DEF Range
<1> QED
  BY <1>4, <1>5, <1>6, <1>7, Zenon

\* Whatever the workers send, and whoever of them or of the parent ends at whatever moment,
\* msg_recv_packet never loses its place in a stream, msg_recv_data never sees a message for
\* another worker, and what a worker gets from one life of another comes in the order in
\* which it was sent, with nothing left out.
THEOREM MessagesOrdered == Spec => []OrderedWithoutGaps
<1>1. Init /\ [][Next]_vars => []Inv
  BY InitInv, NextInv, PTL
<1>2. Spec => Init /\ [][Next]_vars
  BY Zenon DEF Spec
<1> QED
  BY <1>1, <1>2, InvOrdered, PTL

\* No worker ever learns from its socket that the parent is gone: msg_disconnected_parent
\* waits for a hang-up that its own inherited descriptor holds off.
THEOREM OrphansStay == Spec => []OrphansNeverHangUp
<1>1. Init /\ [][Next]_vars => []Inv
  BY InitInv, NextInv, PTL
<1>2. Spec => Init /\ [][Next]_vars
  BY Zenon DEF Spec
<1>3. Inv => OrphansNeverHangUp
  BY Zenon DEF Inv, Running, OrphansNeverHangUp
<1> QED
  BY <1>1, <1>2, <1>3, PTL
=============================================================================
