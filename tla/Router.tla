------------------------------- MODULE Router -------------------------------
(***************************************************************************)
(* The routes of sparc/detail/router.cpp: a trie of characters, at whose   *)
(* nodes hang the handlers of a route prefix, and the search of it for the *)
(* path of a request.                                                      *)
(*                                                                         *)
(* A text is a sequence of characters, a node of the trie is named by the  *)
(* characters on the way to it.                                            *)
(***************************************************************************)
EXTENDS Text

CONSTANTS Patterns, \* the routes an application adds, of the characters "/", ":", "a", "b"
          Paths,    \* the paths clients ask for, all from "/" on
          Methods,
          MaxRoutes \* bound: handlers added

VARIABLES nodes,  \* the nodes of the trie
          routes  \* the handlers [m, n, of] of each prefix that has a route, in order

vars == <<nodes, routes>>

NoHandler == [m |-> "none", n |-> 0, of |-> <<>>]

\* Mutant: the method is not looked at.
RouteFindAnyMethod(hs, m, ntoks) == LET k == SelectInSeq(hs, LAMBDA h : h.n = ntoks)
                                    IN IF k = 0 THEN NoHandler ELSE hs[k]

\* Route::find: the first handler for the method with that many parameters.
RouteFind(hs, m, ntoks) == LET k == SelectInSeq(hs, LAMBDA h : h.m = m /\ h.n = ntoks)
                           IN IF k = 0 THEN NoHandler ELSE hs[k]

At(f, p) == IF p \in DOMAIN f THEN f[p] ELSE <<>>

Init == nodes = {<<"/">>} /\ routes = [p \in {} |-> <<>>]

\* Router::add: the text before the first ':' is the prefix, and what follows each
\* ':' up to the next '/' names a parameter, so that whatever stands behind the '/'
\* is dropped.  A prefix that does not begin at the root is refused; a handler with
\* the method and the number of parameters of an earlier one of the prefix is
\* refused too, when the nodes and the route are already there.
add(m, route) ==
  LET toks == kore_split_string(route, ":", 256)
      p == toks[1]
      h == [m |-> m, n |-> Len(toks) - 1, of |-> route]
  IN /\ p[1] = "/"
     /\ nodes' = nodes \cup {SubSeq(p, 1, k) : k \in 1 .. Len(p)}
     /\ routes' = [q \in DOMAIN routes \cup {p} |->
                     IF q = p /\ RouteFind(At(routes, p), m, h.n) = NoHandler
                     THEN Append(At(routes, p), h) ELSE At(routes, q)]

Count == FoldFunction(LAMBDA hs, n : Len(hs) + n, 0, routes)

Next == \E m \in Methods, route \in Patterns : Count < MaxRoutes /\ add(m, route)

Spec == Init /\ [][Next]_vars

-----------------------------------------------------------------------------
(* Router::find                                                            *)

\* HttpRequest::resolveRoute has room for 15 tokens of the path.
Tokens(path) == kore_split_string(path, "/", 16)

RECURSIVE FindFrom(_, _, _, _, _)

\* The loop of Router::find at character i: itok tokens are behind it, and the token
\* it is in ends tlen characters ahead.  Where a token ends, and after each '/', the
\* node's route is searched for as many parameters as there are tokens left.
FindFrom(m, path, i, itok, tlen) ==
  LET c == path[i]
      node == SubSeq(path, 1, i)
      n == Len(Tokens(path))
      look == c = "/" \/ tlen = 0
      slash == look /\ i > 1 /\ c = "/"
      k == IF slash \/ (look /\ i = Len(path)) THEN itok + 1 ELSE itok
      t == IF slash /\ k < n THEN Len(Tokens(path)[k + 1]) ELSE tlen
      left == IF n = 0 THEN 0 ELSE n - k
      h == IF look THEN RouteFind(At(routes, node), m, left) ELSE NoHandler
  IN IF i > Len(path) THEN <<NoHandler, <<>>>>
     ELSE IF i > 1 /\ node \notin nodes THEN <<NoHandler, <<>>>>
     ELSE IF slash /\ k >= n THEN <<NoHandler, <<>>>>
     ELSE IF h # NoHandler THEN <<h, SubSeq(Tokens(path), k + 1, k + left)>>
     ELSE FindFrom(m, path, i + 1, k, IF t > 0 THEN t - 1 ELSE 0)

\* The handler found, and the tokens that become its parameters.
find(m, path) == FindFrom(m, path, 1, 0, IF Tokens(path) = <<>> THEN 0 ELSE Len(Tokens(path)[1]))

\* The names of a handler's parameters.
ParamNames(h) == [k \in 1 .. h.n |->
                    LET text == kore_split_string(h.of, ":", 256)[k + 1]
                        end == FirstOf(text, "/")
                    IN IF end = 0 THEN text ELSE SubSeq(text, 1, end - 1)]

\* HttpRequest::param: the first parameter of that name.
param(found, name) == LET k == SelectInSeq(ParamNames(found[1]), LAMBDA n : n = name)
                      IN IF k = 0 THEN <<>> ELSE found[2][k]

-----------------------------------------------------------------------------
(* Properties                                                              *)

\* A path of non-empty tokens with a '/' before each of them and none at the end.
Plain(path) == /\ path[1] = "/"
               /\ \A i \in 1 .. Len(path) - 1 : path[i] = "/" => path[i + 1] # "/"
               /\ path = <<"/">> \/ Last(path) # "/"

\* The tokens a plain path has behind a prefix that stops at a '/' or at its end.
Behind(p, path) == kore_split_string(SubSeq(path, Len(p) + 1, Len(path)), "/", 256)

Fits(m, path, h, p) ==
  /\ h.m = m /\ IsPrefix(p, path)
  /\ \/ p = path /\ h.n = 0
     \/ p # path /\ Last(p) = "/" /\ h.n = Len(Behind(p, path))

\* The prefixes that stop inside a path at the end of a token and have a handler for
\* the tokens from that one on: routes such as "/a:x:y".
Odd(m, path) == \E p \in DOMAIN routes : /\ IsStrictPrefix(p, path) /\ Last(p) # "/"
                                         /\ path[Len(p) + 1] = "/"
                                         /\ \E k \in DOMAIN routes[p] : routes[p][k].n > 0

\* The handler found for a plain path is the one of the shortest prefix whose method
\* and number of parameters fit, one is found when there is one, and the parameters
\* are the tokens behind the prefix, each under its name: character by character, over the trie, as over
\* the routes themselves.  So a route of parameters alone hides the longer ones.
RouteFound ==
  \A m \in Methods, path \in Paths : Plain(path) /\ ~Odd(m, path) =>
    LET fit == {p \in DOMAIN routes : \E k \in DOMAIN routes[p] : Fits(m, path, routes[p][k], p)}
        p == CHOOSE p \in fit : \A q \in fit : Len(p) <= Len(q)
        r == find(m, path)
    IN IF fit = {} THEN r[1] = NoHandler
       ELSE /\ Fits(m, path, r[1], p)
            /\ \E k \in DOMAIN routes[p] : routes[p][k] = r[1]
            /\ r[2] = Behind(p, path)
            /\ \A k \in 1 .. r[1].n :
                 LET names == ParamNames(r[1])
                 IN (\A j \in 1 .. k - 1 : names[j] # names[k]) => param(r, names[k]) = Behind(p, path)[k]
=============================================================================
