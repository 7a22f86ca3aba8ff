------------------------------ MODULE JsonTree ------------------------------
(***************************************************************************)
(* The JSON values of base/ccan_json.c as the linked structure they are,   *)
(* and the JsonObject calls of sparc/detail/json.cpp that build them.      *)
(*                                                                         *)
(* A node holds its links (0 is NULL) and whether it has a key; the        *)
(* payload of a scalar is left out.                                        *)
(***************************************************************************)
EXTENDS Integers, FiniteSets

CONSTANT Nodes \* addresses of nodes: positive numbers

VARIABLES node,  \* the nodes in use
          fault  \* the process read through a null pointer

vars == <<node, fault>>

Containers == {"array", "object"}

Live == {n \in Nodes : node[n] # <<>>}
Init == node = [n \in Nodes |-> <<>>] /\ fault = FALSE

mknode(tag) == [tag |-> tag, parent |-> 0, prev |-> 0, next |-> 0, head |-> 0, tail |-> 0, key |-> FALSE]

\* append_node, with the key append_member sets.
append_node(f, p, c) ==
  LET t == f[p].tail
      g == [f EXCEPT ![c].parent = p, ![c].prev = t, ![c].next = 0, ![c].key = f[p].tag = "object",
                     ![p].tail = c, ![p].head = IF t = 0 THEN c ELSE @]
  IN IF t = 0 THEN g ELSE [g EXCEPT ![t].next = c]

prepend_node(f, p, c) ==
  LET h == f[p].head
      g == [f EXCEPT ![c].parent = p, ![c].prev = 0, ![c].next = h, ![c].key = f[p].tag = "object",
                     ![p].head = c, ![p].tail = IF h = 0 THEN c ELSE @]
  IN IF h = 0 THEN g ELSE [g EXCEPT ![h].prev = c]

json_remove_from_parent(f, n) ==
  LET p == f[n].parent
      v == f[n].prev
      x == f[n].next
      g == IF v # 0 THEN [f EXCEPT ![v].next = x] ELSE [f EXCEPT ![p].head = x]
      h == IF x # 0 THEN [g EXCEPT ![x].prev = v] ELSE [g EXCEPT ![p].tail = v]
  IN IF p = 0 THEN f ELSE [h EXCEPT ![n].parent = 0, ![n].prev = 0, ![n].next = 0, ![n].key = FALSE]

RECURSIVE json_delete(_, _), DeleteFrom(_, _)

\* Mutant: the next child is looked up once the child is gone from its list.
DeleteFromLate(f, c) ==
  IF c = 0 THEN f
  ELSE LET g == json_remove_from_parent(f, c) IN DeleteFrom(json_delete(g, c), g[c].next)

\* The loop of json_delete over the children, from c on.
DeleteFrom(f, c) == IF c = 0 THEN f ELSE DeleteFrom(json_delete(f, c), f[c].next)

json_delete(f, n) ==
  LET g == json_remove_from_parent(f, n)
      h == IF g[n].tag \in Containers THEN DeleteFrom(g, g[n].head) ELSE g
  IN [h EXCEPT ![n] = <<>>]

-----------------------------------------------------------------------------
\* json_mknull, mkbool, mkstring, mknumber, mkarray, mkobject.
Make(n, tag) == /\ n \notin Live
                /\ node' = [node EXCEPT ![n] = mknode(tag)]
                /\ UNCHANGED fault

RECURSIVE Root(_)
Root(n) == IF node[n].parent = 0 THEN n ELSE Root(node[n].parent)

\* json_append_element, json_append_member and their prepend twins; callers hand over
\* a value that is not part of a tree.
Insert(p, c) ==
  /\ p \in Live /\ c \in Live
  /\ node[p].tag \in Containers /\ node[c].parent = 0 /\ Root(p) # c
  /\ node' \in {append_node(node, p, c), prepend_node(node, p, c)}
  /\ UNCHANGED fault

\* JsonObject::add and JsonObject::set: a new node at the end of an array or of an
\* object.  On any other value the null JsonObject they return is built from a null
\* Json*, whose root_ is read.
AddOrSet(p, n, tag, want) ==
  /\ p \in Live /\ n \notin Live
  /\ IF node[p].tag = want
     THEN /\ node' = append_node([node EXCEPT ![n] = mknode(tag)], p, n)
          /\ UNCHANGED fault
     ELSE fault' = TRUE /\ UNCHANGED node

Remove(n) == /\ n \in Live
             /\ node' = json_remove_from_parent(node, n)
             /\ UNCHANGED fault

\* json_delete, and the destructor of a CcanJson for its root.
Delete(n) == /\ n \in Live
             /\ node' = json_delete(node, n)
             /\ UNCHANGED fault

Next == /\ ~fault
        /\ \/ \E n \in Nodes, tag \in {"array", "object", "string"} : Make(n, tag)
           \/ \E p, c \in Nodes : Insert(p, c)
           \/ \E p, n \in Nodes, tag \in {"array", "object", "string"}, want \in Containers :
                AddOrSet(p, n, tag, want)
           \/ \E n \in Nodes : Remove(n)
           \/ \E n \in Nodes : Delete(n)

Spec == Init /\ [][Next]_vars

-----------------------------------------------------------------------------
(* Reading: NULL (0) for what is not there                                 *)

json_first_child(n) == IF n # 0 /\ node[n].tag \in Containers THEN node[n].head ELSE 0

RECURSIVE Skipped(_, _)

\* json_foreach, i children on.
Skipped(c, i) == IF c = 0 \/ i = 0 THEN c ELSE Skipped(node[c].next, i - 1)

\* JsonValue::operator[](int) and json_find_element: the element of an array.
json_find_element(n, i) == IF node[n].tag = "array" THEN Skipped(json_first_child(n), i) ELSE 0

\* JsonValue::each: all the children of an array or an object.
each(n) == {Skipped(json_first_child(n), i) : i \in 0 .. Cardinality(Live)} \ {0}

-----------------------------------------------------------------------------
(* Properties                                                              *)

RECURSIVE json_check(_), ChildrenOk(_, _, _)

\* The loop of json_check over the children of n.
ChildrenOk(n, c, last) ==
  IF c = 0 THEN last = node[n].tail
  ELSE /\ c \in Live /\ c # n
       /\ node[c].next # c /\ node[c].next # node[n].head
       /\ node[c].parent = n
       /\ node[c].next # 0 => node[node[c].next].prev = c
       /\ node[c].key = (node[n].tag = "object")
       /\ json_check(c)
       /\ ChildrenOk(n, node[c].next, c)

json_check(n) == node[n].tag \in Containers =>
                   IF node[n].head = 0 \/ node[n].tail = 0
                   THEN node[n].head = 0 /\ node[n].tail = 0
                   ELSE node[node[n].head].prev = 0 /\ ChildrenOk(n, node[n].head, 0)

\* After any calls every tree passes json_check, the children an application is shown by
\* each are the nodes that have the value for a parent, and an array gives each of them
\* under one index: deleting a value frees all that hangs below it and nothing else.
TreeSound ==
  /\ \A n \in Live : node[n].parent = 0 => json_check(n)
  /\ \A n \in Live : each(n) = {c \in Live : node[c].parent = n}
  /\ \A n \in Live : node[n].tag = "array" =>
       LET last == Cardinality(each(n)) - 1
       IN /\ each(n) = {json_find_element(n, i) : i \in 0 .. last}
          /\ json_find_element(n, last + 1) = 0
  /\ \A n \in Live : node[n].parent \in Live \cup {0}
=============================================================================
