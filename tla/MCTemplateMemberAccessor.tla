------------------------ MODULE MCTemplateMemberAccessor -----------------------
(* GetMember on every object graph over three objects whose types are     *)
(* drawn from a set of typical declarations, for every model stack of up   *)
(* to two entries and every member path of up to two names.               *)
EXTENDS TemplateMemberAccessor

CONSTANTS o1, o2, o3

Objects == {o1, o2, o3}
Values == Objects \cup {Null}
Names == {"Name", "name", "Size", "Item"}
MCKey == [n \in Names |-> CASE n \in {"Name", "name"} -> "name"
                            [] n = "Size" -> "size"
                            [] n = "Item" -> "item"]

Decl(n, vis, v) == [name |-> n, vis |-> vis, value |-> v]

\* The types an object may have: no properties, one or two public ones, a
\* private one, two public ones differing only in case, an indexer next to
\* a static property, and one whose name differs in case from the path's.
Types ==
  {{},
   {Decl("Name", "public", o2)},
   {Decl("Name", "public", o3), Decl("Size", "public", Null)},
   {Decl("Name", "private", o1)},
   {Decl("Name", "public", o1), Decl("name", "public", o2)},
   {Decl("Item", "indexer", o1), Decl("Size", "static", o2)},
   {Decl("name", "public", o1)}}

Paths(k) == UNION {[1..i -> Names] : i \in 0..k}
Stacks == UNION {[1..i -> Values] : i \in 0..2}

VARIABLES props, model

Init == props \in [Objects -> Types] /\ model \in Stacks
Next == UNCHANGED <<props, model>>
Spec == Init /\ [][Next]_<<props, model>>

\* Reference: c is a chain of objects from the top of the stack along the
\* first Len(c) - 1 names of path, each step the single public, non-indexed
\* property whose name equals the path's ignoring case.
Chain(c, path) ==
  /\ c[1] = Head(model)
  /\ \A i \in 1..(Len(c) - 1) :
       /\ c[i] # Null
       /\ \E d \in props[c[i]] :
            /\ d.vis = "public" /\ MCKey[d.name] = MCKey[path[i]]
            /\ d.value = c[i + 1]
            /\ \A e \in props[c[i]] \ {d} :
                 e.vis \in {"public", "indexer"} => MCKey[e.name] # MCKey[path[i]]

Chains(path, k) == {c \in [1..k -> Values] : Chain(c, path)}

\* GetMember returns exactly the object a chain along the whole path ends
\* at, and throws ArgumentException naming a member exactly when a chain
\* reaches a non-null object with no public property of that name in any
\* case (private, static and differently-cased-only declarations do not
\* count as missing; a differently-cased one is found).
GetMemberMatchesReference ==
  \A path \in Paths(2) :
    model # <<>> =>
      LET g == GetMember(props, path, model)
      IN /\ g.kind = "ok" <=>
              \E c \in Chains(path, Len(path) + 1) : c[Len(c)] = g.value
         /\ g.kind = "ArgumentException" <=>
              \E k \in 1..Len(path) :
                 /\ path[k] = g.value
                 /\ \E c \in Chains(path, k) :
                      /\ c[k] # Null
                      /\ ~\E d \in props[c[k]] :
                            d.vis \in {"public", "indexer"}
                            /\ MCKey[d.name] = MCKey[path[k]]
=============================================================================
