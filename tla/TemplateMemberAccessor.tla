------------------------ MODULE TemplateMemberAccessor ------------------------
(***************************************************************************)
(* TinyTemplates.TemplateMemberAccessor (src/unnamed/part_000).  GetMember *)
(* walks a member path such as Order.Customer.Name from the object on top  *)
(* of the template's model stack, looking each name up by reflection as a  *)
(* public instance property, case ignored, and reading its value.          *)
(*                                                                         *)
(* An object is abstracted to the property declarations of its type: a    *)
(* name, how it is declared ("public", "private", "static" or "indexer",   *)
(* the last a public property with index parameters) and the value its     *)
(* getter returns.  The outcome is a value or the exception .NET throws.   *)
(***************************************************************************)
EXTENDS Naturals, Sequences, FiniteSets

CONSTANTS
  Null,  \* the null reference
  Key    \* Key[name]: the name with case folded, what IgnoreCase compares

Ok(v) == [kind |-> "ok", value |-> v]
Throw(e, name) == [kind |-> e, value |-> name]

\* Defect variant of the lookup: BindingFlags.IgnoreCase left out.
MatchingCaseSensitive(decls, name) ==
  {d \in decls : d.vis \in {"public", "indexer"} /\ d.name = name}

\* GetProperty(memberName, IgnoreCase | Instance | Public | GetProperty):
\* the public instance properties whose name equals memberName ignoring case.
Matching(decls, name) ==
  {d \in decls : d.vis \in {"public", "indexer"} /\ Key[d.name] = Key[name]}

\* The foreach loop from r along path.  GetProperty throws
\* AmbiguousMatchException when two properties match; r.GetType() on a null
\* r throws NullReferenceException; GetValue(r, null) on an indexer throws
\* TargetParameterCountException.
RECURSIVE Walk(_, _, _)
Walk(props, r, path) ==
  IF path = <<>> THEN Ok(r)
  ELSE LET name == Head(path)
           ms   == Matching(props[r], name)
       IN CASE r = Null -> Throw("NullReferenceException", name)
            [] Cardinality(ms) > 1 -> Throw("AmbiguousMatchException", name)
            [] ms = {} -> Throw("ArgumentException", name)
            [] OTHER ->
                 LET mi == CHOOSE d \in ms : TRUE
                 IN IF mi.vis = "indexer"
                    THEN Throw("TargetParameterCountException", name)
                    ELSE Walk(props, mi.value, Tail(path))

\* GetMember(model), the model stack with its top first; Peek() on an empty
\* stack throws InvalidOperationException.
GetMember(props, path, model) ==
  IF model = <<>> THEN Throw("InvalidOperationException", "")
  ELSE Walk(props, Head(model), path)
=============================================================================
