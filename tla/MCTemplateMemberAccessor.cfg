\* GetMember against a declarative reference walk.
CONSTANTS
  o1 = o1
  o2 = o2
  o3 = o3
  Null = Null
  Key <- MCKey

SPECIFICATION Spec

INVARIANTS
  GetMemberMatchesReference

\* Every state is final: one object graph and one stack per state.
CHECK_DEADLOCK FALSE
