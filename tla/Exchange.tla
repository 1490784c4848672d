------------------------------ MODULE Exchange ------------------------------
(***************************************************************************)
(* What a session promises each transaction's handler, whatever codec     *)
(* carries it: once the request is sent the handler sees any number of    *)
(* informational (1xx) headers, then exactly one final response, or an    *)
(* error; nothing after either.  The upgrade bridge is checked against     *)
(* this with the codec switch hidden.                                      *)
(***************************************************************************)
EXTENDS Sequences

CONSTANT Txns   \* the transactions of one session

VARIABLES
  stage,   \* txn -> "idle", "awaiting", "final" or "error"
  resp     \* txn -> the callbacks its handler received, in order

Init ==
  /\ stage = [t \in Txns |-> "idle"]
  /\ resp = [t \in Txns |-> <<>>]

Request(t) ==
  /\ stage[t] = "idle"
  /\ stage' = [stage EXCEPT ![t] = "awaiting"]
  /\ UNCHANGED resp

Informational(t) ==
  /\ stage[t] = "awaiting"
  /\ resp' = [resp EXCEPT ![t] = Append(@, "100")]
  /\ UNCHANGED stage

Final(t, code) ==
  /\ stage[t] = "awaiting"
  /\ stage' = [stage EXCEPT ![t] = "final"]
  /\ resp' = [resp EXCEPT ![t] = Append(@, code)]

Fail(t) ==
  /\ stage[t] \in {"idle", "awaiting"}
  /\ stage' = [stage EXCEPT ![t] = "error"]
  /\ resp' = [resp EXCEPT ![t] = Append(@, "error")]

Next ==
  \E t \in Txns :
    \/ Request(t) \/ Informational(t) \/ Fail(t)
    \/ \E code \in {"101", "200"} : Final(t, code)

Spec == Init /\ [][Next]_<<stage, resp>>
=============================================================================
