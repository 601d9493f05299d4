--------------------------- MODULE MCServerValues ---------------------------
(***************************************************************************)
(* The two halves of the GATT server that share no state: who is connected *)
(* (GattServer) and the values (ServerValues).  Each behaviour exercises   *)
(* one of them, the other rests.                                           *)
(***************************************************************************)
EXTENDS MCGattServer, ServerValues

VARIABLE half   \* the one this behaviour exercises

\* An empty value, which fits the descriptor, and one of two bytes, which
\* does not.
Payloads == {<<>>, <<7, 8>>}

serverVars == <<half, vars, valuesVars>>

ServerInit ==
  /\ half \in {"presence", "values"} /\ Init /\ ValuesInit
  /\ half = "values" => \A d \in Device : ~link[d]

ServerNext ==
  \/ half = "presence" /\ Next /\ UNCHANGED <<half, valuesVars>>
  \/ half = "values" /\ ValuesNext /\ UNCHANGED <<half, vars>>

ServerSpec == ServerInit /\ [][ServerNext]_serverVars
=============================================================================
