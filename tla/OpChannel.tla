----------------------------- MODULE OpChannel -----------------------------
(***************************************************************************)
(* What the GATT client promises to the issuer of reads, writes and        *)
(* notification requests: every accepted operation is answered exactly     *)
(* once and the answers come in the order the operations were issued,      *)
(* whatever becomes of the connection in the meantime.                     *)
(***************************************************************************)
EXTENDS Naturals, Sequences

VARIABLES
  issued,     \* how many operations were accepted; their ids are 1..issued
  answered    \* the ids of the answers handed out, oldest first

chanVars == <<issued, answered>>

Init ==
  /\ issued = 0
  /\ answered = << >>

\* The issuer's read_characteristic() and its siblings return ESP_GATT_OK.
Issue ==
  /\ issued' = issued + 1
  /\ UNCHANGED answered

\* The oldest operation that has no answer yet gets one.
Answer ==
  /\ Len(answered) < issued
  /\ answered' = Append(answered, Len(answered) + 1)
  /\ UNCHANGED issued

Next == Issue \/ Answer

Spec == Init /\ [][Next]_chanVars /\ WF_chanVars(Answer)
=============================================================================
