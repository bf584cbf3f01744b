---------------------------- MODULE MCTransport ----------------------------
(* Two calls over three connects: one that is sent again or sends a body,  *)
(* beside one of any shape.                                                *)
EXTENDS Transport

CONSTANTS t1, t2

Repeating == {s \in Shapes : s.entry = "resent" \/ (~s.read /\ s.entry = "bounded" /\ s.bodied)}

MCInit == Init /\ shape[t1] \in Repeating
MCSpec == MCInit /\ [][Next]_vars /\ Fairness
=============================================================================
