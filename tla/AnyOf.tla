-------------------------------- MODULE AnyOf --------------------------------
(***************************************************************************)
(* What a question to all members promises: true as soon as one of them    *)
(* said yes, false only when all were heard or given up and none did.      *)
(***************************************************************************)
CONSTANTS Member, Pending

VARIABLES said, result

vars == <<said, result>>

Init ==
  /\ said = [m \in Member |-> Pending]
  /\ result = "none"

Hear(m) ==
  /\ said[m] = Pending
  /\ \E v \in {"yes", "no", "failed"} : said' = [said EXCEPT ![m] = v]
  /\ UNCHANGED result

Conclude ==
  /\ result = "none"
  /\ \/ /\ \E m \in Member : said[m] = "yes"
        /\ result' = "true"
     \/ /\ \A m \in Member : said[m] \in {"no", "failed"}
        /\ result' = "false"
  /\ UNCHANGED said

Next == (\E m \in Member : Hear(m)) \/ Conclude

Spec == Init /\ [][Next]_vars
=============================================================================
