-------------------------- MODULE DispatchContract --------------------------
(***************************************************************************)
(* What the dispatch store promises of every id, whoever the writers are:  *)
(* an admitted dispatch is open until it ends in one way, and ended it     *)
(* stays until it is forgotten.                                            *)
(***************************************************************************)
CONSTANT Id

VARIABLE outcome

End == {"completed", "failed", "timeout", "cancelled"}

Init == outcome = [i \in Id |-> "unused"]

Admit ==
    \E i \in Id :
      /\ outcome[i] = "unused"
      /\ outcome' = [outcome EXCEPT ![i] = "open"]

Conclude ==
    \E i \in Id, e \in End :
      /\ outcome[i] = "open"
      /\ outcome' = [outcome EXCEPT ![i] = e]

(* All of S together or none.                                              *)
Cancel ==
    \E S \in SUBSET Id :
      /\ \A i \in S : outcome[i] = "open"
      /\ outcome' = [i \in Id |-> IF i \in S THEN "cancelled" ELSE outcome[i]]

Forget ==
    \E S \in SUBSET Id :
      /\ \A i \in S : outcome[i] \in End \cup {"forgotten"}
      /\ outcome' = [i \in Id |-> IF i \in S THEN "forgotten" ELSE outcome[i]]

Next == Admit \/ Conclude \/ Cancel \/ Forget

Spec == Init /\ [][Next]_outcome

=============================================================================
