------------------------------ MODULE LeaseLock ------------------------------
(****************************************************************************)
(* What Marbles promises about claims: "a race with an answer".  Each issue *)
(* is a lock.  A free issue may be granted to one name; a held one can only *)
(* become free, never pass from one live holder to another in one step.     *)
(****************************************************************************)
CONSTANTS Issues, Names, NoOne

VARIABLE holder     \* the name whose live claim the issue is under

Init == holder = [i \in Issues |-> NoOne]

Grant(i, n) ==
    /\ holder[i] = NoOne
    /\ holder' = [holder EXCEPT ![i] = n]

\* Any number of leases can lapse, be released or be revoked at once.
End(S) == holder' = [i \in Issues |-> IF i \in S THEN NoOne ELSE holder[i]]

Next == \/ \E i \in Issues, n \in Names : Grant(i, n)
        \/ \E S \in SUBSET Issues : End(S)

Spec == Init /\ [][Next]_holder
==============================================================================
