---------------------------- MODULE Convergence ----------------------------
(***************************************************************************)
(* What every *_present and *_absent state promises to whoever applies it: *)
(* the items of the resource that differ from the requested state become   *)
(* fewer and fewer, nothing that is right is ever made wrong on the way,   *)
(* and, if calls are answered from some time on, in the end nothing        *)
(* differs any more.                                                       *)
(***************************************************************************)

CONSTANT Item       \* the parts of a resource that may differ from a request

VARIABLE pending    \* the parts that differ now

Init == pending \in SUBSET Item

\* One call to the API puts one or more of the differing parts right.
Fix == \E done \in SUBSET pending : /\ done # {}
                                    /\ pending' = pending \ done

Safe == Init /\ [][Fix]_pending

Reached == <>[](pending = {})

=============================================================================
