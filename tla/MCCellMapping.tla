--------------------------- MODULE MCCellMapping ---------------------------
(* Instances of CellMapping for TLC. *)
EXTENDS CellMapping, TLC

CONSTANTS m1, m2, c1, c10, u1, u2, a, b

MCMinion == {m1, m2}
MCId == {a, b}
MCName == {c1, c10}
MCUrl == {u1, u2}

\* cell10 contains cell1; and the second url contains cell10, as the name of a
\* database may.
MCWithin == c1 :> {c1, c10} @@ c10 :> {c10, u2}
MCRank == c1 :> 1 @@ c10 :> 2

R(state, name, url, force) == [state |-> state, name |-> name, url |-> url, force |-> force]

\* A cell that is created and mapped; two names, one within the other, of which the one
\* or the other is changed and deleted, by minions that disagree.
MCPillars ==
  {{R("present", c1, u1, FALSE), R("map", c1, u1, FALSE)},
   {R("update", c1, u1, FALSE), R("absent", c1, u1, FALSE), R("present", c10, u2, FALSE)},
   {R("map", c10, u2, FALSE), R("absent", c10, u2, TRUE)}}

MCOnePillar == {{R("present", c1, u1, FALSE)}}

MCRequest == UNION (MCPillars \cup MCOnePillar)

\* No cell, one with hosts, or one of each name.
Old(name) == [name |-> name, url |-> u2, hosts |-> TRUE, instances |-> FALSE]
MCInitial ==
  {[i \in MCId |-> NoCell], [i \in MCId |-> IF i = a THEN [Old(c1) EXCEPT !.url = u1] ELSE Old(c10)]}
  \cup {[i \in MCId |-> IF i = a THEN Old(n) ELSE NoCell] : n \in MCName}

=============================================================================
