------------------------------ MODULE MCFlavor ------------------------------
(* Instances of Flavor for TLC. *)
EXTENDS Flavor, TLC

CONSTANTS m1, m2, k1, k2, v1, v2, small, i1, i2, i3

MCMinion == {m1, m2}
MCOneMinion == {m1}
MCKey == {k1, k2}
MCValue == {v1, v2}
MCSize == {small}
MCId == {i1, i2, i3}

Specs2(v, w) == k1 :> v @@ k2 :> w

Present(id, specs) ==
  [ensure |-> "present", id |-> id, size |-> small, specs |-> specs]
Exists1 == [ensure |-> "exists", id |-> i1, size |-> small, specs |-> NoSpecs]
Absent == [ensure |-> "absent", id |-> NoId, size |-> small, specs |-> NoSpecs]

One == Present(NoId, Specs2(v1, Unset))
Other == Present(NoId, Specs2(v2, v2))

\* One request for all; requests that disagree on the extra specs and on
\* whether there is a flavor; a flavor with an id of its own that comes and goes.
MCPillars ==
  {{One}, {Absent}, {Exists1}, {One, Other, Absent}, {One, Exists1},
   {Present(i1, Specs2(v1, Unset)), Exists1, Absent}}

MCOnePillar == {{One}}

MCRequest == UNION MCPillars

=============================================================================
