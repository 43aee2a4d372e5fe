------------------------------ MODULE MCQuota ------------------------------
(* Instances of Quota for TLC. *)
EXTENDS Quota, TLC

CONSTANTS m1, m2, cores, ram, low, high

MCMinion == {m1, m2}
MCLimit == {cores, ram}
MCValue == {low, high}

Limits(c, r) == cores :> c @@ ram :> r
Present(limits) == [ensure |-> "present", limits |-> limits]
OneByOne(limits) == [ensure |-> "one_by_one", limits |-> limits]
Absent == [ensure |-> "absent", limits |-> Limits(Unset, Unset)]

\* Two states that ask for different limits of one project, of one driver or of
\* both; states that disagree, among them one that resets the quota.
MCPillars ==
  {{Present(Limits(high, Unset)), Present(Limits(Unset, high))},
   {Present(Limits(high, Unset)), OneByOne(Limits(high, high))},
   {OneByOne(Limits(high, low)), OneByOne(Limits(low, Unset)), Absent},
   {Present(Limits(high, Unset)), Present(Limits(low, high)), Absent}}

MCRequest == UNION MCPillars

=============================================================================
