-------------------------- MODULE MCHostAggregate --------------------------
(* Instances of HostAggregate for TLC. *)
EXTENDS HostAggregate, TLC

CONSTANTS m1, m2, h1, h2, k1, v1, v2

MCMinion == {m1, m2}
MCHost == {h1, h2}
MCMetaKey == {Zone, k1}
MCValue == {v1, v2}

M(zone, v) == Zone :> zone @@ k1 :> v
Present(meta, hosts) == [ensure |-> "present", meta |-> meta, hosts |-> hosts]
Exists == [ensure |-> "exists", meta |-> M(v1, Unset), hosts |-> {}]
Absent == [ensure |-> "absent", meta |-> M(Unset, Unset), hosts |-> {}]

One == Present(M(v1, Unset), {h1})
Other == Present(M(Unset, v1), {h2})

\* One request for all; requests that disagree on the hosts, on the metadata and
\* on whether there is an aggregate.
MCPillars == {{One}, {Absent}, {Exists}, {One, Other, Absent}, {One, Exists, Absent}}

MCRequest == UNION MCPillars

=============================================================================
