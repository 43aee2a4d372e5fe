----------------------------- MODULE MCKeypair -----------------------------
(* Instances of Keypair for TLC. *)
EXTENDS Keypair

CONSTANTS m1, m2, old, new

MCMinion == {m1, m2}
MCKey == {old, new}

Present(key) == [ensure |-> "present", key |-> key]
Absent == [ensure |-> "absent", key |-> NoKey]
Exists(key) == [ensure |-> "exists", key |-> key]

\* One request for all; requests that disagree, among them some without a key and
\* some whose file is gone.
MCPillars ==
  {{Present(new)}, {Absent}, {Exists(new)},
   {Present(old), Present(new), Present(NoKey), Present(Unreadable), Absent},
   {Present(old), Exists(new), Exists(NoKey), Exists(Unreadable), Absent}}

MCRequest == UNION MCPillars

=============================================================================
