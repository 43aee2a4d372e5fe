----------------------------- MODULE NovaManage -----------------------------
(***************************************************************************)
(* What the states that run nova-manage have in common: each command is    *)
(* run with cmd.shell, which returns what the command prints, whatever its *)
(* exit code.                                                              *)
(***************************************************************************)
EXTENDS StateRun

VARIABLE obeyed   \* history: every nova-manage of the run did what it was asked to

\* A command of cmd.shell: it does what it is asked to; it fails or breaks off, which
\* shows in nothing but what it prints; it cannot even be composed or started, which
\* raises an exception.
Shell == {answer \in {"done", "failed", "raised"} : stable => answer = "done"}

Heed(m, done) == obeyed' = [obeyed EXCEPT ![m] = @ /\ done]

=============================================================================
