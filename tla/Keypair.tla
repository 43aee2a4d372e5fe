------------------------------ MODULE Keypair ------------------------------
(***************************************************************************)
(* keypair_present and keypair_absent (_states/novav21.py), and            *)
(* keypair_present of _states/novang.py ("exists"), for one name, applied  *)
(* by several minions.  Nova cannot change a key pair, so another key is   *)
(* put in place by a deletion and a creation; novang leaves any key alone. *)
(***************************************************************************)
EXTENDS StateRun

CONSTANTS
  Key,          \* public keys
  NoKey,        \* the pillar has neither public_key nor public_key_file
  Unreadable,   \* public_key_file cannot be opened
  NoKeypair     \* no key pair has the name

ASSUME KeypairAssumption ==
  /\ {NoKey, Unreadable, NoKeypair} \cap Key = {}
  /\ NoKey # Unreadable
  /\ Request \subseteq [ensure : {"present", "absent", "exists"},
                        key : Key \cup {NoKey, Unreadable}]

vars == run

Resource == {NoKeypair} \cup Key   \* the key registered under the name

Init == RunInit(Resource)

-----------------------------------------------------------------------------
\* The key pair that was listed is the one asked for.  Mutated: one of the
\* same name is enough; none ever is.
Matches_name(listed, key) == listed # NoKeypair
Matches_never(listed, key) == FALSE
Matches(listed, key) == listed = key

\* The call a run of keypair_present goes on with.  Mutated: nothing is
\* deleted first.
WriteCall_create(listed) == "create"
WriteCall(listed) == IF listed = NoKeypair THEN "create" ELSE "replace"

\* keypair_present, from the listing to its first call that writes.
Plan(m) ==
  LET key == want[m].key
  IN  \/ key = Unreadable /\ Return(m, Exception)
      \/ key = NoKey /\ Return(m, "create_failed")
      \/ /\ key \in Key
         /\ IF Matches(nova, key) THEN Return(m, "no_change") ELSE GoTo(m, WriteCall(nova))

\* keypair_present of novang, which looks at the name only, and keypair_add up to
\* its request.
PlanLegacy(m) ==
  LET key == want[m].key
  IN  \/ nova # NoKeypair /\ Return(m, "no_change")
      \/ /\ nova = NoKeypair
         /\ \/ key = Unreadable /\ Return(m, Exception)
            \/ key = NoKey /\ Return(m, "create_failed")
            \/ key \in Key /\ GoTo(m, "create")

\* What a run returns when a call does not complete; novang catches nothing.
Broken(m, answer, failure) ==
  IF want[m].ensure = "exists" THEN Exception ELSE Failed(answer, failure)

\* keypair_list, and the branch taken on what it returned.
List(m) ==
  /\ pc[m] = "list"
  /\ \E answer \in Answers(TRUE, stable) :
       IF ~Completes(answer)
       THEN Return(m, Broken(m, answer, "find_failed"))
       ELSE \/ want[m].ensure = "present" /\ Plan(m)
            \/ want[m].ensure = "exists" /\ PlanLegacy(m)
            \/ want[m].ensure = "absent" /\ nova # NoKeypair /\ GoTo(m, "delete")
            \/ want[m].ensure = "absent" /\ nova = NoKeypair /\ Return(m, "non_existent")
  /\ ReadsFirst(m)

\* keypair_delete by name, whatever key is registered by now.
DeleteAnswered(answer) == IF Applied(answer) THEN NoKeypair ELSE nova

\* keypair_delete in keypair_present.  Mutated: the state function returns
\* without the creation that follows.
GoOn_missing(m) == Return(m, "created")
GoOn(m) == GoTo(m, "create")

ReplaceAnswered(m, answer) ==
  /\ Becomes(m, DeleteAnswered(answer))
  /\ IF Completes(answer) THEN GoOn(m) ELSE Return(m, Failed(answer, "delete_failed"))

Replace(m) ==
  /\ pc[m] = "replace"
  /\ \E answer \in Answers(nova # NoKeypair, stable) : ReplaceAnswered(m, answer)

\* keypair_create; a name that is taken is refused.
CreateAnswered(m, answer) ==
  /\ Becomes(m, IF Applied(answer) THEN want[m].key ELSE nova)
  /\ Return(m, IF Completes(answer) THEN "created" ELSE Broken(m, answer, "create_failed"))

Create(m) ==
  /\ pc[m] = "create"
  /\ \E answer \in Answers(nova = NoKeypair, stable) : CreateAnswered(m, answer)

\* keypair_delete in keypair_absent.
RemoveAnswered(m, answer) ==
  /\ Becomes(m, DeleteAnswered(answer))
  /\ Return(m, IF Completes(answer) THEN "deleted" ELSE Failed(answer, "delete_failed"))

Remove(m) ==
  /\ pc[m] = "delete"
  /\ \E answer \in Answers(nova # NoKeypair, stable) : RemoveAnswered(m, answer)

Call(m) == List(m) \/ Replace(m) \/ Create(m) \/ Remove(m)

Apply(m) == \E request \in pillar : Begin(m, request)

Next ==
  \/ \E m \in Minion : Apply(m) \/ Call(m) \/ Kill(m)
  \/ Settle

Spec == Init /\ [][Next]_vars

\* A run that is not killed makes its next call, the disturbances end, and
\* the states are applied again and again.
Fairness ==
  /\ \A m \in Minion : WF_vars(Call(m)) /\ WF_vars(Apply(m))
  /\ WF_vars(Settle)

FairSpec == Spec /\ Fairness

-----------------------------------------------------------------------------
TypeOK == RunTypeOK(Resource, {"list", "replace", "create", "delete"})

\* The key pair is what a request asks for.
Holds(request) ==
  \/ request.ensure = "present" /\ nova = request.key
  \/ request.ensure = "absent" /\ nova = NoKeypair
  \/ request.ensure = "exists" /\ nova # NoKeypair

\* A run that reports success has brought the key pair to the requested state,
\* and it is there as long as nobody else touches it.
ReportIsTrue ==
  \A m \in Minion : report[m] \in SuccessReport /\ clean[m] => Holds(want[m])

\* A run that nobody disturbs, in a cloud that works, succeeds: it never asks Nova
\* for what Nova refuses.  Only a pillar without a key to register makes it fail.
FailureHasCause ==
  [][\A m \in Minion :
       stable /\ Ends(m) /\ clean'[m] /\ (want[m].ensure = "absent" \/ want[m].key \in Key)
         => report'[m] \in SuccessReport]_vars

\* "keypair_delete" of keypair_present (novav21.py:262) hits whatever key has the name
\* by then: where all ask for the same, only runs that have read another key can
\* destroy the right one.  When these are over it is there for good.
RightKeyStays ==
  [][Agreement /\ Holds(Goal) /\ (\A m \in Minion : pc[m] # "replace")
       => Holds(Goal)' /\ \A m \in Minion : pc'[m] # "replace"]_vars

\* Under fairness the key pair is there in the end, and it stays: a run that
\* deletes the right key on the strength of an old reading either creates it
\* again or leaves that to a later run, and such readings run out.
Converges == Agreement => <>[]Holds(Goal)

=============================================================================
