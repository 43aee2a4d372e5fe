------------------------------ MODULE NovaCall ------------------------------
(***************************************************************************)
(* How one call of a novav21 execution module ends, seen from the state    *)
(* function that makes it (_modules/novav21/common.py, send) and from      *)
(* Nova.                                                                   *)
(*                                                                         *)
(*   "ok"      Nova did what was asked and the answer came back;           *)
(*   "refused" Nova did nothing: an HTTP error, or the request was lost;   *)
(*   "lost"    Nova did it, but the answer was lost on its way back;       *)
(*   "raised"  no request was made: get_raw_client raised an exception;    *)
(*   "garbled" Nova did it, but the body that came back is no JSON.        *)
(*                                                                         *)
(* send() turns every exception of the request into result False, so the   *)
(* state function sees no difference between "refused" and "lost", after   *)
(* which Nova is in different states.  It does not catch what              *)
(* get_raw_client raises before the request or response.json() after it.   *)
(***************************************************************************)

Outcome == {"ok", "refused", "lost", "raised", "garbled"}

\* Nova's state changes.
Applied(answer) == answer \in {"ok", "lost", "garbled"}

\* _call_nova_salt_module raises SaltModuleCallException on result False.
Completes(answer) == answer = "ok"

\* The outcomes of a request.  Nova always refuses one that is not valid in
\* its present state (404, 409); a valid one may also fail for a reason of
\* the network or of the service, unless the cloud is reliable.
Answers(valid, reliable) ==
  {answer \in Outcome : /\ Applied(answer) => valid
                        /\ reliable => answer = IF valid THEN "ok" ELSE "refused"}

-----------------------------------------------------------------------------
(***************************************************************************)
(* The dictionary a state function returns to Salt, named after the helper *)
(* of _states/novav21.py that builds it.  NoReport: no run has ended yet,  *)
(* or the last one was killed.  Exception: an exception that _error_handler *)
(* does not catch; Salt reports the state as failed with its traceback.    *)
(***************************************************************************)
NoReport == "none"
Exception == "exception"

SuccessReport == {"created", "updated", "no_change", "deleted", "non_existent"}
FailureReport ==
  {"create_failed", "update_failed", "delete_failed", "find_failed", Exception}
ChangeReport == {"created", "updated", "deleted"}

\* What the run returns when a call does not complete: the *_failed dictionary of
\* the call's action type, or the exception that passes through _error_handler.
Failed(answer, failure) ==
  IF answer \in {"raised", "garbled"} THEN Exception ELSE failure

Report == {NoReport} \cup SuccessReport \cup FailureReport

=============================================================================
