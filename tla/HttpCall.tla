------------------------------ MODULE HttpCall ------------------------------
(***************************************************************************)
(* One HTTP call between two services, as its caller sees it.  The caller  *)
(* awaits exactly one answer; axios is used without timeout and without    *)
(* retry, so a call that is sent ends in an answer or in a broken          *)
(* connection ("lost").  After "lost" the caller has moved on, and the     *)
(* callee may or may not still run the request.                            *)
(***************************************************************************)

(* Progress of a call: "ok" and "error" are answers below / from 400. *)
CallState == {"idle", "sent", "lost", "ok", "error"}

(* The request of a call can reach its callee: it was sent, whether or not *)
(* the caller still waits for the answer.                                  *)
Deliverable(st) == st \in {"sent", "lost"}

(* An answer reaches the caller only over a connection that still stands.  *)
AnswerLate(st, a) == a  \* mutant: the caller hears an answer it gave up on
Answer(st, a) == IF st = "sent" THEN a ELSE st

(* What a caller takes for a failed call: an error status, or a rejected   *)
(* promise.                                                                *)
CallRefused(st) == st = "error"  \* mutant: the catch block is missing
CallFailed(st) == st \in {"error", "lost"}
=============================================================================
