------------------------ MODULE NotificationService ------------------------
(***************************************************************************)
(* The notification service: sendBookingConfirmation inserts a PENDING     *)
(* row, "delivers", and marks the row SENT.  notices[c] is the row of the  *)
(* confirm call c, and its status says how far the handler came.           *)
(***************************************************************************)
EXTENDS ServiceCalls

VARIABLES notices, notify

NoticeInit ==
  /\ notices = [c \in Captures |-> "none"]
  /\ notify = [c \in Captures |-> "idle"]

NoticeTypeOK ==
  /\ notices \in [Captures -> {"none", "PENDING", "SENT"}]
  /\ notify \in [Captures -> {"idle", "deliver", "done", "failed"}]

noticeVars == <<notices, notify>>

InsertNotice(c) ==
  /\ notify[c] = "idle" /\ Deliverable(noticeCall[c])
  /\ notices' = [notices EXCEPT ![c] = "PENDING"]
  /\ notify' = [notify EXCEPT ![c] = "deliver"]
  /\ UNCHANGED callVars

MarkSent(c) ==
  /\ notify[c] = "deliver"
  /\ notices' = [notices EXCEPT ![c] = "SENT"]
  /\ notify' = [notify EXCEPT ![c] = "done"]
  /\ noticeCall' = [noticeCall EXCEPT ![c] = Answer(@, "ok")]
  /\ UNCHANGED <<payCall, confirmCall>>

(* An error is answered too, and the booking service ignores it. *)
NoticeFail(c) ==
  /\ Faults
  /\ notify[c] = "deliver"
  /\ notify' = [notify EXCEPT ![c] = "failed"]
  /\ noticeCall' = [noticeCall EXCEPT ![c] = Answer(@, "error")]
  /\ UNCHANGED <<payCall, confirmCall, notices>>

NoticeStep(c) == InsertNotice(c) \/ MarkSent(c)
NoticeSystem == \E c \in Captures : NoticeStep(c) \/ NoticeFail(c)
=============================================================================
