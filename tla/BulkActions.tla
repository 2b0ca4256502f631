----------------------------- MODULE BulkActions -----------------------------
(***************************************************************************)
(* What the action of a bulk job may do to one account, and what it may     *)
(* report.  One operator per action of the routers: the set of its possible *)
(* outcomes on account t.  Every action runs under the time limit of        *)
(* bulk_stream, which may strike before or after Telegram applied the call. *)
(*                                                                         *)
(* member, dialog      whether the account is in the chat the jobs are      *)
(*                     about, and has messages of its own in it             *)
(* profile, password   the profile and the 2FA password Telegram has        *)
(* stored, known       the profile in accounts, the password in secrets     *)
(***************************************************************************)
EXTENDS Naturals

CONSTANTS Kinds      \* the job types a run looks at

AllKinds == {"group_join", "group_leave", "group_leave_target",
             "group_leave_all", "delete_own_messages", "message_send",
             "message_react", "message_view", "wipe_chat", "bulk_profile", "bulk_photo",
             "change_2fa", "terminate_other_sessions"}

ASSUME KindsAssumption == Kinds \subseteq AllKinds

Version == {"old", "new"}
AccountSides == [member : BOOLEAN, dialog : BOOLEAN, profile : Version,
                 stored : Version, password : Version, known : Version]

(* How the call ended: the action returned a row, or raised.  A warned row   *)
(* is ok with a warning.                                                     *)
Returned == {"ok", "warned", "pending", "skipped"}
Raised == {"flood", "soft", "error", "timeout"}

Out(answer, t) == [answer |-> answer, account |-> t]
Answers(S, t) == {Out(s, t) : s \in S}

Joined(t) == [t EXCEPT !.member = TRUE]
Left(t) == [t EXCEPT !.member = FALSE]
Wiped(t) == [t EXCEPT !.dialog = FALSE]

(* A call that was refused, and one that met the time limit before or after  *)
(* Telegram applied it.                                                      *)
Refused(t) == Answers({"flood", "error"}, t)
TimesOut(t, done) == {Out("timeout", t), Out("timeout", done)}

(* An account that is already a member counts as joined; one short FloodWait *)
(* is slept off and the join tried once more; a chat that wants approval     *)
(* leaves the row pending; a full account is a soft error.                   *)
JoinHandle(t) ==
  {Out("ok", Joined(t))} \union Refused(t) \union TimesOut(t, Joined(t))
    \union (IF t.member THEN {} ELSE Answers({"pending", "soft"}, t))

LeaveWithClient(t) ==
  (IF t.member THEN {Out("ok", Left(t))} ELSE {})
    \union Refused(t) \union TimesOut(t, Left(t))

(* A chat that cannot be resolved, and any failure to delete a basic group,  *)
(* is reported as not being a member.                                        *)
LeaveByTarget(t) == {Out("skipped", t)} \union LeaveWithClient(t)

(* Leaves every chat, counts the errors and stops at a long FloodWait: the   *)
(* row is ok whatever was left undone.                                       *)
LeaveAll(t) ==
  Answers({"ok"}, t) \union {Out("ok", Left(t))} \union Refused(t)
    \union TimesOut(t, Left(t))

DeleteMyMessages(t) ==
  Answers({"ok"}, t) \union {Out("ok", Wiped(t))} \union Refused(t)
    \union TimesOut(t, Wiped(t))

(* The conversation is probed first; it is deleted even when the probe found *)
(* nothing or could not read.                                                *)
WipeChat(t) ==
  {Out(IF t.dialog THEN "ok" ELSE "skipped", Wiped(t)), Out("ok", Wiped(t))}
    \union Refused(t) \union TimesOut(t, Wiped(t))

(* Reactions, views and ended sessions change nothing the jobs read again.   *)
(* A chat that does not allow the reaction is a soft error; the failure to   *)
(* end a session is only counted.                                            *)
View(t) == Answers({"ok", "timeout"}, t) \union Refused(t)
React(t) == View(t) \union Answers({"soft"}, t)
EndOtherSessions(t) == View(t)

Send(t) ==
  LET done == [t EXCEPT !.dialog = TRUE] IN
  {Out("ok", done)} \union Refused(t) \union TimesOut(t, done)

(* Names and bio, then the user name, then the database: a failure keeps the *)
(* earlier parts.                                                            *)
EditProfile(t) ==
  LET half == [t EXCEPT !.profile = "new"]
      full == [half EXCEPT !.stored = "new"]
  IN {Out("ok", full)} \union Refused(t) \union Refused(half)
       \union TimesOut(t, half) \union TimesOut(half, full)

(* The new password at Telegram, then among the secrets, where a failure is  *)
(* only warned of, then the flag of the account.  Without the current        *)
(* password Telegram refuses.                                                *)
Change2fa(t) ==
  LET half == [t EXCEPT !.password = "new"]
      full == [half EXCEPT !.known = "new"]
  IN {Out("ok", full), Out("warned", half), Out("error", full), Out("error", half)}
       \union Refused(t) \union TimesOut(t, half) \union TimesOut(half, full)

(* An account may have no photo; one is uploaded only while its temporary    *)
(* file is there.                                                            *)
UploadPhoto(t, file) ==
  Answers({"skipped"}, t)
    \union (IF file THEN Answers({"ok", "timeout"}, t) \union Refused(t)
            ELSE {Out("error", t)})

Outcomes(kind, t, file) ==
  CASE kind = "group_join" -> JoinHandle(t)
    [] kind = "group_leave" -> LeaveWithClient(t)
    [] kind = "group_leave_target" -> LeaveByTarget(t)
    [] kind = "group_leave_all" -> LeaveAll(t)
    [] kind = "delete_own_messages" -> DeleteMyMessages(t)
    [] kind = "message_send" -> Send(t)
    [] kind = "message_react" -> React(t)
    [] kind = "message_view" -> View(t)
    [] kind = "terminate_other_sessions" -> EndOtherSessions(t)
    [] kind = "wipe_chat" -> WipeChat(t)
    [] kind = "bulk_profile" -> EditProfile(t)
    [] kind = "bulk_photo" -> UploadPhoto(t, file)
    [] kind = "change_2fa" -> Change2fa(t)

\* Variant: a timeout leaves the row pending.
RowTimeoutPending(answer) ==
  CASE answer \in {"ok", "warned"} -> "ok"
    [] answer \in {"pending", "flood", "timeout"} -> "pending"
    [] answer \in {"skipped", "soft"} -> "skipped"
    [] answer = "error" -> "failed"

(* A FloodWait leaves the row pending, a soft error skips it. *)
RowOf(answer) ==
  CASE answer \in {"ok", "warned"} -> "ok"
    [] answer \in {"pending", "flood"} -> "pending"
    [] answer \in {"skipped", "soft"} -> "skipped"
    [] answer \in {"error", "timeout"} -> "failed"
==============================================================================
