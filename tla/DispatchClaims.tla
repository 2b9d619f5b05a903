---------------------------- MODULE DispatchClaims ----------------------------
(* What a claim is worth.  A dispatch binds its session to the Task and     *)
(* saves the binding before it sends the prompt, so that whatever goes      *)
(* wrong afterwards the session still holds the Task.  The binding is not   *)
(* for ever, though: a user may edit the Task by hand, and the session may  *)
(* be bound to another Task by an edit or by a report of its agent.  The    *)
(* history variable of this module remembers that.                          *)

EXTENDS TaskDispatch

VARIABLE lost   \* the sessions that each Task has lost since its last claim

claimVars == <<vars, lost>>

(* Another Task takes the session. *)
LostTo(s, t) == {s} \X (Task \ {t})

(* A Task that is done releases its session, and one that is put back into  *)
(* the queue has none; one that is set to work takes its session.           *)
LostByEdit(t, to) ==
    CASE to = "done" -> {tasks[t].session} \X {t}
      [] to = "queued" -> Session \X {t}
      [] to = "working" /\ tasks[t].session # NoSession -> LostTo(tasks[t].session, t)
      [] OTHER -> {}

ClaimInit == Init /\ lost = {}

(* A claim holds from its save. *)
ClaimNext ==
    \/ OtherStep /\ UNCHANGED lost
    \/ Claim /\ lost' = IF pass'.pc = "send" THEN lost \ {<<pass.at, pass.task>>} ELSE lost
    \/ \E r \in Request, to \in EditTo :
          EditTask(r, to) /\ lost' = lost \cup LostByEdit(req[r].task, to)
    \/ \E s \in Session, t \in Task : Reports(s, t) /\ lost' = lost \cup LostTo(s, t)

ClaimSpec == ClaimInit /\ [][ClaimNext]_claimVars

-----------------------------------------------------------------------------
(* Task t waits in the queue with its prompt in the outbox of s. *)
Prompts(store, s, t) ==
    /\ store.tasks[t].status = "queued"
    /\ store.sess[s].box[<<t, store.tasks[t].attempt>>] # "absent"

Bound(store) ==
    \A s \in Session, t \in Task :
        Prompts(store, s, t) /\ <<s, t>> \notin lost => store.sess[s].task = t

(* A prompt that was sent is bound in the file before and stays bound       *)
(* until the Task leaves the queue: through failed saves, crashes, stale    *)
(* copies of the session that a pass writes back or sends from, the         *)
(* migration of the Task, and whatever others do to their Tasks, unless     *)
(* they take the session (_dispatch_task_to_session,                        *)
(* _recover_queued_task_ownership).                                         *)
ClaimSurvives == Bound(disk)
=============================================================================
