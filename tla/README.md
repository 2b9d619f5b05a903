# claude_hub: a TLA+ model of message delivery, dispatch, the Chat inbox, the TaskMailbox and planned restarts

claude_hub runs coding agents. One Python process (a single asyncio loop)
supervises *managed sessions* — agents in tmux (Terminal) or native provider
processes (Chat) — and drives them with *Tasks*: it dispatches work to sessions,
delivers followup messages, takes the agents' reports, and tells supervising
agents what happened through a durable event stream. All its state lives in memory
and in a JSON state file per workspace (`state.json`), replaced atomically on every
save, with a few sidecar files.

This directory models the part on which the rest depends: **how a message gets to
an agent exactly as often as promised, across crashes, failed saves, unlocked
background work and operator intervention; how a Task gets to an agent in the first
place; how the resulting events reach those who wait for them; and how a planned restart
replaces the process without losing or repeating an interrupted turn.** Paths below are relative to `src/backend/claude_hub/services/`
unless they say otherwise; `wm/` abbreviates `workspace_manager/`.

## 1. Inventory

### Modelled components

| Component | State it keeps | Operations | Makes it correct |
|---|---|---|---|
| **Message delivery** (`wm/_messaging.py`, `wm/messaging/*`) | per session four call_id lists (pending, processing, uncertain, delivered), stored envelopes, payload fingerprints; a mirror of the lists on the bound Task | send, pump (claim, hand off, verify), roll back, mark uncertain, reconcile, expire leases, operator retry | a call_id is in one state; what is resent was not sent; nothing is lost; uncertain leaves only by operator or acknowledgement |
| **Managed Chat** (`managed_chat.py`, `agent_stream/runtime/input.py`) | evidence sidecar per call_id (`sending`, `accepted`, `uncertain`); the running turn | record attempt, hand turn to provider, interpret exceptions | evidence is written before and after the side effect, never resets after acceptance |
| **Terminal transport** (`wm/tmux/transport.py`) | receipts in tmux user options | paste-with-receipt as one tmux command list, verify submit, query receipt | a receipt exists iff the text was pasted into this tmux session |
| **Report acknowledgement** (`wm/reports/*`) | the lists above | commit the acknowledged call_ids on session and Task, restore both when the save raises | delivered is final and needs a verified target |
| **TaskMailbox** (`task_mailbox.py`, `models/task_mailbox.py`) | event list, call index, `_next_seq`, one cursor per Task | append (own save or caller's transaction), replay, poll, ack, purge, load | keys unique, answered events durable, cursors monotone, nothing is born read |
| **Directed wait** (`directed_wait.py`) | one `asyncio.Event` per consumer, set of waiters | wait, wake, wake_if_subtree | no lost wake-up |
| **Task graph** (`task_graph.py`) | parent and path of each Task | consumer keys, subtree visibility | addressee and audience agree |
| **Monitor** (`wm/_workspaces.py`, `wm/monitoring/*`) | – | each tick: refresh status, expire leases, reconcile, pump, observe lifecycles | eventually takes up what was left behind |
| **Chat inbox** (`chat_message_inbox.py`, `wm/scheduling/chat_runs.py`, `api/routes/agent_stream/messages.py`) | a row per message of a user or occurrence of a schedule: its state, whether it was submitted, its place in the FIFO; one file per tab | enqueue, cancel, admit an occurrence, pump with a fence at the transport, interpret failures, complete, reconcile, close, restart | nothing is submitted twice, a receipt is durable, the order is kept, a result is final and proven, the head is looked at again |
| **Dispatch** (`wm/dispatching/*`, `wm/tasking/abort.py`, `wm/_task_updates.py`) | status, session and attempt of a Task; task and run state of a session; the dispatch lock and the mutation lock of a workspace | start, abort, edit; the pass: recover interrupted dispatches, reassign, reserve, rename, prepare, claim, prompt, record | a prompt that was sent is bound in the file, no Task is stranded, the monitor's round goes on |
| **Execution ownership** (`wm/_task_execution.py`) | who executes a Task (workspace, external initiator, released), the operations in flight on it | reserve for an operation, hand off, record progress | a Task in external hands is left alone |
| **Service launcher** (`claude_hub/service_launcher.py`, `service_restart.py`, `backend_instance_lock.py`, `main.py`) | the Hub process it spawned; the restart mailbox (`restart/state.json`: launcher and one operation); live, new and backup frontend directories | request, poll, synchronise, build, stop, swap or undo, spawn, wait, report, leave; signals and kills at any of them | only the instance that asked is stopped, success means a new one, a complete frontend survives, each request is answered |
| **Restart continuation** (`restart_continuation.py`, `agent_stream/runtime/*`) | the operation's rows (pending, claimed, started, skipped, stopped, failed) and vetoes; the open turn of each Chat | capture at shutdown, claim, check, publish, deliver and finish at start; Stop, archive and expiry beside it | a turn is continued at most once and never after newer input; rows say what happened; a Stop or archive wins |
| **Persistence** (`wm/_persistence.py`, `wm/_state.py`) | `state.json` | atomic replace, load | file is one of the two versions, also when a save raises |

### Interactions

* Producers (dispatch, followups, reminders) call `send_session_message`, which
  admits the message and pumps at once; the **monitor** pumps again on every tick.
  Both run under the session's **pump lock**; so do reports, retries, pause, resume
  and archive. The Terminal **reconciliation does not**: it awaits one tmux query per
  call_id with no lock held. Lease expiry takes no lock either, but does not yield.
* A report (`create_report`) acknowledges followups explicitly and every open
  `dispatch:` call_id implicitly, and appends a mailbox event.
* Appending wakes the addressee's waiters and those subtree waiters that are
  ancestors of the event's Task. `delivery:uncertain` events wake nobody.
* Deleting a Task purges its events and cursor.
* A user's start, abort or edit of a Task, and every round of the monitor, ends in a
  **dispatch pass**, under the workspace's dispatch lock. A pass takes the workspace's
  **mutation lock** (re-entrant for its owner) for its steps; an abort holds the
  mutation lock already when it asks for the dispatch lock.
* The Chat inbox sits in front of a Chat's turns: users and the scheduler put rows
  into it, its pump submits the head, the event store and the provider's turn end
  tell what became of it.
* A page asks the running Hub for a restart; the Hub writes the operation into the
  **restart mailbox**, its **launcher** polls it. The mailbox is a file that both
  rewrite under a file lock, so that each access is one transaction. The launcher
  stops the Hub by a signal; on its way down the Hub leaves the Chats it interrupts
  in the same mailbox, and the next Hub of the same launcher continues them.

### What is hard here

*Interleavings* at every `await`; *stale reads* (records copied before an await and
written back after it); *partial failure* (a save that raises before or after the
file was replaced, a handoff that raises before or after the provider took the
turn); *crashes* between intent, side effect and acknowledgement; *retries* of what
may have been done; *sequence numbers* recomputed at load; *wake-ups* racing with
polls. `PROJECT.json` lists each hazard with its source line and the properties that
would catch it.

### Components not modelled (yet), and why

* Of the **Task lifecycle** the review cycles, reviewers and dependencies; of
  **scheduling** the clockwork that decides when an occurrence is due.
* **Goal runs, Dot, sub-agents**: orchestration on top of Tasks and Chats.
* **Provider adapters, agent stream store, ttyd/pty bridges, HTTP API, CLI,
  frontend, auth, quota, presets, bots, feedback, migration**: parsing, I/O or CRUD
  whose effect on the modelled state is an action, an input or an environment choice.
* **Backend instance lock**: `ServiceLauncher` models what it does to a second Hub
  (it exits at once); everywhere else one Hub per state directory is an assumption.
* Of the **restart continuation** the Chats that belong to a Goal, and Cursor's
  check of its database for an open request (one more reason to skip a Chat).

## 2. Plan

Order of construction, most important behaviour first:

1. `DeliveryState`, `ChatDelivery` with `DeliveryContract`; `TerminalDelivery` — done.
2. `TaskMailbox` with the long-poll — done.
3. Proofs: `SafeState` and its consequences, refinement of the contract; what survives
   the unlocked coroutines of `TerminalDelivery`; durability and numbering of the stream,
   and that no wake-up is lost — done.
4. `ChatInbox` (receipts, pump with its fence, reconciliation, scheduled
   occurrences) against the abstract FIFO `InboxContract`, with proofs — done.
5. `TaskDispatch` (dispatch passes, requests, locks, execution ownership), with the
   proofs that a Task in external hands is left alone and, in `DispatchClaims`, that
   what was prompted stays bound — done. To do: review cycles and
   reviewers as further dispatch targets, dependencies, `apply_dispatch_decision`.
6. `HubLifecycle`, and on it `ServiceLauncher` (which implements it) and
   `RestartContinuation` (composed with it), with proofs of every safety property — done.
   To do: Goals among the Chats that are continued, answers to questions
   (`claim_answer`, `pump_answer`).
7. Composition of `TaskMailbox`'s cursor with `TerminalDelivery`'s retry, whose
   stale Task record also carries `consumer_ack_sequence`; of `TaskDispatch` with the
   delivery modules, whose outbox it sees as the standing of one call.
8. `ChatQueue`: the order inside the pending list (rolled-back input first).

Abstract specifications: `DeliveryContract`, `InboxContract`, `HubLifecycle` (done); "owned by one
executor" would be the one for 5, of which `HandedOffIsLeftAlone` is the safety part.
Bounds for new runs as below: two messages or Tasks, a small disturbance budget.

## 3. Modules

| Module | Role |
|---|---|
| `DeliveryState` | the bookkeeping of one session outbox with its Task mirror, and the pure state-to-state functions of the code (`Claimed`, `RolledBack`, `MarkedUncertain`, `Retried*`, `Compensated`, `Acked`, `MayRetry`) |
| `DeliveryContract` | abstract specification of an outbox: per call_id a state, who was handed what, what the operator authorised |
| `ChatDelivery` | EXTENDS `DeliveryState`: a Chat session with its monitor, provider, agent, operator, human and crashes |
| `TerminalDelivery` | EXTENDS `DeliveryState`: a Terminal session with tmux receipts and the unlocked reconciliation |
| `TaskMailbox` | event stream, cursors, state file and long-polls of a workspace |
| `InboxContract` | abstract specification of the Chat inbox: a FIFO whose rows are taken up one at a time, submitted at most once, and settled for good |
| `ChatInbox` | the inbox of one Chat tab with its pump, reconciliation, provider, event store, schedules, saves and restarts |
| `TaskDispatch` | the Tasks and sessions of a workspace, its two locks, the dispatch pass, the monitor's round, users' requests, agents and external executors |
| `DispatchClaims` | EXTENDS `TaskDispatch` with a history variable: the sessions each Task has lost since its last claim |
| `HubLifecycle` | abstract specification of a planned restart: the mailbox's operation, the Hub process and its launcher |
| `ServiceLauncher` | EXTENDS `HubLifecycle`: the launcher's thread with its child, the frontend directories, signals and kills |
| `RestartContinuation` | EXTENDS `HubLifecycle`: Chats across planned restarts, with the capture, the attempts to continue and their users |
| `ServiceLauncher_proofs` | the launcher's invariant, that it implements `HubLifecycle`, and that a complete frontend survives |
| `RestartContinuation_proofs` | the invariant of the continuation, and its five safety properties |
| `ChatInbox_proofs` | the inbox's invariant, its consequences, and that it implements `InboxContract` |
| `TaskDispatch_proofs` | type correctness with the lock discipline, that a Task in external hands is left alone, and that claims survive |
| `ChatDelivery_proofs` | `SafeState` is inductive, and what follows from it |
| `ChatContract_proofs` | `ChatDelivery` implements `DeliveryContract` |
| `TerminalDelivery_proofs` | what holds of a Terminal session in spite of stale writes |
| `TaskMailbox_proofs` | `DurableStream`, `StreamInv` and `Awake` are inductive, and what follows |
| `MC*` | instances for TLC |

### How the models correspond to the code

**Atomicity.** Coroutines switch only at an `await` that can really suspend. So an
action is everything between two suspension points, its save included, and the
coroutine that holds the pump lock is a program counter `op.pc` with one value per
such point. In `ChatDelivery` these are the points of `_pump_session_messages_locked`
and `managed_chat.send_message` (`ready`, `sending`, `taken`, `unsent`, `ambiguous`)
and of the retry (`audit`). In `TerminalDelivery`: `ready`, `paste`, `submit` in the
pump; `query`, `nudge` in the retry; `next` and `audit` are points where no other
coroutine runs (`Yielded`) but the process may die. `mon` is the reconciliation, a
second coroutine with its own snapshot; `snap` is what a retry read before its await.

**State.** `mail.s` and `mail.t` are the four lists of `ManagedSession` and
`WorkspaceTask`; `mail.body` the stored envelope, `mail.fp` the fingerprint.
`dmail` (and `dmode`, `dstopped`) is `state.json`. `evidence` is the sidecar of
`managed_chat`; `"orphaned"` is a `sending` record of a dead process, which
`delivery_state` reports as uncertain. `mode` is `chat_paused` together with the
archived status. `given`, `seen`, `answered`, `rung` and `retry` are history.

**Saves.** `SaveOrFail`: memory is changed first, and a raising save leaves it ahead
of the file. `Commit`/`Torn`: the caller restores memory when the save raises; the
file is then the old or the new version (the exception may come after `os.replace`).
Which of the two applies is read off each call site.

**Abstractions.** A list is a set: the order within it is left open, so every order
is covered (`ChatQueue` in the plan). A message with its attachments is a `Payload`;
its fingerprint is the payload. Replays of a send change nothing and are no step.
`budget` bounds crashes, failures and interventions. Ticks and coroutines cost
nothing.

**Left out of the delivery modules.** Liveness wake-ups (`_liveness_delivery_allowed`),
provider questions that block input, back-filling fingerprints of old state files,
messages without a call_id, `reset_context`, and the pump's branch for a missing
envelope (`EnvelopeKept` in `ChatDelivery`, `NeverForgotten` in
`TerminalDelivery` show it unreachable). The saves of compensations, pause, resume,
archive, unarchive, status refresh and recovery at load are taken to succeed: a
second failure while the first is being handled is not modelled. For Chat, archive
and unarchive restore the session when their save raises, so a failure is a stutter
of memory. The backend of a session is alive or not at the granularity of the checks
the code makes.

**TaskMailbox.** `mem` and `disk` are records of events, cursors and live Tasks. An
append, an ack or a deletion does not yield, so each is one action. `AppendEvent` takes the
event back when its save raises; `Observe` (the lifecycle observer) keeps it in
memory and wakes nobody, as the code does. `Restart` recomputes `_next_seq` from the
surviving events. Left out: re-parenting (the tree is fixed), adoption of legacy
report events, the rejection of a call_id with another body (it changes nothing), and
`since` values other than 0 and the newest sequence. The long-poll holds the
coordinator's lock only between suspension points; `WaitSpawns` says how
`asyncio.wait_for` runs `Event.wait`: in a task of its own (CPython 3.11, which
`docker/Dockerfile` installs) or in place (3.12 and later).

**ChatInbox.** `mem` and `disk` are the rows of a tab in memory and in its file; a row
is its `state`, whether its submission was marked (`started`) and which rows it is
behind (`ahead`). The pump is a coroutine with one place per await (decide, mark,
fence, submit, interpret), a reconciliation another one that has read its evidence
before. `phase` says whether the inbox is open, closing after a save that raised, or
closed until the process starts again. `hist` counts what the provider was handed,
`over` is what the event store knows of ended turns. Left out: answers to questions,
backlog limits, expiry of old receipts, the replay of a call_id, and the time
thresholds (a probe may or may not be due).

**TaskDispatch.** A coroutine is the monitor (`mon`) or a request (`req`); each has one
place per point where it can really wait. `pass` is the local state of the pass that
runs under the dispatch lock, with the list of session records it was made with
(`snap`): the code goes through that list while others change the sessions. The
outbox of a session is reduced to the standing of the call
`dispatch:<task>:<attempt>`, with the transitions of `DeliveryState`. The prompt and
the record of it are two steps with the mutation lock held, since a crash between
them is what the recovery at the start of a pass is for. An abort keeps the mutation
lock from its commit to the end of its pass, as the code does. Failing saves follow
each call site: `Saved`/`Unsaved` where memory stays ahead, `Commits`/`RollsBack`
where the caller restores it. Not every field is there: `pinned` says that a user
named the session, `control` who executes the Task, `doubt` which uncertain calls the
Task itself lists. Left out: dependencies, reviewers and review cycles, continuing,
deleting and creating Tasks, the dispatch decision of an agent, the operator's retry,
the order of queued Tasks (any of them may be the next), FAILED as a status of its
own (an external executor is done then), scheduled occurrences that are dispatched
directly.

**DispatchClaims.** The binding of a session that a dispatch saves before its prompt is
not for ever: a user may edit the Task, and an edit or a report of another Task binds the
session anew (`_assign_current_task`, `_create_report_under_lock`) without looking at
what it holds. The history variable `lost` notes these takings, and a claim clears its
own pair; no guard reads `lost`, so the behaviours are those of `TaskDispatch`
(`ClaimSpecIsSpec`). `ClaimSurvives` says that whatever else happens takes no session from
a queued Task whose prompt was sent: failed saves, crashes, the stale records that a pass
writes back or sends from, migration, and all that others do with their own Tasks.

**HubLifecycle.** `op` is the operation in the mailbox, `hub` the process that holds
the instance lock or held it last, `launcher` the one named in the mailbox. The code
draws random ids and only compares them; here they are numbers in order of start, so
that "another instance" is `hub.id > op.from`. It says what may happen to the three,
not when or why; both modules that build on it add the why.

**ServiceLauncher.** `pc` is where `run()` and what it calls stand, one value per
subprocess call, wait, rename or mailbox transaction. A directory is absent,
incomplete, or holds the frontend that was live or the next one; a promotion that is
over renames the next one to the live one. `raised` is what unwinds
`promote_frontend` (an error or an interrupt), which decides which of its handlers
run. A signal arrives at any of these places and takes the path of `KeyboardInterrupt`
/ `SystemExit` from there; a kill leaves the directories as they are and the Hub running.
`mishap` marks that a second failure hit the undoing of a first, or a kill hit the
swap: after that the code promises nothing about the live directory. Left out: which
command builds what, the log, the port; a health poll answers what the Hub's phase
says.

**RestartContinuation.** The rows of the operation (`box`) and the end of their five
minutes (`late`); per Chat the durable `log` of its turns and what the process knows
(`chat`); the coroutine that reads the rows at start (`job`) and one attempt per Chat
(`att`), whose places are its awaits between claim and final row; the shutdown
(`shut`, `cand`), which lists its candidates under the locks of one Chat after the
other and publishes them in one transaction; Stops that wait for the admission lock an
attempt holds (`stop`). Every check reads the mailbox again, as the code does. Launch
configuration and provider conversation of a Chat are one flag (`moved`).

## 4. Runs

Instances: the delivery runs use one dispatch call_id and one followup, because the
code treats the two kinds differently and every interference needs at most one
other call_id; one payload, since payloads are only compared with the stored
fingerprint. Each disturbance is taken from a budget of 3 or 4, enough for, say, two
crashes around a failed save and a retry. The delivery runs and the mailbox runs are
small enough to be exhaustive. The bounds end behaviours when everything is
delivered and the budget is used up; hence `CHECK_DEADLOCK FALSE` in the delivery
runs. In the mailbox runs deadlock is checked (replay and ack go on for ever).

| Run | Bounds | Shows |
|---|---|---|
| `chat` | Budget 4 | `SafeState` (no call_id in two lists, nothing resent that was sent, envelopes and mirrors kept, in memory and in the file), no second handover, the gate still true at handover, implementation of `DeliveryContract`; pending input is taken up, interrupted handoffs settle |
| `terminal` | Budget 3 | what holds in spite of unlocked reconciliation and stale writes: `NeverForgotten`, `UncertainIsMirrored`, `DeliveredIsFinal`, `NoPasteAfterDelivered`; pending input leaves pending, in-flight input of a stopped session settles |
| `mailbox_stream` | 3 Tasks in a chain, 2 events, 2 faults, deletions | `StreamIsKeyed`, `AnsweredIsRecoverable`, `CursorNeverRewinds`, `KeptEventsAreUnread` |
| `longpoll_spawned_solo` | 1 waiter, 2 events, 1 fault | `NoLostWake` with 3.11's `wait_for` and one waiter |
| `chat_inbox` | a user's message and an occurrence, 1 disturbance | `InboxContract` is kept (nothing submitted twice, nothing submitted goes back to the queue, the order is kept, results are final); receipts durable, completions proven; the head is looked at again, doubts are settled |
| `dispatch` | 2 Tasks, 2 sessions, 2 requests in flight and in all, 1 fault, symmetric | `HandedOffIsLeftAlone`, the lock discipline in `TypeOK`, and with the history of `DispatchClaims` `ClaimSurvives` |
| `dispatch_live` | 1 Task, 2 sessions, 1 request in flight, 3 in all, 1 fault | `LifecyclesAreObserved`, `QueuedIsTakenUp` |
| `service_restart` | 2 requests, 4 Hubs, 2 launchers, 2 signals; any number of kills, crashes, failed builds and renames | `HubLifecycle` is kept; a complete frontend survives every interruption and is live after it, a Hub keeps its frontend; every request is answered, the service comes back |
| `restart_chats` | 1 Chat with 3 turns, 2 requests, 3 Hubs of 2 launchers, 1 fault or user's disturbance | `ContinuesTheLast`, `ReportIsTrue`, `StopReachesContinuation`, `BarredStaysBarred`; a captured Chat learns its outcome (`RowSettles`) |
| `terminal_one_state`, `dispatch_locks`, `dispatch_uncertain` | as above; two requests in flight and no fault for the locks, two faults for the doubt | the disagreements of section 6 |

The type invariants of `ChatDelivery` (in `SafeState`), `ChatInbox` and `ServiceLauncher`
and the properties those modules only derive are theorems (section 5), checked by TLC
before they were proved; for these the runs check what implies them.

Larger instances were run once while the models were built: three Chat call_ids with
Budget 4, three events with one fault, two direct waiters with two events; nothing
new appeared. So were one restart with two faults for the Chats (3.5 million states),
two Chat inbox disturbances, and for dispatch one Task with four requests and two
faults (13 million states, not exhausted). `ClaimSurvives` was checked with three requests
one at a time, for two Tasks and one session with edits to working, queued and done
(1.1 million states) and for two sessions with the edits of the run (7.7 million). The
inductive invariants were checked by TLC before they were proved: that of
`TerminalDelivery` up to Budget 4 (572,687 states), `StreamInv` and `Awake` with deletions
and one waiter on 3.11 (2.7 million) and with two waiters on 3.12 (173,868), `ClaimInv` on
the run's own instance (3.1 million).

Three Tasks are the smallest chain with an ancestor that is not the parent, which the
wake-up audience depends on. Two events and two faults are the smallest history with
"append, fail, append again, restart". Two Tasks and two sessions are the smallest
workspace in which a Task can migrate, a session can be wanted by two Tasks, and a
session can hold one Task while the list of the pass says it holds another. With two
requests at a time liveness does not hold (`dispatch_locks`), so `dispatch_live` has
one, and the monitor beside it. Two requests for a restart are the fewest with which
one can replace another in the mailbox, and two launchers the fewest with which a Hub
outlives its own. Chats do not interact except through the order in which a capture
visits them, which a single Chat's steps in between already show; three turns are one
that is interrupted, its continuation, and one that comes after or instead of it.
The restart runs end when the Hubs are used up, hence `CHECK_DEADLOCK FALSE` there.
`dispatch` leaves `"queued"` out of `EditTo`, which would take it beyond its time; the
larger instance above has it, and the theorems are for any `EditTo`.

### Fairness

`ChatDelivery!FairSpec`: weak fairness of the pump, the reconciliation and the lease
expiry, which `_workspaces.py` (225-283) runs on every tick and which queue on
a fair `asyncio.Lock`; of the steps of the coroutine that holds the lock; of
the end of a turn. No fairness for producers, the operator, the agent's reports or the
human. Since human turns are disturbances, only finitely many of them can stand in
the way of a pump, which is why `PendingTakenUp` does not need strong fairness.
`TerminalDelivery!FairSpec`: weak fairness of starting the pump, of the steps of
the pump and of a retry, and of the monitor's phases. A tmux session that died need
not come back.

`ChatInbox!FairSpec`: weak fairness of the pump's steps, of the coordinator's periodic
pass and of the reconciliation; none for the provider to accept anything, but a turn
that was taken comes to an end, or its runtime is found lost.

`TaskDispatch!FairSpec`: weak fairness of the pass and of the monitor; strong fairness
of the steps that wait for a lock (`Observe`, `MonitorPass`, the steps of a request):
`asyncio.Lock` hands itself over in the order of asking, so whoever keeps asking gets
it, though the lock is not free all the time. The monitor's steps end by a timeout
of their own when they cannot go on (`_guard_awaitable`); a user's pass has none.
Agents, users and executors need not do anything.

`ServiceLauncher!FairSpec`: weak fairness of the launcher's thread, whose subprocesses and
waits all have timeouts; a Hub that starts serves or exits, and one that was told to
stop is killed after 30 s. Nobody has to start a launcher or ask for anything.
`RestartContinuation!FairSpec`: weak fairness of the coroutine that reads the rows, of an
attempt, and of a Stop that waits for the lock of an attempt (each attempt ends, by a
timeout of the provider's start if need be); none for users, providers or the launcher.

`PendingTakenUp` for Chat names its exceptions: something uncertain blocks the
conversation until an operator or a report resolves it, and a paused or archived
session takes no input. The mailbox has no liveness property: a long-poll may
always time out.

## 5. What is proved

All theorems hold for every value of the constants under the assumptions named in
the modules: `NoPayload`, `NoCall` and `HumanTurn` are not members of the sets they
are absent from, `Followup \subseteq CallId`, the bounds are naturals, and
`Parent`/`Above` describe a forest.

**ChatDelivery** (`ChatDelivery_proofs`). The properties are not inductive by
themselves: that a pending call_id was never sent follows only if every path into
`pending` is guarded by evidence, and the evidence means something only while memory
*and* state file agree with it. `SafeState` is the strengthening:

* `Consistent(mail, Sent)` and `Consistent(dmail, Sent)`: in either copy the lists are
  disjoint, uncertain is mirrored on the Task, open call_ids have their envelope, and
  a call_id with evidence is listed and not pending. Requiring it of the *durable*
  copy makes `Crash` trivial and moves the work to the saves.
* `InFlight`: what the lock holder may rely on at each await point: its call_id is in
  processing in both copies, nothing is uncertain, the session is live, and the
  evidence is what the program counter says.
* `given[c] <= 1`, and a taken call_id has evidence.

There is a lemma for each function of `DeliveryState` (when it preserves `Consistent`),
one for each kind of save, one for each group of actions, and `SafeNext` combines them.
`TypeCorrect`, `OneState`, `PendingUnsent`, `AtMostOnce`, `RecoverableInput` and
`ClearHandoff` follow.

**Refinement** (`ChatContract_proofs`). `Moves` says along which edges a step
of the hub may take a call_id; `Lags` is a second invariant: the state file is never
further from memory than the contract's `RestartStates` allows. `HubSteps` shows both
for every action but the provider's and the crash; `StepImplements` maps each step to
`Move`, `HandOver`, `Restart` or a stutter; `ChatImplementsContract` concludes.

**TerminalDelivery** (`TerminalDelivery_proofs`). That a call_id is in one state is
false here (section 6), so the invariant `IInv` keeps what the races cannot take away.
`Sound`, of memory and of the file alike: what was admitted is listed, an open call_id
has the envelope it was admitted with, a delivered one has none and is neither pending
nor in processing (though it may be in uncertain), and the session's uncertain is
mirrored on the Task. Then what each coroutine may still believe after an await:
`PumpHolds` (its call_id was admitted, and is not delivered before the paste),
`RetryHolds` (the copy that a retry will write back is `Sound` and has missed no
admission and no delivery, because both take the pump lock; what it *can* have missed
is what the monitor moved, and `Sound` allows for that), `MonitorHolds`. The file is
never behind memory in what is delivered, so a crash forgets none. Each function of
`DeliveryState` has one lemma; `TypeCorrect`, `NothingForgotten`, `UncertainRetryable`,
`DeliveredForGood` and `DeliveredNotPasted` follow.

**TaskMailbox** (`TaskMailbox_proofs`). Every step either installs one new version of
the memory (in memory, in the file, or in both), or reloads the file (`Installs`).
`Extends` is what a new version must satisfy. `DurableStream` (both stores well
formed, hold what was answered, and the file is not behind memory's cursors) is inductive;
`AnsweredRecoverable` and `CursorsKept` follow. The last conjunct is what makes
`CursorNeverRewinds` hold across `Restart`.

The numbering needs more: `StreamInv` adds, of both stores, that keys and sequence
numbers are unique, that events belong to Tasks that live, and that each cursor is
backed by an event as long as no Task was deleted; and of the process, that
`_next_seq` is backed likewise, that an event which only the file has is unread there (a
restart may bring it back), and that what was announced is in the stream.
`Restart` recomputes `_next_seq` as a maximum, so the proofs need that a finite set of
numbers has one: `MaxExists` gets it from the well-foundedness of `<`.
`TypeCorrect`, `StreamKeyed` and `AppearsUnread` follow.

`NoWakeLost` rests on a third invariant, `Awake`: nobody is asleep on an announced event
it would return, and a waiter whose inner `Event.wait` has not started will find the
Event set. Clearing the Event breaks the latter for *other* waiters of the same
consumer, so the theorem assumes `NoRival`: with `WaitSpawns` (CPython 3.11) there is
one waiter; without it (3.12 and later) there may be any number. This is exactly where the
property holds: with two waiters and 3.11 it is violated (section 6).

**ChatInbox** (`ChatInbox_proofs`). Every step changes the rows in one of three ways:
it admits one, marks one as submitted, or moves one to another state (`Changes`), and
each of these keeps a box `Good`: a marked row cannot be taken up again, and one row is
in flight. While the inbox is open the file equals memory; while it closes the file
is at most one such change ahead (`Lag`), so that a restart is such a change too. The
invariant adds what the pump and a reconciliation remember from before an await
(`PumpOK`, `ProbeOK`): that is needed because both come back to rows that others may
have moved. The safety properties follow, and `KeepsContract` maps each step to a
step of `InboxContract` or a stutter.

**TaskDispatch** (`TaskDispatch_proofs`). `IInv` has three parts. `HubOK`: the records in
memory and in the file are well formed, and those of Tasks in external hands are bound
to nothing, in both, which makes `Restart` harmless. `ControlOK`: the coroutines hold the
locks their places say (`LocksAreHeld`), one lemma for each way a coroutine can go on
(`ReturnsControl`, `QueuesControl`, `RecordsControl`, ...). `WorkIsOwn`: what is being worked on
belongs to the workspace. No part is inductive alone: that a step of a pass may
write to its Task needs `WorkIsOwn`, `WorkIsOwn` needs that a handoff finds the Task
unreserved and a reservation finds it the workspace's, and which Task is reserved is
read off the places in `ControlOK`. There is one lemma per action, `StepOK` combines
them; `TypeCorrect` and `HandedOffAlone` follow, for any number of Tasks, sessions,
requests and faults. So does `AbortsBlock`: whenever a pass waits for the mutation lock, it
waits for an abort that waits for it, so the circle of `dispatch_locks` is the only one.

*Claims.* `ClaimSurvives` speaks of the file; to be inductive it needs the same of memory
(`Bound`), and that no outbox holds a call of an attempt to come (`NoCallAhead`), so
that a new attempt starts with nothing sent. The rest is about the pass. It binds, resends
and writes back by the records of a list that may be old, and what makes this
harmless is what the list still knows of the sessions ahead: while recovery runs, a
session that the list gives to a Task still holds it, or has lost it (`Recovering`,
`Sending`); while Tasks are assigned, whoever has a prompt at a session, in memory or in
the list, is its holder in the list (`Assigning`), hence nobody is at a session that the
list says is free (`Choosing`), and neither a claim nor the write-back of the rename
takes anything from anybody. An abort does take a session during a pass, but it keeps
the mutation lock until its own pass has run, and recovery sends only with that lock
(`MutexOurs`): that an abort holds both locks, which makes it deadlock
(`dispatch_locks`), is also what this rests on. Most actions are instances of one lemma
(`KeepsClaims`) about steps that queue, prompt and unbind nothing (`Calm`); each step of
the pass has its own.

**ServiceLauncher** (`ServiceLauncher_proofs`). The launcher and the Hub share only the
mailbox and the process table, so the invariant `Linked` says what the launcher may conclude
from its own place: from the announcement until the next spawn its child is the Hub
that the operation is about (`op.from`), no Hub runs from the stop until the spawn, and
afterwards the Hub is a later one. It needs that no request can replace the operation
meanwhile (`ServedIsCurrent`), which in turn needs that only a Hub of this launcher
takes requests. `KeepsLifecycle` then maps each step to a step of `HubLifecycle` or a
stutter, and `FrontendKeptWhileServed` follows from "no Hub runs" during the swap.
`FrontendSurvives` has its own invariant on top, `Files`: for each place of the
launcher, in which of the directories a complete frontend is to be found, and after an
error what the next promotion will start from.

**RestartContinuation** (`RestartContinuation_proofs`). `ContinuationLife`: on the mailbox's
operation, the Hub and the launcher every step is one of `HubLifecycle` or a stutter. What
must hold when a continuation is delivered was decided long before, by another process,
under another operation or before the mailbox was emptied; so `IInv` says what each
part still knows of the others. `Lifecycle`: rows are there only for Hubs later than the
one that was asked. `RowOf`: a row is about a turn of the log that is not in flight, and
what it says is true. `AttemptOf`: an attempt's row is still claimed or was stopped, unless
a new operation emptied the box. `RuledOf`: no row, candidate or published continuation
that can still go ahead is about a turn that a Stop or an archive ruled out, unless the
veto is recorded. `StopOf`: a Stop that has revoked a row still looks for the
continuation that was already under way. There is a lemma per action;
`ContinuationTypes`, `ContinuationFollows` (continued at most once, never after newer
input), `ReportsAreTrue`, `StopsReach` and `BarredIsFinal` follow, for any number of
Chats, turns, restarts and faults.

**Only model-checked.** The liveness properties (`PendingTakenUp`,
`InterruptedHandoffSettles`, `StoppedInFlightSettles`, `LifecyclesAreObserved`,
`QueuedIsTakenUp`, `QueueAdvances`, `InDoubtSettles`, `RequestAnswered`, `ServiceReturns`,
`RowSettles`), since fairness and ENABLED are beyond the prover. Every invariant and action
property of the passing runs is a theorem, stated for every value of the constants.

## 6. Where code and its own words disagree

The first three have a run whose counterexample shows them (`PROJECT.json`,
`findings`); those of the second list were met while modelling and have none.

* `terminal_one_state`: "A `call_id` is always in exactly one of four states"
  (`wm/_messaging.py:16`). Terminal reconciliation awaits its queries without the pump
  lock, and `_mark_processing_as_uncertain` adds a call_id to uncertain whatever list
  it is in by then.
* `dispatch_locks`: an abort holds the mutation lock and waits for the dispatch lock
  (`wm/tasking/abort.py:356`), while the pass of another user's request holds the
  dispatch lock and waits for the mutation lock. Neither has a timeout. The monitor's
  dispatch step and its lifecycle step then time out in every round, although the
  comment at `wm/_workspaces.py:283` says that a failing dispatch must not skip the
  lifecycle observation.
* `dispatch_uncertain`: "the system MUST NOT auto-retry an uncertain dispatch"
  (`wm/dispatching/queue.py:252`), but a Task that stays queued for the session where
  its dispatch is uncertain is reassigned to a free session by the same pass
  (`queue.py:71`) and dispatched there under the same call_id.

Without a run:

* `task_mailbox.py:613`: sequence numbers, "workspace-monotonic" in
  `models/task_mailbox.py:52`, are reused after the newest events were purged and the
  hub restarted; a consumer that had acknowledged them never sees the new ones. As
  long as no Task is deleted this cannot happen (`KeptEventsAreUnread`).
* `directed_wait.py:62`: with CPython 3.11 a second long-poll on the same consumer can
  clear the Event before the first one's inner `Event.wait` has looked at it
  (`NoLostWake` fails with two waiters and `WaitSpawns`, so its run has one).
* `service_restart.py:141`: "Retries of a completed request are also idempotent", but
  the mailbox remembers the last operation only. If another request was made in
  between (and the Hub is the same, because both failed while they were prepared), the
  retry of the first starts a restart of its own.
* `restart_continuation.py:624`: a claim that was interrupted "is reported for manual
  attention and never retried by a subsequent process"
  (`docs/working-logs/2026-10-15-restart-chat-continuation.md:28`). It is never retried,
  but when a Hub dies by itself its launcher leaves too, and the Hub of the next launcher
  does not look at rows of another one: the report never comes, and the row counts
  as pending.
* `wm/messaging/retry.py:160`: an operator's retry writes back the records it read
  before its receipt query, so another call_id that became uncertain meanwhile
  leaves that list, and the Task's `consumer_ack_sequence` can move back.
* The Terminal reconciliation can take back, on disk too, the intent of a paste that is
  about to happen.
* `retry.py:345`: the save of a retry is outside the block that compensates a missing
  audit event ("MUST succeed before we pump", `retry.py:347`).
* `wm/dispatching/delivery.py:100-156`: neither the claim nor the sending of a dispatch
  looks at the Task's status again, and the record compares it with what it was at
  the claim. A Task that was aborted or edited during the awaits before the claim is
  bound, prompted and set to working all the same, even from REVIEW, which the table
  of `task_transitions.py` has no dispatch edge for. For the same reason nothing
  promises that a prompt is not pumped after its Task was aborted and handed off:
  pending calls are not mirrored on the Task.
* A DONE Task that is dragged to QUEUED (`wm/_task_updates.py`) keeps its attempt, so
  its dispatch reuses a call_id that may be delivered: it becomes WORKING without
  having been prompted.
* A session is taken from a Task whose prompt it was sent when a user moves another Task
  that is queued for it to WORKING, or an agent reports on one: `_assign_current_task`
  (`wm/monitoring/reports.py:328`) and the report intake bind the session without a look
  at what it holds. The first Task stays QUEUED without a session, so recovery does not
  find it, and a later pass may send its prompt elsewhere. This is what `lost` notes.
* `wm/dispatching/queue.py:210`: recovery sends by a list made before its awaits. A Task
  that is set to done, reopened and started again meanwhile is prompted at a session that no
  longer holds it.
* `wm/tmux/transport.py:445`: `_rename_session_for_task` writes the session record of
  the pass's list back after an await. A chain of some eight requests makes it restore
  a hold on a Task that has been handed off, and `_state.py:181-185` then refuses to
  start ("managed session references an initiator task"). No prompt loses its session
  by the write-back: that is part of what `ClaimHolds` proves.
* A scheduled occurrence that reconciliation has declared uncertain can go back to
  waiting in the pump's exception handler (`chat_message_inbox.py:646-671`), although
  scheduled uncertainty is meant to be history; it is cancelled then, never
  submitted.
* The comment at `wm/_workspaces.py:237-245` says that lease expiry moves call_ids back
  to pending, while `_expire_processing_leases` moves them to uncertain.
* `directed_wait.py:39` says that a wait ends when `poll` returns events, while a Task's
  own event does not wake the Task's own subtree waiter (`NoLostWake` therefore
  speaks of addressees and ancestors).
