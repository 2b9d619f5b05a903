------------------------- MODULE RestartContinuation -------------------------
(***************************************************************************)
(* Chats whose turn a planned restart interrupts: the old Hub captures     *)
(* them while it shuts down, the new Hub sends each one "Please continue." *)
(* in its conversation, at most once, unless a user decides otherwise.     *)
(*                                                                         *)
(* Composed with HubLifecycle: the targets are rows of the operation in    *)
(* the restart mailbox, and every check of an attempt reads the mailbox    *)
(* again.  A mailbox transaction does not yield; the steps of an attempt   *)
(* are separated by its awaits.  From its first check until its row is     *)
(* final an attempt holds the tab's Goal admission lock, which user input  *)
(* and the second half of a Stop take too.                                 *)
(*                                                                         *)
(* Abstractions: launch configuration and conversation of a tab are one    *)
(* flag; the five minutes are over when the variable late says so; a turn  *)
(* is its number in the tab's transcript.                                  *)
(***************************************************************************)
EXTENDS HubLifecycle

CONSTANTS
    Tab,       \* Chats that belong to their user (no Goal, no managed work)
    MaxTurns,  \* bound: turns of a Chat
    MaxFaults  \* bound: crashes, launchers killed, user actions on the side

ASSUME ContinuationAssumption == MaxTurns \in Nat /\ MaxFaults \in Nat

VARIABLES
    box,     \* chat_recovery of the operation: launcher, rows, vetoes
    late,    \* the captured rows are older than five minutes
    log,     \* the turns of each Chat, durable
    chat,    \* of each Chat: turns so far, in flight or not, archived, moved
    job,     \* continue_interrupted_chats of the running Hub
    att,     \* where the attempt on each Chat stands
    stop,    \* Stops that wait for the admission lock
    shut,    \* how far the Hub's shutdown is
    cand,    \* candidates of the capture that are not published yet
    barred,  \* ghost: turns whose continuation a user has ruled out
    faults   \* faults so far

mvars == <<box, late>>
cvars == <<log, chat>>
hvars == <<job, att, stop, shut, cand>>
vars == <<op, hub, launcher, mvars, cvars, hvars, barred, faults>>

Turn == 1 .. MaxTurns
Number == 0 .. MaxTurns
RowState == {"none", "pending", "claimed", "started", "skipped", "stopped", "failed"}
NoRow == [state |-> "none", by |-> 0, turn |-> 0, moved |-> FALSE]
EmptyBox == [there |-> FALSE, launcher |-> 0, rows |-> [t \in Tab |-> NoRow], vetoes |-> {}]
NoStop == [on |-> FALSE, want |-> 0, cont |-> FALSE]
NoJob == [read |-> FALSE, op |-> NoOp, todo |-> {}]

(* Type invariant: well-formed records; what a provider works on is the    *)
(* latest turn of its Chat, still open in the log of a running Hub.        *)
TypeOK ==
    /\ LifecycleOK
    /\ box \in [there : BOOLEAN, launcher : Launchers, vetoes : SUBSET Tab,
                rows : [Tab -> [state : RowState, by : Instance, turn : Number, moved : BOOLEAN]]]
    /\ late \in BOOLEAN
    /\ log \in [Tab -> [Turn -> [of : Number, given : BOOLEAN,
                                 fate : {"none", "open", "interrupted", "cancelled", "ended"}]]]
    /\ chat \in [Tab -> [last : Number, live : BOOLEAN, moved : BOOLEAN,
                         archived : {"no", "stopping", "yes"}]]
    /\ job \in [read : BOOLEAN, op : Op \cup {NoOp}, todo : SUBSET Tab]
    /\ att \in [Tab -> {"idle", "claimed", "checked", "published", "given"}]
    /\ stop \in [Tab -> [on : BOOLEAN, want : Number, cont : BOOLEAN]]
    /\ shut \in {"no", "quiesced", "capturing", "captured"}
    /\ cand \in [Tab -> [seen : BOOLEAN, turn : Number, moved : BOOLEAN]]
    /\ barred \in SUBSET (Tab \X Turn)
    /\ faults \in 0 .. MaxFaults
    /\ \A t \in Tab : chat[t].live =>
          Running /\ chat[t].last # 0 /\ log[t][chat[t].last].fate = "open"

Init ==
    /\ LInit
    /\ box = EmptyBox /\ late = FALSE
    /\ log = [t \in Tab |-> [n \in Turn |-> [of |-> 0, given |-> FALSE, fate |-> "none"]]]
    /\ chat = [t \in Tab |-> [last |-> 0, live |-> FALSE, moved |-> FALSE, archived |-> "no"]]
    /\ job = NoJob /\ att = [t \in Tab |-> "idle"] /\ stop = [t \in Tab |-> NoStop]
    /\ shut = "no" /\ cand = [t \in Tab |-> [seen |-> FALSE, turn |-> 0, moved |-> FALSE]]
    /\ barred = {} /\ faults = 0

Fault == faults < MaxFaults /\ faults' = faults + 1
Serving == hub.pc = "serving"
Alive == hub.pc \in {"boot", "serving"}
Locked(t) == att[t] \in {"checked", "published", "given"}
Unsettled == {"pending", "claimed"}

(* _operation_matches: whose shutdown this is, and for whom rows were left. *)
Capturing == op.resume /\ op.status = "restarting" /\ op.from = hub.id
Recovering == op.resume /\ op.status \in {"restarting", "succeeded"} /\ op.from # hub.id

Last(t) == chat[t].last
Fate(t) == IF Last(t) = 0 THEN "none" ELSE log[t][Last(t)].fate

(* Mutant: the transport keeps its turn in flight. *)
EndsInTheLog(t, fate) == log' = [log EXCEPT ![t][Last(t)].fate = fate] /\ UNCHANGED chat

(* The latest turn of t gets a terminal edge and leaves the provider. *)
Ends(t, fate) ==
    /\ log' = [log EXCEPT ![t][Last(t)].fate = fate]
    /\ chat' = [chat EXCEPT ![t].live = FALSE]

(* A row goes from "claimed" to its final state, if the operation that the *)
(* attempt belongs to is still the one in the mailbox.                     *)
Settled(t, state) ==
    IF op.id = job.op /\ box.there /\ box.rows[t].state = "claimed"
    THEN [box EXCEPT !.rows[t].state = state]
    ELSE box

(* ---------------------- the operation and the Hub ---------------------- *)

AskRestart ==
    /\ \E o \in Op, r \in BOOLEAN : Request(o, r)
    /\ box' = EmptyBox /\ late' = FALSE
    /\ UNCHANGED <<cvars, hvars, barred, faults>>

LauncherActs ==
    /\ Begin \/ Fail \/ Succeed \/ LauncherLeaves \/ LauncherGone \/ LauncherStarts
    /\ UNCHANGED <<mvars, cvars, hvars, barred, faults>>

LauncherIsKilled ==
    /\ Fault /\ LauncherKilled
    /\ UNCHANGED <<mvars, cvars, hvars, barred>>

NewHub ==
    /\ HubBoots
    /\ job' = NoJob /\ shut' = "no"
    /\ UNCHANGED <<mvars, cvars, att, stop, cand, barred, faults>>

HubIsUp ==
    /\ HubServes
    /\ UNCHANGED <<mvars, cvars, hvars, barred, faults>>

(* No new input is admitted, requests that are being served are cancelled, *)
(* and no attempt is begun any more.                                       *)
Quiesce ==
    /\ HubCloses
    /\ shut' = "quiesced"
    /\ stop' = [t \in Tab |-> NoStop]
    /\ job' = [job EXCEPT !.todo = {}]
    /\ UNCHANGED <<mvars, cvars, att, cand, barred, faults>>

(* The flag of an archived tab is saved once its runtime has stopped. *)
Forgotten ==
    /\ \E saved \in SUBSET Tab :
         chat' = [t \in Tab |-> [chat[t] EXCEPT !.live = FALSE,
                    !.archived = IF @ # "stopping" THEN @ ELSE IF t \in saved THEN "yes" ELSE "no"]]
    /\ att' = [t \in Tab |-> "idle"] /\ stop' = [t \in Tab |-> NoStop]
    /\ cand' = [t \in Tab |-> [seen |-> FALSE, turn |-> 0, moved |-> FALSE]]

(* A crash, or the kill that ends a shutdown that takes too long. *)
HubDies ==
    /\ Fault /\ HubEnds /\ Forgotten
    /\ UNCHANGED <<mvars, log, job, shut, barred>>

HubShutsDown ==
    /\ hub.pc = "closing" /\ shut = "captured"
    /\ \A t \in Tab : ~chat[t].live /\ att[t] = "idle"
    /\ HubEnds /\ Forgotten
    /\ UNCHANGED <<mvars, log, job, shut, barred, faults>>

(* ------------------------------- capture ------------------------------- *)

(* capture_interrupted_chats reads the mailbox and asks tab after tab. *)
CaptureBegins ==
    /\ shut = "quiesced" /\ hub.pc = "closing" /\ \A t \in Tab : att[t] = "idle"
    /\ shut' = IF Capturing /\ hub.by = launcher.id /\ ~box.there THEN "capturing" ELSE "captured"
    /\ UNCHANGED <<lvars, mvars, cvars, job, att, stop, cand, barred, faults>>

(* A Chat that waits for an answer or for capacity is not a candidate. *)
Visit(t) ==
    /\ shut = "capturing" /\ hub.pc = "closing" /\ ~cand[t].seen
    /\ \/ /\ chat[t].live /\ chat[t].archived = "no"
          /\ cand' = [cand EXCEPT ![t] = [seen |-> TRUE, turn |-> Last(t), moved |-> chat[t].moved]]
       \/ cand' = [cand EXCEPT ![t].seen = TRUE]
    /\ UNCHANGED <<lvars, mvars, cvars, job, att, stop, shut, barred, faults>>

(* The rows are published with one transaction, which re-reads the vetoes. *)
Captured(t) == cand[t].turn # 0 /\ t \notin box.vetoes

CapturePublishes ==
    /\ shut = "capturing" /\ hub.pc = "closing" /\ \A t \in Tab : cand[t].seen
    /\ shut' = "captured"
    /\ IF Capturing /\ ~box.there
       THEN /\ box' = [box EXCEPT !.there = TRUE, !.launcher = hub.by,
                         !.rows = [t \in Tab |-> IF Captured(t)
                                     THEN [state |-> "pending", by |-> 0,
                                           turn |-> cand[t].turn, moved |-> cand[t].moved]
                                     ELSE NoRow]]
            /\ late' = FALSE
       ELSE UNCHANGED mvars
    /\ UNCHANGED <<lvars, cvars, job, att, stop, cand, barred, faults>>

(* Stopping a tailer ends its turn as interrupted. *)
StopTailer(t) ==
    /\ shut = "captured" /\ hub.pc = "closing" /\ chat[t].live
    /\ Ends(t, "interrupted")
    /\ UNCHANGED <<lvars, mvars, hvars, barred, faults>>

Expire ==
    /\ box.there /\ ~late /\ late' = TRUE
    /\ UNCHANGED <<lvars, box, cvars, hvars, barred, faults>>

(* ----------------------------- continuation ---------------------------- *)

Consumable == Recovering /\ box.there /\ box.launcher = hub.by /\ launcher.id = box.launcher

(* Mutant: what has expired is left as it is. *)
GivenUpClaims(row) ==
    IF row.state = "claimed" /\ row.by # hub.id THEN [row EXCEPT !.state = "failed"] ELSE row

(* A claim of an earlier instance is never repeated; what is too old is    *)
(* claimed and given up at once.                                           *)
GivenUp(row) ==
    IF (row.state = "claimed" /\ row.by # hub.id) \/ (row.state = "pending" /\ late)
    THEN [row EXCEPT !.state = "failed"] ELSE row

ReadRecovery ==
    /\ Alive /\ ~job.read
    /\ IF Consumable
       THEN /\ box' = [box EXCEPT !.rows = [t \in Tab |-> GivenUp(box.rows[t])]]
            /\ job' = [read |-> TRUE, op |-> op.id,
                       todo |-> {t \in Tab : box.rows[t].state = "pending" /\ ~late}]
       ELSE /\ job' = [job EXCEPT !.read = TRUE]
            /\ UNCHANGED box
    /\ UNCHANGED <<lvars, late, cvars, att, stop, shut, cand, barred, faults>>

Claim(t) ==
    /\ Alive /\ t \in job.todo
    /\ job' = [job EXCEPT !.todo = @ \ {t}]
    /\ IF op.id = job.op /\ box.there /\ box.rows[t].state = "pending"
       THEN /\ box' = [box EXCEPT !.rows[t].state = "claimed", !.rows[t].by = hub.id]
            /\ att' = [att EXCEPT ![t] = "claimed"]
       ELSE UNCHANGED <<box, att>>
    /\ UNCHANGED <<lvars, late, cvars, stop, shut, cand, barred, faults>>

(* _assert_claim *)
ClaimHolds(t) ==
    /\ Consumable /\ ~late /\ op.id = job.op
    /\ t \notin box.vetoes
    /\ box.rows[t].state = "claimed" /\ box.rows[t].by = hub.id

(* Mutant: the guard of the delivery does not read the mailbox again. *)
SameChatAsBefore(t) == Alive /\ chat[t].archived = "no" /\ chat[t].moved = box.rows[t].moved

(* validate_identity, the check without an await that guards delivery. *)
SameChat(t) ==
    /\ ClaimHolds(t) /\ Alive
    /\ chat[t].archived = "no" /\ chat[t].moved = box.rows[t].moved

(* Mutant: only the captured turn is looked at. *)
WasCutOnce(t) == box.rows[t].turn # 0 /\ log[t][box.rows[t].turn].fate = "interrupted"

(* _verify_interruption: the captured turn is the latest one and was cut. *)
WasCut(t) == Last(t) = box.rows[t].turn /\ Fate(t) = "interrupted"

Skip(t) == box' = Settled(t, "skipped") /\ att' = [att EXCEPT ![t] = "idle"]

(* The admission lock is taken and the first check made. *)
Check(t) ==
    /\ att[t] = "claimed" /\ Alive
    /\ IF SameChat(t) /\ WasCut(t)
       THEN att' = [att EXCEPT ![t] = "checked"] /\ UNCHANGED box
       ELSE Skip(t)
    /\ UNCHANGED <<lvars, late, cvars, job, stop, shut, cand, barred, faults>>

(* Mutant: the row is final when the turn is in the log. *)
PublishAsStarted(t) ==
    /\ att[t] = "checked" /\ Alive
    /\ IF SameChat(t) /\ WasCut(t) /\ Last(t) < MaxTurns
       THEN /\ log' = [log EXCEPT ![t][Last(t) + 1] =
                         [of |-> box.rows[t].turn, given |-> FALSE, fate |-> "open"]]
            /\ chat' = [chat EXCEPT ![t].last = @ + 1]
            /\ box' = Settled(t, "started") /\ att' = [att EXCEPT ![t] = "published"]
       ELSE Skip(t) /\ UNCHANGED cvars
    /\ UNCHANGED <<lvars, late, job, stop, shut, cand, barred, faults>>

(* The provider is started in the same conversation; the check is repeated *)
(* under the send lock and the turn is made durable.                       *)
Publish(t) ==
    /\ att[t] = "checked" /\ Alive
    /\ \/ /\ SameChat(t) /\ WasCut(t) /\ Last(t) < MaxTurns
          /\ log' = [log EXCEPT ![t][Last(t) + 1] =
                       [of |-> box.rows[t].turn, given |-> FALSE, fate |-> "open"]]
          /\ chat' = [chat EXCEPT ![t].last = @ + 1]
          /\ att' = [att EXCEPT ![t] = "published"]
          /\ UNCHANGED box
       \/ ~(SameChat(t) /\ WasCut(t)) /\ Skip(t) /\ UNCHANGED cvars
       \/ /\ box' = Settled(t, "failed") /\ att' = [att EXCEPT ![t] = "idle"]
          /\ UNCHANGED cvars
    /\ UNCHANGED <<lvars, late, job, stop, shut, cand, barred, faults>>

(* Last check, then the input is written: accepted, in doubt or refused. *)
Deliver(t) ==
    /\ att[t] = "published"
    /\ \/ /\ SameChat(t)
          /\ log' = [log EXCEPT ![t][Last(t)].given = TRUE]
          /\ chat' = [chat EXCEPT ![t].live = TRUE]
          /\ \/ att' = [att EXCEPT ![t] = "given"] /\ UNCHANGED box
             \/ box' = Settled(t, "failed") /\ att' = [att EXCEPT ![t] = "idle"]
       \/ SameChat(t) /\ Ends(t, "ended")
          /\ box' = Settled(t, "failed") /\ att' = [att EXCEPT ![t] = "idle"]
       \/ ~SameChat(t) /\ Ends(t, "ended")
          /\ box' = Settled(t, IF Alive THEN "skipped" ELSE "failed")
          /\ att' = [att EXCEPT ![t] = "idle"]
    /\ UNCHANGED <<lvars, late, job, stop, shut, cand, barred, faults>>

Finish(t) ==
    /\ att[t] = "given"
    /\ box' = Settled(t, "started") /\ att' = [att EXCEPT ![t] = "idle"]
    /\ UNCHANGED <<lvars, late, cvars, job, stop, shut, cand, barred, faults>>

(* The shutdown cancels an attempt that has not reached its submission. *)
Cancel(t) ==
    /\ shut = "quiesced" /\ att[t] \in {"claimed", "checked", "published"}
    /\ box' = Settled(t, "failed") /\ att' = [att EXCEPT ![t] = "idle"]
    /\ UNCHANGED <<lvars, late, cvars, job, stop, shut, cand, barred, faults>>

(* ----------------------------- the users ------------------------------- *)

(* Input starts a turn; a turn that an earlier Hub left open ends first. *)
UserSends(t) ==
    /\ Serving /\ chat[t].archived = "no" /\ ~chat[t].live /\ ~Locked(t)
    /\ Last(t) < MaxTurns
    /\ log' = [log EXCEPT ![t] = [n \in Turn |->
                 IF n = Last(t) + 1 THEN [of |-> 0, given |-> TRUE, fate |-> "open"]
                 ELSE IF n = Last(t) /\ Fate(t) = "open"
                      THEN [log[t][n] EXCEPT !.fate = "interrupted"] ELSE log[t][n]]]
    /\ chat' = [chat EXCEPT ![t].last = @ + 1, ![t].live = TRUE]
    /\ UNCHANGED <<lvars, mvars, hvars, barred, faults>>

TurnEnds(t) ==
    /\ chat[t].live /\ Ends(t, "ended")
    /\ UNCHANGED <<lvars, mvars, hvars, barred, faults>>

(* A browser opens the stream: the turn of an earlier Hub is terminated. *)
StreamOpens(t) ==
    /\ Serving /\ Fate(t) = "open" /\ ~chat[t].live /\ ~Locked(t)
    /\ chat[t].archived = "no"
    /\ Ends(t, "interrupted")
    /\ UNCHANGED <<lvars, mvars, hvars, barred, faults>>

(* cancel_pending_continuation, for the turn that the user sees (0: any).  *)
Names(t, want) ==
    /\ (Recovering \/ Capturing) /\ box.there
    /\ \/ want = 0 /\ box.rows[t].state \in Unsettled
       \/ /\ want # 0 /\ box.rows[t].state \in Unsettled \cup {"started"}
          /\ \/ want = box.rows[t].turn
             \/ want <= Last(t) /\ log[t][want].of = box.rows[t].turn /\ box.rows[t].turn # 0

(* The code's "skipped", with the reason that the user stopped it. *)
Revoke(t, want) ==
    IF Names(t, want) THEN [box EXCEPT !.rows[t].state = "stopped"] ELSE box

RuledOut(t) == IF box.rows[t].turn = 0 THEN {} ELSE {<<t, box.rows[t].turn>>}

(* The Stop of a user, up to the admission lock: it revokes the row first, *)
(* and a Stop of the interrupted turn becomes one of its continuation.     *)
StopBegins(t, want) ==
    /\ Fault
    /\ Serving /\ ~stop[t].on /\ want <= Last(t) /\ Last(t) > 0
    /\ box' = Revoke(t, want)
    /\ stop' = [stop EXCEPT ![t] =
         IF want # 0 /\ Names(t, want) THEN [on |-> TRUE, want |-> box.rows[t].turn, cont |-> TRUE]
         ELSE [on |-> TRUE, want |-> want, cont |-> FALSE]]
    /\ barred' = IF Names(t, want) THEN barred \cup RuledOut(t) ELSE barred
    /\ UNCHANGED <<lvars, late, cvars, job, att, shut, cand>>

(* Mutant: the Stop still looks for the turn that the user saw. *)
MatchesTurn(t) == stop[t].want \in {0, Last(t)}

Matches(t) ==
    IF stop[t].cont THEN log[t][Last(t)].of = stop[t].want ELSE stop[t].want \in {0, Last(t)}

(* With the lock: the turn in flight, or one left open, ends if it matches. *)
StopEnds(t) ==
    /\ stop[t].on /\ ~Locked(t)
    /\ stop' = [stop EXCEPT ![t] = NoStop]
    /\ IF Fate(t) = "open" /\ Matches(t)
       THEN /\ Ends(t, IF chat[t].live THEN "cancelled" ELSE "interrupted")
            /\ barred' = barred \cup {<<t, Last(t)>>}
       ELSE UNCHANGED <<cvars, barred>>
    /\ UNCHANGED <<lvars, mvars, job, att, shut, cand, faults>>

(* archive_tab: vetoes recovery before the runtime is stopped, which ends  *)
(* the turn as if a restart had interrupted it.                            *)
ArchiveBegins(t) ==
    /\ Fault
    /\ Running /\ chat[t].archived = "no"
    /\ chat' = [chat EXCEPT ![t].archived = "stopping"]
    /\ box' = IF ~(Recovering \/ Capturing) THEN box
              ELSE [Revoke(t, 0) EXCEPT !.vetoes = @ \cup {t}]
    /\ barred' = barred \cup {<<t, n>> : n \in 1 .. Last(t)}
    /\ UNCHANGED <<lvars, late, log, job, att, stop, shut, cand>>

ArchiveEnds(t) ==
    /\ Running /\ chat[t].archived = "stopping"
    /\ chat' = [chat EXCEPT ![t].archived = "yes", ![t].live = FALSE]
    /\ log' = IF chat[t].live THEN [log EXCEPT ![t][Last(t)].fate = "interrupted"] ELSE log
    /\ UNCHANGED <<lvars, mvars, hvars, barred, faults>>

Unarchive(t) ==
    /\ Running /\ chat[t].archived = "yes"
    /\ chat' = [chat EXCEPT ![t].archived = "no"]
    /\ UNCHANGED <<lvars, mvars, log, hvars, barred, faults>>

(* Another model or another conversation is chosen. *)
Move(t) ==
    /\ Fault
    /\ Serving /\ ~chat[t].moved
    /\ chat' = [chat EXCEPT ![t].moved = TRUE]
    /\ UNCHANGED <<lvars, mvars, log, hvars, barred>>

Attempts(t) == Claim(t) \/ Check(t) \/ Publish(t) \/ Deliver(t) \/ Finish(t) \/ Cancel(t)
Users(t) ==
    \/ UserSends(t) \/ TurnEnds(t) \/ StreamOpens(t)
    \/ (\E want \in Number : StopBegins(t, want)) \/ StopEnds(t)
    \/ ArchiveBegins(t) \/ ArchiveEnds(t) \/ Unarchive(t) \/ Move(t)

Next ==
    \/ AskRestart \/ LauncherActs \/ LauncherIsKilled
    \/ NewHub \/ HubIsUp \/ Quiesce \/ HubDies \/ HubShutsDown
    \/ CaptureBegins \/ CapturePublishes \/ Expire \/ ReadRecovery
    \/ \E t \in Tab : Visit(t) \/ StopTailer(t) \/ Attempts(t) \/ Users(t)

Spec == Init /\ [][Next]_vars

(* The Hub's event loop serves its tasks: the reader of the mailbox, the   *)
(* attempts, and Stops that wait for the lock they hold.                   *)
FairSpec ==
    /\ Spec
    /\ WF_vars(ReadRecovery)
    /\ \A t \in Tab : WF_vars(Attempts(t)) /\ WF_vars(StopEnds(t))

(* ------------------------------ properties ----------------------------- *)

(* A continuation follows the turn that it continues at once, and that     *)
(* turn was cut off: newer input of the user always wins, and no turn is   *)
(* continued twice, whatever restarts, crashes and attempts came between.  *)
ContinuesTheLast ==
    \A t \in Tab, m \in Turn : log[t][m].of # 0 =>
        log[t][m].of = m - 1 /\ log[t][m - 1].fate = "interrupted"

(* What the rows say is true: a Chat reported as continued was given its   *)
(* input, and one that waits or was passed over was not.                   *)
Continued(t) == \E m \in Turn : log[t][m].given /\ log[t][m].of = box.rows[t].turn
ReportIsTrue ==
    \A t \in Tab : box.there /\ box.rows[t].turn # 0 =>
        /\ box.rows[t].state = "started" => Continued(t)
        /\ box.rows[t].state \in {"pending", "skipped"} => ~Continued(t)

(* A user's word is final: once a Stop or an archive has ruled out that a  *)
(* turn is continued, no attempt delivers its continuation, not even after *)
(* the Chat is brought back from the archive or another Hub takes over.    *)
BarredStaysBarred ==
    [][\A t \in Tab, m \in Turn :
         ~log[t][m].given /\ log'[t][m].given => <<t, log'[t][m].of>> \notin barred]_vars

(* A Stop that has been served leaves no continuation running: it reaches  *)
(* the one that an attempt delivered while the Stop waited for the lock.   *)
StopReachesContinuation ==
    \A t \in Tab :
        Serving /\ chat[t].archived = "no" /\ chat[t].live /\ ~stop[t].on
        /\ box.rows[t].state = "stopped" => log[t][Last(t)].of # box.rows[t].turn

(* A Chat that was captured learns what became of it, as long as the Hub   *)
(* that may continue it runs and the mailbox still speaks of its restart.  *)
RowSettles ==
    \A t \in Tab :
        (Alive /\ Consumable /\ box.rows[t].state \in Unsettled)
            ~> (box.rows[t].state \notin Unsettled \/ ~Consumable \/ ~Alive)
=============================================================================
