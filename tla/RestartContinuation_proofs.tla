---------------------- MODULE RestartContinuation_proofs ----------------------
(***************************************************************************)
(* Proofs about the continuation of interrupted Chats, for any number of   *)
(* Chats, turns, restarts, Hubs, launchers and faults.                     *)
(*                                                                         *)
(* What has to hold at a delivery was decided long before it, by another   *)
(* process, under another operation or before the mailbox was emptied.     *)
(* The inductive invariant says what each part still knows of the others:  *)
(* the operation of the Hub, the row of its operation, an attempt and a    *)
(* Stop of the row they are about, a candidate of its turn, and the set of *)
(* turns that are ruled out of the rows that could still continue them.    *)
(***************************************************************************)
EXTENDS RestartContinuation, TLAPS

(* What an operation that may be consumed or fulfilled looks like. *)
OpLives == op.status \in {"restarting", "succeeded"}

(* The operation, the Hub it is about and the launcher.  A Hub that closes *)
(* sees no preparation come to an end; rows are there only for Hubs that   *)
(* come after the one that was asked.                                      *)
LifeInv ==
    /\ op.from <= hub.id
    /\ op.status = "succeeded" => op.from # hub.id
    /\ hub.pc = "closing" /\ op.status = "preparing" => launcher.pc # "up"

Lifecycle ==
    /\ LifeInv
    /\ box.there => op.resume /\ op.status # "preparing"
    /\ box.there /\ Alive => op.from # hub.id

(* A shutdown begins with the loss of the "serving" place, and what is     *)
(* still to do was read in this process.                                   *)
Process ==
    /\ Alive => shut = "no"
    /\ job.todo # {} => job.read

(* What ends with the process, and what a shutdown has waited for. *)
ProcessOf(t) ==
    /\ hub.pc = "none" => att[t] = "idle"
    /\ shut \in {"capturing", "captured"} => att[t] = "idle"
    /\ att[t] # "idle" => job.read
    /\ stop[t].on => Alive
    /\ cand[t].turn # 0 => hub.pc = "closing" /\ cand[t].turn = Last(t)
    /\ chat[t].archived = "yes" => ~chat[t].live

(* The log has nothing beyond the latest turn, and ContinuesTheLast. *)
LogOf(t) ==
    \A m \in Turn :
        /\ m > Last(t) => log[t][m].of = 0 /\ ~log[t][m].given
        /\ log[t][m].of # 0 => log[t][m].of = m - 1 /\ log[t][m - 1].fate = "interrupted"

(* A row is there for a turn of the log, it is not the one in flight, and  *)
(* what it says is true.                                                   *)
RowOf(t) ==
    /\ box.rows[t].turn = 0 <=> box.rows[t].state = "none"
    /\ box.rows[t].turn # 0 => box.there
    /\ box.rows[t].turn <= Last(t)
    /\ box.rows[t].turn # 0 /\ Alive /\ chat[t].live => box.rows[t].turn # Last(t)
    /\ box.rows[t].state = "started" => Continued(t)
    /\ box.rows[t].state \in {"pending", "skipped"} => ~Continued(t)

(* An attempt knows its row, unless a new operation has emptied the box.   *)
AttemptOf(t) ==
    /\ att[t] # "idle" => box.rows[t].state \in {"none", "claimed", "stopped"}
    /\ att[t] \in {"claimed", "checked", "published"} /\ box.rows[t].turn # 0 => ~Continued(t)
    /\ att[t] = "published" => Last(t) # 0 /\ Fate(t) = "open" /\ ~chat[t].live
    /\ att[t] \in {"published", "given"} /\ box.rows[t].turn # 0 =>
          Last(t) = box.rows[t].turn + 1 /\ log[t][Last(t)].of = box.rows[t].turn
    /\ att[t] = "given" => Last(t) # 0 /\ log[t][Last(t)].given

(* A row that can still be consumed is about no turn that was ruled out,   *)
(* and neither is what may become such a row or its continuation.          *)
Vetoed(t) == t \in box.vetoes \/ ~OpLives
RuledOf(t) ==
    /\ \A n \in Turn : <<t, n>> \in barred => n <= Last(t)
    /\ chat[t].live /\ chat[t].archived = "no" => <<t, Last(t)>> \notin barred
    /\ box.rows[t].state \in Unsettled /\ <<t, box.rows[t].turn>> \in barred => Vetoed(t)
    /\ cand[t].turn # 0 /\ <<t, cand[t].turn>> \in barred => t \in box.vetoes \/ ~Capturing
    /\ att[t] = "published" /\ box.rows[t].state = "claimed" /\ <<t, Last(t)>> \in barred =>
          Vetoed(t)
    /\ stop[t].on /\ box.rows[t].state \in Unsettled
          /\ (stop[t].cont \/ stop[t].want \in {0, box.rows[t].turn}) => Vetoed(t)

(* A Stop that has revoked a row still looks for its continuation. *)
StopOf(t) ==
    Alive /\ chat[t].archived = "no" /\ chat[t].live /\ box.rows[t].state = "stopped"
    /\ log[t][Last(t)].of = box.rows[t].turn =>
        stop[t].on /\ stop[t].want = IF stop[t].cont THEN box.rows[t].turn ELSE 0

ChatInv(t) ==
    ProcessOf(t) /\ LogOf(t) /\ RowOf(t) /\ AttemptOf(t) /\ RuledOf(t) /\ StopOf(t)

(* The inductive invariant. *)
IInv == TypeOK /\ Lifecycle /\ Process /\ \A t \in Tab : ChatInv(t)

(* ------------------------ what the helpers do -------------------------- *)

(* The bounds are numbers. *)
LEMMA Bounds ==
    MaxTurns \in Nat /\ MaxFaults \in Nat /\ MaxInstances \in Nat /\ MaxLaunchers \in Nat
  BY ContinuationAssumption, LifecycleAssumption

Entry == [of : Number, given : BOOLEAN,
          fate : {"none", "open", "interrupted", "cancelled", "ended"}]
ChatRecord == [last : Number, live : BOOLEAN, moved : BOOLEAN, archived : {"no", "stopping", "yes"}]
Row == [state : RowState, by : Instance, turn : Number, moved : BOOLEAN]
Box == [there : BOOLEAN, launcher : Launchers, vetoes : SUBSET Tab, rows : [Tab -> Row]]

(* Numbers of turns are natural numbers. *)
LEMMA Counting == TypeOK => \A t \in Tab : Last(t) \in Nat /\ box.rows[t].turn \in Nat
  BY Bounds DEF TypeOK, Number, Last

(* An edge at the end of a turn changes its fate and takes it out of       *)
(* flight; nothing else of the log and of the Chats moves.                 *)
LEMMA EndsEffect ==
  ASSUME TypeOK, NEW t \in Tab, Last(t) # 0, NEW fate \in {"interrupted", "cancelled", "ended"},
         Ends(t, fate)
  PROVE  /\ log' \in [Tab -> [Turn -> Entry]]
         /\ chat' = [chat EXCEPT ![t].live = FALSE]
         /\ chat' \in [Tab -> ChatRecord]
         /\ \A u \in Tab : chat'[u].last = chat[u].last /\ (chat'[u].live => u # t /\ chat[u].live)
                            /\ chat'[u].archived = chat[u].archived
         /\ \A u \in Tab, n \in Turn :
               /\ log'[u][n].of = log[u][n].of
               /\ log'[u][n].given = log[u][n].given
               /\ log'[u][n].fate = IF u = t /\ n = Last(t) THEN fate ELSE log[u][n].fate
  <1>1. log \in [Tab -> [Turn -> Entry]] /\ chat \in [Tab -> ChatRecord]
    BY DEF TypeOK, Entry, ChatRecord
  <1>2. Last(t) \in Turn
    BY <1>1, Bounds DEF ChatRecord, Last, Number, Turn
  <1>3. log[t][Last(t)] \in Entry /\ chat[t] \in ChatRecord
    BY <1>1, <1>2
  <1> DEFINE e == [log[t][Last(t)] EXCEPT !.fate = fate]
  <1>4. e \in Entry /\ e.of = log[t][Last(t)].of /\ e.given = log[t][Last(t)].given /\ e.fate = fate
    BY <1>3 DEF Entry
  <1>5. log' = [log EXCEPT ![t] = [log[t] EXCEPT ![Last(t)] = e]]
    BY DEF Ends
  <1>6. [log[t] EXCEPT ![Last(t)] = e] \in [Turn -> Entry]
    BY <1>1, <1>4
  <1>7. log' \in [Tab -> [Turn -> Entry]]
    BY <1>1, <1>5, <1>6
  <1>8. chat' = [chat EXCEPT ![t].live = FALSE]
    BY DEF Ends
  <1>9. [chat[t] EXCEPT !.live = FALSE] \in ChatRecord
    BY <1>3 DEF ChatRecord
  <1>10. chat' \in [Tab -> ChatRecord]
    BY <1>1, <1>8, <1>9
  <1>11. \A u \in Tab : chat'[u].last = chat[u].last /\ (chat'[u].live => u # t /\ chat[u].live)
                        /\ chat'[u].archived = chat[u].archived
    BY <1>1, <1>8 DEF ChatRecord
  <1>12. ASSUME NEW u \in Tab, NEW n \in Turn
         PROVE  /\ log'[u][n].of = log[u][n].of
                /\ log'[u][n].given = log[u][n].given
                /\ log'[u][n].fate = IF u = t /\ n = Last(t) THEN fate ELSE log[u][n].fate
    <2>1. CASE u = t /\ n = Last(t)
      <3>1. log'[u][n] = e
        BY <1>1, <1>2, <1>5, <2>1
      <3> QED BY <3>1, <1>4, <2>1
    <2>2. CASE ~(u = t /\ n = Last(t))
      <3>1. log'[u][n] = log[u][n]
        BY <1>1, <1>2, <1>5, <2>2
      <3> QED BY <3>1, <2>2
    <2> QED BY <2>1, <2>2
  <1> QED BY <1>7, <1>8, <1>10, <1>11, <1>12

(* Settling a row changes its state, if it is claimed, and nothing else.   *)
LEMMA SettledEffect ==
  ASSUME TypeOK, NEW t \in Tab, NEW state \in {"started", "skipped", "failed"},
         box' = Settled(t, state)
  PROVE  /\ box' \in Box
         /\ box'.there = box.there /\ box'.vetoes = box.vetoes
         /\ \A u \in Tab :
               /\ box'.rows[u].turn = box.rows[u].turn
               /\ \/ box'.rows[u].state = box.rows[u].state
                  \/ u = t /\ box.rows[t].state = "claimed" /\ box'.rows[t].state = state
  <1>1. box \in Box
    BY DEF TypeOK, Box, Row
  <1>2. CASE box' = box
    BY <1>1, <1>2
  <1>3. CASE box.rows[t].state = "claimed" /\ box' = [box EXCEPT !.rows[t].state = state]
    <2> DEFINE r == [box.rows[t] EXCEPT !.state = state]
    <2>1. box.rows \in [Tab -> Row] /\ box.rows[t] \in Row
      BY <1>1 DEF Box
    <2>2. r \in Row /\ r.turn = box.rows[t].turn /\ r.state = state
      BY <2>1 DEF Row, RowState
    <2>3. box' = [box EXCEPT !.rows = [box.rows EXCEPT ![t] = r]]
      BY <1>3
    <2>4. [box.rows EXCEPT ![t] = r] \in [Tab -> Row]
      BY <2>1, <2>2
    <2>5. box' \in Box /\ box'.there = box.there /\ box'.vetoes = box.vetoes
             /\ box'.rows = [box.rows EXCEPT ![t] = r]
      BY <1>1, <2>3, <2>4 DEF Box
    <2> QED BY <2>1, <2>2, <2>5, <1>3
  <1> QED BY <1>2, <1>3 DEF Settled

(* Revoking a row changes its state, if the row is named, and nothing else. *)
LEMMA RevokeEffect ==
  ASSUME TypeOK, NEW t \in Tab, NEW want \in Number
  PROVE  /\ Revoke(t, want) \in Box
         /\ Revoke(t, want).there = box.there /\ Revoke(t, want).vetoes = box.vetoes
         /\ \A u \in Tab :
               /\ Revoke(t, want).rows[u].turn = box.rows[u].turn
               /\ Revoke(t, want).rows[u].state =
                     IF u = t /\ Names(t, want) THEN "stopped" ELSE box.rows[u].state
  <1>1. box \in Box
    BY DEF TypeOK, Box, Row
  <1>2. CASE ~Names(t, want)
    BY <1>1, <1>2 DEF Revoke
  <1>3. CASE Names(t, want)
    <2> DEFINE r == [box.rows[t] EXCEPT !.state = "stopped"]
    <2>1. box.rows \in [Tab -> Row] /\ box.rows[t] \in Row
      BY <1>1 DEF Box
    <2>2. r \in Row /\ r.turn = box.rows[t].turn /\ r.state = "stopped"
      BY <2>1 DEF Row, RowState
    <2>3. Revoke(t, want) = [box EXCEPT !.rows = [box.rows EXCEPT ![t] = r]]
      BY <1>3 DEF Revoke
    <2>4. [box.rows EXCEPT ![t] = r] \in [Tab -> Row]
      BY <2>1, <2>2
    <2>5. /\ Revoke(t, want) \in Box
          /\ Revoke(t, want).there = box.there /\ Revoke(t, want).vetoes = box.vetoes
          /\ Revoke(t, want).rows = [box.rows EXCEPT ![t] = r]
      BY <1>1, <2>3, <2>4 DEF Box
    <2> QED BY <2>1, <2>2, <2>5, <1>3
  <1> QED BY <1>2, <1>3

(* Every step is one of the life of the Hub, or leaves it alone. *)
LEMMA NextIsLife == [Next]_vars => [LNext]_lvars
  <1>1. \A t \in Tab : Attempts(t) \/ Users(t) => UNCHANGED lvars
    BY DEF Attempts, Users, Claim, Check, Publish, Deliver, Finish, Cancel, UserSends, TurnEnds,
           StreamOpens, StopBegins, StopEnds, ArchiveBegins, ArchiveEnds, Unarchive, Move
  <1>2. \A t \in Tab : Visit(t) \/ StopTailer(t) => UNCHANGED lvars
    BY DEF Visit, StopTailer
  <1>3. CaptureBegins \/ CapturePublishes \/ Expire \/ ReadRecovery => UNCHANGED lvars
    BY DEF CaptureBegins, CapturePublishes, Expire, ReadRecovery
  <1>4. AskRestart \/ LauncherActs \/ LauncherIsKilled \/ NewHub \/ HubIsUp \/ Quiesce
           \/ HubDies \/ HubShutsDown => LNext
    BY DEF AskRestart, LauncherActs, LauncherIsKilled, NewHub, HubIsUp, Quiesce, HubDies,
           HubShutsDown, LNext
  <1>5. UNCHANGED vars => UNCHANGED lvars
    BY DEF vars, lvars
  <1> QED BY <1>1, <1>2, <1>3, <1>4, <1>5 DEF Next

(* The life of the Hub keeps its types, and its own part of the invariant. *)
LEMMA LifeStep ==
  ASSUME LifecycleOK, LifeInv, [LNext]_lvars
  PROVE  LifecycleOK' /\ LifeInv'
  <1> USE Bounds DEF LifecycleOK, LifeInv, Instance, Launchers, Status, Active
  <1>1. CASE \E o \in Op, r \in BOOLEAN : Request(o, r)
    BY <1>1 DEF Request
  <1>2. CASE Begin \/ Fail \/ Succeed
    BY <1>2 DEF Begin, Fail, Succeed
  <1>3. CASE HubBoots
    BY <1>3 DEF HubBoots, Running
  <1>4. CASE HubServes \/ HubEnds
    BY <1>4 DEF HubServes, HubEnds
  <1>5. CASE HubCloses
    BY <1>5 DEF HubCloses
  <1>6. CASE LauncherLeaves \/ LauncherKilled
    BY <1>6 DEF LauncherLeaves, LauncherKilled
  <1>7. CASE LauncherGone \/ LauncherStarts
    BY <1>7 DEF LauncherGone, LauncherStarts
  <1>8. CASE UNCHANGED lvars
    BY <1>8 DEF lvars
  <1> QED BY <1>1, <1>2, <1>3, <1>4, <1>5, <1>6, <1>7, <1>8 DEF LNext

(* The composition lives as HubLifecycle allows. *)
THEOREM ContinuationLife == Spec => LSpec
  <1>1. Init => LInit
    BY DEF Init
  <1> QED BY <1>1, NextIsLife, PTL DEF Spec, LSpec

(* ------------------------------- types --------------------------------- *)

LogType == [Tab -> [Turn -> Entry]]
ChatType == [Tab -> ChatRecord]
JobType == [read : BOOLEAN, op : Op \cup {NoOp}, todo : SUBSET Tab]
AttType == [Tab -> {"idle", "claimed", "checked", "published", "given"}]
StopType == [Tab -> [on : BOOLEAN, want : Number, cont : BOOLEAN]]
ShutType == {"no", "quiesced", "capturing", "captured"}
CandRecord == [seen : BOOLEAN, turn : Number, moved : BOOLEAN]
CandType == [Tab -> CandRecord]

(* What a provider works on is the latest turn, open in a running Hub. *)
InFlight ==
    \A t \in Tab : chat[t].live =>
        Running /\ Last(t) # 0 /\ log[t][Last(t)].fate = "open"

(* The type invariant, by the names of its parts, in a state and the next. *)
LEMMA TypeParts ==
    TypeOK <=> /\ LifecycleOK /\ box \in Box /\ late \in BOOLEAN /\ log \in LogType
               /\ chat \in ChatType /\ job \in JobType /\ att \in AttType /\ stop \in StopType
               /\ shut \in ShutType /\ cand \in CandType /\ barred \in SUBSET (Tab \X Turn)
               /\ faults \in 0 .. MaxFaults /\ InFlight
  BY DEF TypeOK, Box, Row, LogType, Entry, ChatType, ChatRecord, JobType, AttType, StopType,
         ShutType, CandType, CandRecord, InFlight, Last

(* As TypeParts, of the state that a step leads to. *)
LEMMA TypePartsNext ==
    TypeOK' <=> /\ LifecycleOK' /\ box' \in Box /\ late' \in BOOLEAN /\ log' \in LogType
                /\ chat' \in ChatType /\ job' \in JobType /\ att' \in AttType
                /\ stop' \in StopType /\ shut' \in ShutType /\ cand' \in CandType
                /\ barred' \in SUBSET (Tab \X Turn) /\ faults' \in 0 .. MaxFaults /\ InFlight'
  BY DEF TypeOK, Box, Row, LogType, Entry, ChatType, ChatRecord, JobType, AttType, StopType,
         ShutType, CandType, CandRecord, InFlight, Last

(* An empty box is a box. *)
LEMMA EmptyBoxType == EmptyBox \in Box /\ NoStop \in [on : BOOLEAN, want : Number, cont : BOOLEAN]
                      /\ NoJob \in JobType
  BY Bounds DEF EmptyBox, Box, Row, NoRow, RowState, Instance, Number, Launchers, NoStop,
                NoJob, JobType

(* An edge at the end of a turn keeps the types of the log and the Chats.  *)
LEMMA EndsType ==
  ASSUME TypeOK, NEW t \in Tab, Last(t) # 0, NEW fate \in {"interrupted", "cancelled", "ended"},
         Ends(t, fate), UNCHANGED hub
  PROVE  log' \in LogType /\ chat' \in ChatType /\ InFlight'
  <1>1. log' \in LogType /\ chat' \in ChatType
    BY EndsEffect DEF LogType, ChatType
  <1>2. ASSUME NEW u \in Tab, chat'[u].live
        PROVE  Running' /\ Last(u)' # 0 /\ log'[u][Last(u)'].fate = "open"
    <2>1. u # t /\ chat[u].live /\ Last(u)' = Last(u)
      BY <1>2, EndsEffect DEF Last
    <2>2. Running /\ Last(u) # 0 /\ log[u][Last(u)].fate = "open" /\ Last(u) \in Number
      BY <2>1, TypeParts DEF InFlight, ChatType, ChatRecord, Last
    <2>3. Last(u) \in Turn
      BY <2>2, Bounds DEF Number, Turn
    <2> QED BY <2>1, <2>2, <2>3, EndsEffect DEF Running
  <1> QED BY <1>1, <1>2 DEF InFlight

(* The steps of the operation and of the process. *)
LEMMA TypeProcess ==
  ASSUME TypeOK, LifecycleOK',
         \/ AskRestart \/ LauncherActs \/ LauncherIsKilled \/ NewHub \/ HubIsUp
         \/ Quiesce \/ HubDies \/ HubShutsDown
  PROVE  TypeOK'
  <1> USE TypeParts, TypePartsNext, Bounds
  <1>1. CASE AskRestart
    BY <1>1, EmptyBoxType DEF AskRestart, Request, InFlight, Running, Last, cvars, hvars
  <1>2. CASE LauncherActs \/ LauncherIsKilled
    <2>1. UNCHANGED <<hub, mvars, cvars, hvars, barred>> /\ faults' \in 0 .. MaxFaults
      BY <1>2 DEF LauncherActs, LauncherIsKilled, Fault, Begin, Fail, Succeed, LauncherLeaves,
                  LauncherGone, LauncherKilled, LauncherStarts
    <2> QED BY <2>1 DEF InFlight, Running, Last, mvars, cvars, hvars
  <1>3. CASE NewHub
    BY <1>3, EmptyBoxType DEF NewHub, HubBoots, InFlight, Running, Last, mvars, cvars, ShutType
  <1>4. CASE HubIsUp
    BY <1>4 DEF HubIsUp, HubServes, InFlight, Running, Last, mvars, cvars, hvars
  <1>5. CASE Quiesce
    <2>1. job' \in JobType /\ stop' \in StopType /\ shut' \in ShutType
      BY <1>5, EmptyBoxType DEF Quiesce, JobType, StopType, ShutType
    <2> QED BY <1>5, <2>1 DEF Quiesce, HubCloses, InFlight, Running, Last, mvars, cvars
  <1>6. CASE HubDies \/ HubShutsDown
    <2>1. PICK saved \in SUBSET Tab : chat' = [t \in Tab |-> [chat[t] EXCEPT !.live = FALSE,
                 !.archived = IF @ # "stopping" THEN @ ELSE IF t \in saved THEN "yes" ELSE "no"]]
      BY <1>6 DEF HubDies, HubShutsDown, Forgotten
    <2>2. \A t \in Tab : chat[t] \in ChatRecord
      BY DEF ChatType
    <2>3. \A t \in Tab : [chat[t] EXCEPT !.live = FALSE,
             !.archived = IF @ # "stopping" THEN @ ELSE IF t \in saved THEN "yes" ELSE "no"]
               \in [last : Number, live : {FALSE}, moved : BOOLEAN, archived : {"no", "stopping", "yes"}]
      BY <2>2 DEF ChatRecord
    <2>4. chat' \in ChatType /\ \A t \in Tab : ~chat'[t].live
      BY <2>1, <2>3 DEF ChatType, ChatRecord
    <2>5. att' \in AttType /\ stop' \in StopType /\ cand' \in CandType
      <3>1. Forgotten
        BY <1>6 DEF HubDies, HubShutsDown
      <3>2. att' \in AttType
        BY <3>1 DEF Forgotten, AttType
      <3>3. stop' \in StopType
        BY <3>1, EmptyBoxType DEF Forgotten, StopType
      <3>4. cand' = [t \in Tab |-> [seen |-> FALSE, turn |-> 0, moved |-> FALSE]]
        BY <3>1 DEF Forgotten
      <3>5. [seen |-> FALSE, turn |-> 0, moved |-> FALSE] \in CandRecord
        BY DEF CandRecord, Number
      <3>6. cand' \in CandType
        BY <3>4, <3>5 DEF CandType
      <3> QED BY <3>2, <3>3, <3>6
    <2>6. UNCHANGED <<mvars, log, job, shut, barred>> /\ faults' \in 0 .. MaxFaults
      BY <1>6 DEF HubDies, HubShutsDown, Fault
    <2> QED BY <2>4, <2>5, <2>6 DEF InFlight, mvars
  <1> QED BY <1>1, <1>2, <1>3, <1>4, <1>5, <1>6

(* The steps of the capture and of the reader of the mailbox. *)
LEMMA TypeCapture ==
  ASSUME TypeOK, LifecycleOK',
         \/ CaptureBegins \/ CapturePublishes \/ Expire \/ ReadRecovery
         \/ \E t \in Tab : Visit(t) \/ StopTailer(t)
  PROVE  TypeOK'
  <1> USE TypeParts, TypePartsNext, Bounds
  <1>1. CASE CaptureBegins
    BY <1>1 DEF CaptureBegins, InFlight, Running, Last, lvars, mvars, cvars, ShutType
  <1>2. CASE CapturePublishes
    <2> DEFINE rows == [t \in Tab |-> IF Captured(t)
                          THEN [state |-> "pending", by |-> 0,
                                turn |-> cand[t].turn, moved |-> cand[t].moved]
                          ELSE NoRow]
    <2>1. \A t \in Tab : cand[t].turn \in Number /\ cand[t].moved \in BOOLEAN
      BY DEF CandType, CandRecord
    <2>2. rows \in [Tab -> Row]
      BY <2>1 DEF Row, RowState, NoRow, Number, Instance
    <2>3. hub.by \in Launchers
      BY DEF LifecycleOK
    <2>4. [box EXCEPT !.there = TRUE, !.launcher = hub.by, !.rows = rows] \in Box
      BY <2>2, <2>3 DEF Box
    <2>5. box' \in Box /\ late' \in BOOLEAN
      BY <1>2, <2>4 DEF CapturePublishes, mvars
    <2> QED BY <1>2, <2>5 DEF CapturePublishes, InFlight, Running, Last, lvars, cvars, ShutType
  <1>3. CASE Expire
    BY <1>3 DEF Expire, InFlight, Running, Last, lvars, cvars, hvars
  <1>4. CASE ReadRecovery
    <2>1. \A t \in Tab : GivenUp(box.rows[t]) \in Row
      BY DEF GivenUp, Row, RowState, Box
    <2>2. [t \in Tab |-> GivenUp(box.rows[t])] \in [Tab -> Row]
      BY <2>1
    <2>3. [box EXCEPT !.rows = [t \in Tab |-> GivenUp(box.rows[t])]] \in Box
      BY <2>2 DEF Box
    <2>4. box' \in Box
      BY <1>4, <2>3 DEF ReadRecovery
    <2>5. op.id \in Op \cup {NoOp} /\ [job EXCEPT !.read = TRUE] \in JobType
      BY DEF LifecycleOK, JobType
    <2>6. [read |-> TRUE, op |-> op.id,
           todo |-> {t \in Tab : box.rows[t].state = "pending" /\ ~late}] \in JobType
      BY <2>5 DEF JobType
    <2>7. job' \in JobType
      BY <1>4, <2>5, <2>6 DEF ReadRecovery
    <2> QED BY <1>4, <2>4, <2>7 DEF ReadRecovery, InFlight, Running, Last, lvars, cvars
  <1>5. ASSUME NEW t \in Tab, Visit(t) PROVE TypeOK'
    <2>1. chat[t] \in ChatRecord /\ cand[t] \in CandRecord
      BY DEF ChatType, CandType
    <2>2. [seen |-> TRUE, turn |-> Last(t), moved |-> chat[t].moved] \in CandRecord
      BY <2>1 DEF Last, ChatRecord, CandRecord
    <2>3. [cand[t] EXCEPT !.seen = TRUE] \in CandRecord
      BY <2>1 DEF CandRecord
    <2>4. cand' \in CandType
      BY <1>5, <2>2, <2>3 DEF Visit, CandType
    <2> QED BY <1>5, <2>4 DEF Visit, InFlight, Running, Last, lvars, mvars, cvars
  <1>6. ASSUME NEW t \in Tab, StopTailer(t) PROVE TypeOK'
    <2>1. Last(t) # 0 /\ Ends(t, "interrupted")
      BY <1>6 DEF StopTailer, InFlight
    <2>2. UNCHANGED hub
      BY <1>6 DEF StopTailer, lvars
    <2>3. log' \in LogType /\ chat' \in ChatType /\ InFlight'
      BY <2>1, <2>2, EndsType
    <2> QED BY <1>6, <2>3 DEF StopTailer, lvars, mvars, hvars
  <1> QED BY <1>1, <1>2, <1>3, <1>4, <1>5, <1>6

(* A new turn at the end of the log. *)
LEMMA NewTurnType ==
  ASSUME TypeOK, NEW t \in Tab, Last(t) < MaxTurns
  PROVE  Last(t) + 1 \in Turn /\ Last(t) + 1 \in Number /\ Last(t) \in Number
  BY TypeParts, Bounds DEF ChatType, ChatRecord, Last, Turn, Number

(* The steps of an attempt. *)
LEMMA TypeAttempts ==
  ASSUME TypeOK, LifecycleOK', NEW t \in Tab, ProcessOf(t), AttemptOf(t), Attempts(t)
  PROVE  TypeOK'
  <1> USE TypeParts, TypePartsNext, Bounds
  <1>1. CASE Claim(t)
    <2>1. [box EXCEPT !.rows[t].state = "claimed", !.rows[t].by = hub.id] \in Box
      <3> DEFINE r == [box.rows[t] EXCEPT !.state = "claimed", !.by = hub.id]
      <3>1. box.rows \in [Tab -> Row] /\ box.rows[t] \in Row /\ hub.id \in Instance
        BY DEF Box, LifecycleOK
      <3>2. r \in Row
        BY <3>1 DEF Row, RowState
      <3>3. [box EXCEPT !.rows = [box.rows EXCEPT ![t] = r]] \in Box
        BY <3>1, <3>2 DEF Box
      <3>4. [box EXCEPT !.rows[t].state = "claimed", !.rows[t].by = hub.id]
              = [box EXCEPT !.rows = [box.rows EXCEPT ![t] = r]]
        BY <3>1 DEF Box, Row
      <3> QED BY <3>3, <3>4
    <2>2. box' \in Box
      BY <1>1, <2>1 DEF Claim
    <2>3. [job EXCEPT !.todo = @ \ {t}] \in JobType
      BY DEF JobType
    <2>4. job' \in JobType /\ att' \in AttType
      BY <1>1, <2>3 DEF Claim, AttType
    <2> QED BY <1>1, <2>2, <2>4 DEF Claim, InFlight, Running, Last, lvars, cvars
  <1>2. CASE Check(t)
    <2>1. box' \in Box
      BY <1>2, SettledEffect DEF Check, Skip
    <2>2. att' \in AttType
      BY <1>2 DEF Check, Skip, AttType
    <2> QED BY <1>2, <2>1, <2>2 DEF Check, InFlight, Running, Last, lvars, cvars
  <1>3. CASE Publish(t)
    <2>1. box' \in Box
      BY <1>3, SettledEffect DEF Publish, Skip
    <2>2. att' \in AttType
      BY <1>3 DEF Publish, Skip, AttType
    <2>3. CASE UNCHANGED cvars
      BY <1>3, <2>1, <2>2, <2>3 DEF Publish, InFlight, Running, Last, lvars, cvars
    <2>4. CASE /\ WasCut(t) /\ Last(t) < MaxTurns
               /\ log' = [log EXCEPT ![t][Last(t) + 1] =
                            [of |-> box.rows[t].turn, given |-> FALSE, fate |-> "open"]]
               /\ chat' = [chat EXCEPT ![t].last = @ + 1]
      <3> DEFINE e == [of |-> box.rows[t].turn, given |-> FALSE, fate |-> "open"]
      <3>1. e \in Entry
        BY DEF Entry, Box, Row
      <3>2. log' = [log EXCEPT ![t] = [log[t] EXCEPT ![Last(t) + 1] = e]]
        BY <2>4
      <3>3. [log[t] EXCEPT ![Last(t) + 1] = e] \in [Turn -> Entry]
        BY <3>1 DEF LogType
      <3>4. log' \in LogType
        BY <3>2, <3>3 DEF LogType
      <3>5. chat[t] \in ChatRecord
        BY DEF ChatType
      <3>6. [chat[t] EXCEPT !.last = @ + 1] \in ChatRecord
        BY <3>5, <2>4, NewTurnType DEF ChatRecord, Last
      <3>7. chat' \in ChatType
        BY <2>4, <3>6 DEF ChatType
      <3>8. ~chat[t].live
        BY <2>4 DEF InFlight, WasCut, Fate
      <3>9. ASSUME NEW u \in Tab, chat'[u].live
            PROVE  Running' /\ Last(u)' # 0 /\ log'[u][Last(u)'].fate = "open"
        <4>1. u # t
          BY <3>5, <3>8, <3>9, <2>4 DEF ChatRecord, ChatType
        <4>2. chat'[u] = chat[u] /\ log'[u] = log[u] /\ hub' = hub
          BY <4>1, <2>4, <1>3 DEF ChatType, LogType, Publish, lvars
        <4> QED BY <4>2, <3>9 DEF InFlight, Running, Last
      <3>10. InFlight'
        BY <3>9 DEF InFlight
      <3> QED BY <1>3, <2>1, <2>2, <3>4, <3>7, <3>10 DEF Publish, lvars
    <2> QED BY <1>3, <2>3, <2>4 DEF Publish
  <1>4. CASE Deliver(t)
    <2>1. box' \in Box
      BY <1>4, SettledEffect DEF Deliver, Alive
    <2>2. att' \in AttType
      BY <1>4 DEF Deliver, AttType
    <2>3. Last(t) # 0 /\ Fate(t) = "open" /\ ~chat[t].live /\ hub.pc # "none" /\ UNCHANGED hub
      BY <1>4 DEF Deliver, AttemptOf, ProcessOf, lvars
    <2>4. Last(t) \in Turn
      BY <2>3 DEF ChatType, ChatRecord, Last, Turn, Number
    <2>5. CASE Ends(t, "ended")
      BY <1>4, <2>1, <2>2, <2>3, <2>5, EndsType DEF Deliver, lvars
    <2>6. CASE /\ log' = [log EXCEPT ![t][Last(t)].given = TRUE]
               /\ chat' = [chat EXCEPT ![t].live = TRUE]
      <3> DEFINE e == [log[t][Last(t)] EXCEPT !.given = TRUE]
      <3>1. log[t][Last(t)] \in Entry /\ chat[t] \in ChatRecord
        BY <2>4 DEF LogType, ChatType
      <3>2. e \in Entry /\ e.fate = "open"
        BY <3>1, <2>3 DEF Entry, Fate
      <3>3. log' = [log EXCEPT ![t] = [log[t] EXCEPT ![Last(t)] = e]]
        BY <2>6
      <3>4. [log[t] EXCEPT ![Last(t)] = e] \in [Turn -> Entry]
        BY <3>2 DEF LogType
      <3>5. log' \in LogType
        BY <3>3, <3>4 DEF LogType
      <3>6. [chat[t] EXCEPT !.live = TRUE] \in ChatRecord
        BY <3>1 DEF ChatRecord
      <3>7. chat' \in ChatType
        BY <2>6, <3>6 DEF ChatType
      <3>8. ASSUME NEW u \in Tab, chat'[u].live
            PROVE  Running' /\ Last(u)' # 0 /\ log'[u][Last(u)'].fate = "open"
        <4>1. Last(u)' = Last(u)
          BY <2>6, <3>1 DEF ChatType, ChatRecord, Last
        <4>2. CASE u = t
          <5>1. log'[t][Last(t)] = e
            BY <3>3, <2>4 DEF LogType
          <5> QED BY <4>1, <4>2, <5>1, <3>2, <2>3 DEF Running
        <4>3. CASE u # t
          <5>1. chat'[u] = chat[u] /\ log'[u] = log[u]
            BY <4>3, <2>6 DEF ChatType, LogType
          <5> QED BY <5>1, <4>1, <3>8, <2>3 DEF InFlight, Running
        <4> QED BY <4>2, <4>3
      <3>9. InFlight'
        BY <3>8 DEF InFlight
      <3> QED BY <1>4, <2>1, <2>2, <3>5, <3>7, <3>9 DEF Deliver, lvars
    <2> QED BY <1>4, <2>5, <2>6 DEF Deliver
  <1>5. CASE Finish(t) \/ Cancel(t)
    <2>1. box' \in Box
      BY <1>5, SettledEffect DEF Finish, Cancel
    <2>2. att' \in AttType
      BY <1>5 DEF Finish, Cancel, AttType
    <2> QED BY <1>5, <2>1, <2>2 DEF Finish, Cancel, InFlight, Running, Last, lvars, cvars
  <1> QED BY <1>1, <1>2, <1>3, <1>4, <1>5 DEF Attempts

(* What a message of the user does to the log: a new turn, and the end of  *)
(* one that was left open.                                                 *)
LEMMA SendsEffect ==
  ASSUME TypeOK, NEW t \in Tab, UserSends(t)
  PROVE  /\ log' \in LogType /\ chat' \in ChatType
         /\ Last(t)' = Last(t) + 1 /\ chat'[t].archived = chat[t].archived /\ chat'[t].live
         /\ \A u \in Tab \ {t} : log'[u] = log[u] /\ chat'[u] = chat[u]
         /\ log'[t][Last(t) + 1] = [of |-> 0, given |-> TRUE, fate |-> "open"]
         /\ \A n \in Turn : n # Last(t) + 1 =>
               /\ log'[t][n].of = log[t][n].of /\ log'[t][n].given = log[t][n].given
               /\ \/ log'[t][n].fate = log[t][n].fate
                  \/ n = Last(t) /\ Fate(t) = "open" /\ log'[t][n].fate = "interrupted"
  <1> DEFINE new == [of |-> 0, given |-> TRUE, fate |-> "open"]
             cut == [log[t][Last(t)] EXCEPT !.fate = "interrupted"]
             L == [n \in Turn |->
                     IF n = Last(t) + 1 THEN new
                     ELSE IF n = Last(t) /\ Fate(t) = "open"
                          THEN [log[t][n] EXCEPT !.fate = "interrupted"] ELSE log[t][n]]
  <1>1. log \in LogType /\ chat \in ChatType /\ chat[t] \in ChatRecord
    BY TypeParts DEF ChatType
  <1>2. Last(t) < MaxTurns /\ Last(t) + 1 \in Turn /\ Last(t) \in Nat /\ Last(t) + 1 \in Number
    BY NewTurnType, Bounds DEF UserSends, Number
  <1>3. log' = [log EXCEPT ![t] = L]
    BY DEF UserSends
  <1>4. new \in Entry
    BY Bounds DEF Entry, Number
  <1>5. \A n \in Turn : log[t][n] \in Entry
    BY <1>1 DEF LogType
  <1>6. \A n \in Turn : /\ [log[t][n] EXCEPT !.fate = "interrupted"] \in Entry
                        /\ [log[t][n] EXCEPT !.fate = "interrupted"].of = log[t][n].of
                        /\ [log[t][n] EXCEPT !.fate = "interrupted"].given = log[t][n].given
                        /\ [log[t][n] EXCEPT !.fate = "interrupted"].fate = "interrupted"
    BY <1>5 DEF Entry
  <1>7. L \in [Turn -> Entry]
    BY <1>4, <1>5, <1>6
  <1>8. log' \in LogType /\ log'[t] = L /\ \A u \in Tab \ {t} : log'[u] = log[u]
    BY <1>1, <1>3, <1>7 DEF LogType
  <1>9. chat' = [chat EXCEPT ![t] = [chat[t] EXCEPT !.last = chat[t].last + 1, !.live = TRUE]]
    BY <1>1 DEF UserSends, ChatType, ChatRecord
  <1>10. [chat[t] EXCEPT !.last = chat[t].last + 1, !.live = TRUE] \in ChatRecord
    BY <1>1, <1>2 DEF ChatRecord, Last
  <1>11. chat' \in ChatType /\ Last(t)' = Last(t) + 1 /\ chat'[t].archived = chat[t].archived
            /\ chat'[t].live /\ \A u \in Tab \ {t} : chat'[u] = chat[u]
    BY <1>1, <1>9, <1>10 DEF ChatType, ChatRecord, Last
  <1>12. log'[t][Last(t) + 1] = new
    BY <1>2, <1>8
  <1>13. ASSUME NEW n \in Turn, n # Last(t) + 1
         PROVE  /\ log'[t][n].of = log[t][n].of /\ log'[t][n].given = log[t][n].given
                /\ \/ log'[t][n].fate = log[t][n].fate
                   \/ n = Last(t) /\ Fate(t) = "open" /\ log'[t][n].fate = "interrupted"
    <2>1. log'[t][n] = IF n = Last(t) /\ Fate(t) = "open"
                       THEN [log[t][n] EXCEPT !.fate = "interrupted"] ELSE log[t][n]
      BY <1>8, <1>13
    <2> QED BY <2>1, <1>6, <1>13
  <1> QED BY <1>8, <1>11, <1>12, <1>13

(* The steps of the users. *)
LEMMA TypeUsers ==
  ASSUME TypeOK, LifecycleOK', NEW t \in Tab, Users(t)
  PROVE  TypeOK'
  <1> USE TypeParts, TypePartsNext, Bounds
  <1>1. CASE UserSends(t)
    <2>1. ASSUME NEW u \in Tab, chat'[u].live
          PROVE  Running' /\ Last(u)' # 0 /\ log'[u][Last(u)'].fate = "open"
      <3>1. hub' = hub /\ hub.pc = "serving" /\ Last(t) < MaxTurns
        BY <1>1 DEF UserSends, Serving, lvars
      <3>2. CASE u = t
        <4>1. Last(u)' = Last(t) + 1 /\ log'[u][Last(u)'].fate = "open"
          BY <1>1, <3>2, SendsEffect
        <4>2. Last(t) + 1 # 0
          BY <3>1, NewTurnType DEF Number
        <4> QED BY <3>1, <4>1, <4>2 DEF Running
      <3>3. CASE u # t
        <4>1. log'[u] = log[u] /\ chat'[u] = chat[u]
          BY <1>1, <3>3, SendsEffect
        <4> QED BY <2>1, <3>1, <4>1 DEF InFlight, Last, Running
      <3> QED BY <3>2, <3>3
    <2> QED BY <1>1, <2>1, SendsEffect DEF UserSends, InFlight, lvars, mvars, hvars
  <1>2. CASE TurnEnds(t) \/ StreamOpens(t)
    <2>1. PICK fate \in {"ended", "interrupted"} : Ends(t, fate)
      BY <1>2 DEF TurnEnds, StreamOpens
    <2>2. Last(t) # 0 /\ UNCHANGED hub
      BY <1>2 DEF TurnEnds, StreamOpens, InFlight, Fate, lvars
    <2>3. log' \in LogType /\ chat' \in ChatType /\ InFlight'
      BY <2>1, <2>2, EndsType
    <2> QED BY <1>2, <2>3 DEF TurnEnds, StreamOpens, lvars, mvars, hvars
  <1>3. ASSUME NEW want \in Number, StopBegins(t, want) PROVE TypeOK'
    <2>1. box' \in Box
      BY <1>3, RevokeEffect DEF StopBegins
    <2>2. box.rows[t] \in Row
      BY DEF Box
    <2>3. /\ [on |-> TRUE, want |-> box.rows[t].turn, cont |-> TRUE]
                \in [on : BOOLEAN, want : Number, cont : BOOLEAN]
          /\ [on |-> TRUE, want |-> want, cont |-> FALSE]
                \in [on : BOOLEAN, want : Number, cont : BOOLEAN]
      BY <1>3, <2>2 DEF Row
    <2>4. stop' \in StopType
      BY <1>3, <2>3 DEF StopBegins, StopType
    <2>5. RuledOut(t) \in SUBSET (Tab \X Turn)
      BY <2>2 DEF RuledOut, Row, Number, Turn
    <2>6. barred' \in SUBSET (Tab \X Turn)
      BY <1>3, <2>5 DEF StopBegins
    <2> QED BY <1>3, <2>1, <2>4, <2>6 DEF StopBegins, Fault, InFlight, Running, Last, lvars, cvars
  <1>4. CASE StopEnds(t)
    <2>1. stop' \in StopType
      BY <1>4, EmptyBoxType DEF StopEnds, StopType
    <2>2. CASE UNCHANGED <<cvars, barred>>
      BY <1>4, <2>1, <2>2 DEF StopEnds, InFlight, Running, Last, lvars, mvars, cvars
    <2>3. CASE /\ Fate(t) = "open" /\ barred' = barred \cup {<<t, Last(t)>>}
               /\ Ends(t, IF chat[t].live THEN "cancelled" ELSE "interrupted")
      <3>1. Last(t) # 0 /\ UNCHANGED hub
        BY <1>4, <2>3 DEF StopEnds, Fate, lvars
      <3>2. Last(t) \in Turn
        BY <3>1 DEF ChatType, ChatRecord, Last, Turn, Number
      <3>3. log' \in LogType /\ chat' \in ChatType /\ InFlight'
        BY <2>3, <3>1, EndsType
      <3>4. barred' \in SUBSET (Tab \X Turn)
        BY <2>3, <3>2
      <3> QED BY <1>4, <2>1, <3>3, <3>4 DEF StopEnds, lvars, mvars
    <2> QED BY <1>4, <2>2, <2>3 DEF StopEnds
  <1>5. CASE ArchiveBegins(t)
    <2>1. 0 \in Number
      BY DEF Number
    <2>2. box' \in Box
      <3>1. Revoke(t, 0) \in Box
        BY <2>1, RevokeEffect
      <3>2. [Revoke(t, 0) EXCEPT !.vetoes = @ \cup {t}] \in Box
        BY <3>1 DEF Box
      <3> QED BY <1>5, <3>2 DEF ArchiveBegins
    <2>3. chat[t] \in ChatRecord
      BY DEF ChatType
    <2>4. [chat[t] EXCEPT !.archived = "stopping"] \in ChatRecord
      BY <2>3 DEF ChatRecord
    <2>5. chat' = [chat EXCEPT ![t] = [chat[t] EXCEPT !.archived = "stopping"]]
      BY <1>5 DEF ArchiveBegins
    <2>6. chat' \in ChatType /\ \A u \in Tab : Last(u)' = Last(u) /\ chat'[u].live = chat[u].live
      BY <2>3, <2>4, <2>5 DEF ChatType, ChatRecord, Last
    <2>7. Last(t) \in Number
      BY <2>3 DEF ChatRecord, Last
    <2>8. barred' \in SUBSET (Tab \X Turn)
      BY <1>5, <2>7 DEF ArchiveBegins, Turn, Number
    <2> QED BY <1>5, <2>2, <2>6, <2>8 DEF ArchiveBegins, Fault, InFlight, Running, lvars
  <1>6. CASE ArchiveEnds(t)
    <2>1. chat[t] \in ChatRecord
      BY DEF ChatType
    <2>2. [chat[t] EXCEPT !.archived = "yes", !.live = FALSE] \in ChatRecord
      BY <2>1 DEF ChatRecord
    <2>3. chat' = [chat EXCEPT ![t] = [chat[t] EXCEPT !.archived = "yes", !.live = FALSE]]
      BY <1>6, <2>1 DEF ArchiveEnds, ChatType, ChatRecord
    <2>4. chat' \in ChatType /\ ~chat'[t].live /\ \A u \in Tab \ {t} : chat'[u] = chat[u]
      BY <2>1, <2>2, <2>3 DEF ChatType, ChatRecord
    <2>5. log' \in LogType /\ \A u \in Tab \ {t} : log'[u] = log[u]
      <3>1. CASE chat[t].live
        <4> DEFINE e == [log[t][Last(t)] EXCEPT !.fate = "interrupted"]
        <4>1. Last(t) \in Turn
          BY <2>1, <3>1 DEF InFlight, ChatRecord, Last, Turn, Number
        <4>2. log[t][Last(t)] \in Entry
          BY <4>1 DEF LogType
        <4>3. e \in Entry
          BY <4>2 DEF Entry
        <4>4. log' = [log EXCEPT ![t] = [log[t] EXCEPT ![Last(t)] = e]]
          BY <1>6, <3>1 DEF ArchiveEnds
        <4>5. [log[t] EXCEPT ![Last(t)] = e] \in [Turn -> Entry]
          BY <4>3 DEF LogType
        <4> QED BY <4>4, <4>5 DEF LogType
      <3>2. CASE ~chat[t].live
        BY <1>6, <3>2 DEF ArchiveEnds
      <3> QED BY <3>1, <3>2
    <2>6. UNCHANGED hub
      BY <1>6 DEF ArchiveEnds, lvars
    <2>7. InFlight'
      BY <2>4, <2>5, <2>6 DEF InFlight, Running, Last
    <2> QED BY <1>6, <2>4, <2>5, <2>7 DEF ArchiveEnds, lvars, mvars, hvars
  <1>7. CASE Unarchive(t) \/ Move(t)
    <2>1. chat[t] \in ChatRecord
      BY DEF ChatType
    <2>2. [chat[t] EXCEPT !.archived = "no"] \in ChatRecord /\ [chat[t] EXCEPT !.moved = TRUE] \in ChatRecord
      BY <2>1 DEF ChatRecord
    <2>3. \/ chat' = [chat EXCEPT ![t] = [chat[t] EXCEPT !.archived = "no"]]
          \/ chat' = [chat EXCEPT ![t] = [chat[t] EXCEPT !.moved = TRUE]]
      BY <1>7 DEF Unarchive, Move
    <2>4. chat' \in ChatType
      BY <2>2, <2>3 DEF ChatType
    <2>5. \A u \in Tab : chat'[u].last = chat[u].last /\ chat'[u].live = chat[u].live
      BY <2>1, <2>3 DEF ChatType, ChatRecord
    <2> QED BY <1>7, <2>4, <2>5 DEF Last, Unarchive, Move, Fault, InFlight, Running, lvars, mvars, hvars
  <1> QED BY <1>1, <1>2, <1>3, <1>4, <1>5, <1>6, <1>7 DEF Users

(* --------------------- one Chat and the others ------------------------- *)

(* What an attempt leaves alone. *)
LEMMA AttemptFrame ==
  ASSUME TypeOK, NEW t \in Tab, Attempts(t)
  PROVE  /\ UNCHANGED <<op, hub, launcher, late, stop, shut, cand, barred, faults>>
         /\ box'.there = box.there /\ box'.vetoes = box.vetoes
         /\ job'.read = job.read /\ job'.todo \subseteq job.todo
         /\ \A u \in Tab : box'.rows[u].turn = box.rows[u].turn
         /\ \A u \in Tab \ {t} : /\ box'.rows[u].state = box.rows[u].state
                                 /\ att'[u] = att[u] /\ chat'[u] = chat[u] /\ log'[u] = log[u]
  <1> USE TypeParts
  <1>1. CASE Claim(t)
    <2>1. box \in Box /\ job \in JobType /\ att \in AttType
      OBVIOUS
    <2>2. job' = [job EXCEPT !.todo = @ \ {t}]
      BY <1>1 DEF Claim
    <2>3. /\ box'.there = box.there /\ box'.vetoes = box.vetoes
          /\ \A u \in Tab : box'.rows[u].turn = box.rows[u].turn
          /\ \A u \in Tab \ {t} : box'.rows[u].state = box.rows[u].state
      <3>1. CASE box' = [box EXCEPT !.rows[t].state = "claimed", !.rows[t].by = hub.id]
        BY <2>1, <3>1 DEF Box, Row
      <3>2. CASE box' = box
        BY <3>2
      <3> QED BY <1>1, <3>1, <3>2 DEF Claim
    <2>4. \A u \in Tab \ {t} : att'[u] = att[u]
      BY <1>1, <2>1 DEF Claim, AttType
    <2> QED BY <1>1, <2>1, <2>2, <2>3, <2>4 DEF Claim, JobType, lvars, cvars
  <1>2. CASE Check(t)
    BY <1>2, SettledEffect DEF Check, Skip, AttType, lvars, cvars
  <1>3. CASE Publish(t)
    BY <1>3, SettledEffect DEF Publish, Skip, AttType, LogType, ChatType, lvars, cvars
  <1>4. CASE Deliver(t)
    <2>1. \A u \in Tab \ {t} : chat'[u] = chat[u] /\ log'[u] = log[u]
      BY <1>4 DEF Deliver, Ends, LogType, ChatType
    <2>2. \A u \in Tab \ {t} : att'[u] = att[u]
      BY <1>4 DEF Deliver, AttType
    <2>3. box' = box \/ \E state \in {"skipped", "failed"} : box' = Settled(t, state)
      BY <1>4 DEF Deliver
    <2> QED BY <1>4, <2>1, <2>2, <2>3, SettledEffect DEF Deliver, lvars
  <1>5. CASE Finish(t) \/ Cancel(t)
    BY <1>5, SettledEffect DEF Finish, Cancel, AttType, lvars, cvars
  <1> QED BY <1>1, <1>2, <1>3, <1>4, <1>5 DEF Attempts

(* What a user leaves alone. *)
LEMMA UserFrame ==
  ASSUME TypeOK, NEW t \in Tab, Users(t)
  PROVE  /\ UNCHANGED <<op, hub, launcher, late, job, att, shut, cand>>
         /\ box'.there = box.there
         /\ \A u \in Tab : box'.rows[u].turn = box.rows[u].turn
         /\ \A u \in Tab \ {t} :
               /\ box'.rows[u].state = box.rows[u].state
               /\ u \in box'.vetoes <=> u \in box.vetoes
               /\ chat'[u] = chat[u] /\ log'[u] = log[u] /\ stop'[u] = stop[u]
               /\ \A n : <<u, n>> \in barred' <=> <<u, n>> \in barred
  <1> USE TypeParts
  <1>1. CASE UserSends(t)
    BY <1>1, SendsEffect DEF UserSends, lvars, mvars, hvars
  <1>2. CASE TurnEnds(t) \/ StreamOpens(t)
    BY <1>2 DEF TurnEnds, StreamOpens, Ends, LogType, ChatType, lvars, mvars, hvars
  <1>3. ASSUME NEW want \in Number, StopBegins(t, want)
        PROVE  /\ box'.there = box.there /\ box'.vetoes = box.vetoes
               /\ \A u \in Tab : box'.rows[u].turn = box.rows[u].turn
               /\ \A u \in Tab \ {t} :
                     /\ box'.rows[u].state = box.rows[u].state /\ stop'[u] = stop[u]
                     /\ \A n : <<u, n>> \in barred' <=> <<u, n>> \in barred
    <2>1. box' = Revoke(t, want)
      BY <1>3 DEF StopBegins
    <2>2. \A u \in Tab \ {t} : stop'[u] = stop[u]
      BY <1>3 DEF StopBegins, StopType
    <2>3. \A u \in Tab \ {t} : \A n : <<u, n>> \in barred' <=> <<u, n>> \in barred
      BY <1>3 DEF StopBegins, RuledOut
    <2> QED BY <2>1, <2>2, <2>3, RevokeEffect
  <1>4. CASE StopEnds(t)
    BY <1>4 DEF StopEnds, Ends, LogType, ChatType, StopType, lvars, mvars, cvars
  <1>5. CASE ArchiveBegins(t)
    <2>1. 0 \in Number
      BY Bounds DEF Number
    <2>2. /\ box'.there = box.there
          /\ \A u \in Tab : box'.rows[u].turn = box.rows[u].turn
          /\ \A u \in Tab \ {t} : /\ box'.rows[u].state = box.rows[u].state
                                  /\ u \in box'.vetoes <=> u \in box.vetoes
      <3>1. CASE box' = box
        BY <3>1
      <3>2. CASE box' = [Revoke(t, 0) EXCEPT !.vetoes = @ \cup {t}]
        <4>1. box'.rows = Revoke(t, 0).rows /\ box'.there = Revoke(t, 0).there
                /\ box'.vetoes = Revoke(t, 0).vetoes \cup {t}
          BY <2>1, <3>2, RevokeEffect DEF Box
        <4> QED BY <2>1, <4>1, RevokeEffect
      <3> QED BY <1>5, <3>1, <3>2 DEF ArchiveBegins
    <2>3. \A u \in Tab \ {t} : chat'[u] = chat[u] /\ \A n : <<u, n>> \in barred' <=> <<u, n>> \in barred
      BY <1>5 DEF ArchiveBegins, ChatType
    <2> QED BY <1>5, <2>2, <2>3 DEF ArchiveBegins, lvars
  <1>6. CASE ArchiveEnds(t)
    BY <1>6 DEF ArchiveEnds, LogType, ChatType, lvars, mvars, hvars
  <1>7. CASE Unarchive(t) \/ Move(t)
    BY <1>7 DEF Unarchive, Move, ChatType, lvars, mvars, hvars
  <1>8. CASE \E want \in Number : StopBegins(t, want)
    BY <1>3, <1>8 DEF StopBegins, lvars, cvars
  <1> QED BY <1>1, <1>2, <1>4, <1>5, <1>6, <1>7, <1>8 DEF Users

(* A Chat keeps its part of the invariant when the operation, the process  *)
(* and what is its own are left alone.                                     *)
LEMMA OthersKeep ==
  ASSUME NEW u, ChatInv(u), UNCHANGED <<op, hub, shut, cand>>,
         box'.there = box.there, u \in box'.vetoes <=> u \in box.vetoes, job'.read = job.read,
         box'.rows[u].turn = box.rows[u].turn, box'.rows[u].state = box.rows[u].state,
         att'[u] = att[u], stop'[u] = stop[u], chat'[u] = chat[u], log'[u] = log[u],
         \A n : <<u, n>> \in barred' <=> <<u, n>> \in barred
  PROVE  ChatInv(u)'
  <1> USE DEF Last
  <1>1. ProcessOf(u)'
    BY DEF ChatInv, ProcessOf, Alive
  <1>2. LogOf(u)'
    BY DEF ChatInv, LogOf
  <1>3. Continued(u)' <=> Continued(u)
    BY DEF Continued
  <1>4. RowOf(u)'
    BY <1>3 DEF ChatInv, RowOf, Alive
  <1>5. AttemptOf(u)'
    BY <1>3 DEF ChatInv, AttemptOf, Fate
  <1>6. RuledOf(u)'
    BY DEF ChatInv, RuledOf, Vetoed, OpLives, Capturing
  <1>7. StopOf(u)'
    BY DEF ChatInv, StopOf, Alive
  <1> QED BY <1>1, <1>2, <1>4, <1>5, <1>6, <1>7 DEF ChatInv

(* The operation, the box and the process as a whole. *)
LEMMA GlobalStep ==
  ASSUME TypeOK, Lifecycle, Process, [Next]_vars
  PROVE  LifecycleOK' /\ Lifecycle' /\ Process'
  <1>1. LifecycleOK' /\ LifeInv'
    BY NextIsLife, LifeStep, TypeParts DEF Lifecycle
  <1> DEFINE BoxInv == /\ box.there => op.resume /\ op.status # "preparing"
                       /\ box.there /\ Alive => op.from # hub.id
  <1>2. BoxInv' /\ Process'
    <2> USE DEF Lifecycle, Process, Alive, Running
    <2>1. CASE AskRestart
      BY <2>1 DEF AskRestart, Request, EmptyBox, hvars
    <2>2. CASE LauncherActs \/ LauncherIsKilled
      <3>1. UNCHANGED <<hub, mvars, hvars>>
        BY <2>2 DEF LauncherActs, LauncherIsKilled, Begin, Fail, Succeed, LauncherLeaves,
                    LauncherGone, LauncherKilled, LauncherStarts
      <3>2. op'.resume = op.resume /\ op'.from = op.from
            /\ (op'.status = "preparing" => op.status = "preparing")
        BY <2>2, TypeParts DEF LauncherActs, LauncherIsKilled, Begin, Fail, Succeed,
              LauncherLeaves, LauncherGone, LauncherKilled, LauncherStarts, LifecycleOK
      <3> QED BY <3>1, <3>2 DEF mvars, hvars
    <2>3. CASE NewHub
      BY <2>3, TypeParts, Bounds DEF NewHub, HubBoots, LifeInv, LifecycleOK, Instance, NoJob, mvars
    <2>4. CASE HubIsUp
      BY <2>4 DEF HubIsUp, HubServes, mvars, hvars
    <2>5. CASE Quiesce
      BY <2>5, TypeParts DEF Quiesce, HubCloses, JobType, mvars
    <2>6. CASE HubDies \/ HubShutsDown
      BY <2>6, TypeParts DEF HubDies, HubShutsDown, HubEnds, LifecycleOK, mvars
    <2>7. CASE CaptureBegins
      BY <2>7 DEF CaptureBegins, lvars, mvars
    <2>8. CASE CapturePublishes
      BY <2>8, TypeParts DEF CapturePublishes, Capturing, Box, lvars, mvars
    <2>9. CASE Expire
      BY <2>9 DEF Expire, lvars, hvars
    <2>10. CASE ReadRecovery
      BY <2>10, TypeParts DEF ReadRecovery, Box, JobType, lvars
    <2>11. ASSUME NEW t \in Tab, Visit(t) PROVE BoxInv' /\ Process'
      BY <2>11 DEF Visit, lvars, mvars
    <2>12. ASSUME NEW t \in Tab, StopTailer(t) PROVE BoxInv' /\ Process'
      BY <2>12 DEF StopTailer, lvars, mvars, hvars
    <2>13. ASSUME NEW t \in Tab, Attempts(t) PROVE BoxInv' /\ Process'
      BY <2>13, AttemptFrame
    <2>14. ASSUME NEW t \in Tab, Users(t) PROVE BoxInv' /\ Process'
      BY <2>14, UserFrame
    <2>15. CASE UNCHANGED vars
      BY <2>15 DEF vars, mvars, hvars
    <2> QED BY <2>1, <2>2, <2>3, <2>4, <2>5, <2>6, <2>7, <2>8, <2>9, <2>10, <2>11, <2>12,
               <2>13, <2>14, <2>15 DEF Next
  <1> QED BY <1>1, <1>2 DEF Lifecycle

(* The steps of the operation and of the process, for each Chat. *)
LEMMA ProcessKeeps ==
  ASSUME TypeOK, Lifecycle, Process, NEW t \in Tab, ChatInv(t), TypeOK',
         \/ AskRestart \/ LauncherActs \/ LauncherIsKilled \/ NewHub \/ HubIsUp
         \/ Quiesce \/ HubDies \/ HubShutsDown
  PROVE  ChatInv(t)'
  <1> USE TypeParts, Bounds DEF Alive, Last, Running
  <1>0. ProcessOf(t) /\ LogOf(t) /\ RowOf(t) /\ AttemptOf(t) /\ RuledOf(t) /\ StopOf(t)
    BY DEF ChatInv
  <1>1. CASE AskRestart
    <2>1. /\ box'.rows[t].turn = 0 /\ box'.rows[t].state = "none" /\ UNCHANGED <<hub, cvars, hvars, barred>>
          /\ hub.pc = "serving"
      BY <1>1 DEF AskRestart, Request, EmptyBox, NoRow
    <2>2. ProcessOf(t)' /\ LogOf(t)'
      BY <1>0, <2>1 DEF ProcessOf, LogOf, cvars, hvars
    <2>3. RowOf(t)' /\ AttemptOf(t)' /\ StopOf(t)'
      BY <1>0, <2>1, Counting DEF RowOf, AttemptOf, StopOf, Fate, cvars, hvars
    <2>4. RuledOf(t)'
      BY <1>0, <2>1 DEF RuledOf, ProcessOf, Unsettled, cvars, hvars
    <2> QED BY <2>2, <2>3, <2>4 DEF ChatInv
  <1>2. CASE LauncherActs \/ LauncherIsKilled
    <2>1. UNCHANGED <<hub, mvars, cvars, hvars, barred>>
      BY <1>2 DEF LauncherActs, LauncherIsKilled, Begin, Fail, Succeed, LauncherLeaves,
                  LauncherGone, LauncherKilled, LauncherStarts
    <2>2. ProcessOf(t)' /\ LogOf(t)' /\ AttemptOf(t)' /\ StopOf(t)'
      BY <1>0, <2>1 DEF ProcessOf, LogOf, AttemptOf, StopOf, Fate, Continued, cvars, hvars, mvars
    <2>3. RowOf(t)'
      BY <1>0, <2>1 DEF RowOf, Continued, cvars, hvars, mvars
    <2>4. box.there /\ OpLives' => OpLives
      BY <1>2 DEF LauncherActs, LauncherIsKilled, Begin, Fail, Succeed, LauncherLeaves, Lifecycle,
                  LauncherGone, LauncherKilled, LauncherStarts, OpLives, Active, LifecycleOK, Status
    <2>5. hub.pc = "closing" /\ Capturing' => Capturing
      BY <1>2, <2>1 DEF LauncherActs, LauncherIsKilled, Begin, Fail, Succeed, LauncherLeaves,
                  Lifecycle, LifeInv, LauncherGone, LauncherKilled, LauncherStarts, Capturing, Active,
                  LifecycleOK, Status
    <2>6. box.rows[t].state \in {"pending", "claimed"} => box.there
      BY <1>0 DEF RowOf
    <2>7. RuledOf(t)'
      BY <1>0, <2>1, <2>4, <2>5, <2>6 DEF RuledOf, ProcessOf, Unsettled, Vetoed, cvars, hvars, mvars
    <2> QED BY <2>2, <2>3, <2>7 DEF ChatInv
  <1>3. CASE NewHub
    <2>1. /\ hub.pc = "none" /\ hub'.pc = "boot" /\ shut' = "no" /\ ~chat[t].live /\ att[t] = "idle"
          /\ ~stop[t].on /\ cand[t].turn = 0
          /\ UNCHANGED <<op, mvars, cvars, att, stop, cand, barred>>
      BY <1>0, <1>3 DEF NewHub, HubBoots, ProcessOf, InFlight
    <2>2. ProcessOf(t)' /\ LogOf(t)' /\ AttemptOf(t)' /\ StopOf(t)'
      BY <1>0, <2>1 DEF ProcessOf, LogOf, AttemptOf, StopOf, cvars, mvars
    <2>3. RowOf(t)'
      BY <1>0, <2>1 DEF RowOf, Continued, cvars, mvars
    <2>4. RuledOf(t)'
      BY <1>0, <2>1 DEF RuledOf, Vetoed, OpLives, cvars, mvars
    <2> QED BY <2>2, <2>3, <2>4 DEF ChatInv
  <1>4. CASE HubIsUp
    <2>1. hub.pc = "boot" /\ hub'.pc = "serving" /\ hub'.id = hub.id /\ UNCHANGED <<op, mvars, cvars, hvars, barred>>
      BY <1>4 DEF HubIsUp, HubServes, LifecycleOK
    <2>2. ProcessOf(t)' /\ LogOf(t)' /\ AttemptOf(t)' /\ StopOf(t)'
      BY <1>0, <2>1 DEF ProcessOf, LogOf, AttemptOf, StopOf, Fate, Continued, cvars, hvars, mvars
    <2>3. RowOf(t)'
      BY <1>0, <2>1 DEF RowOf, Continued, cvars, mvars
    <2>4. RuledOf(t)'
      BY <1>0, <2>1 DEF RuledOf, Vetoed, OpLives, Capturing, cvars, hvars, mvars
    <2> QED BY <2>2, <2>3, <2>4 DEF ChatInv
  <1>5. CASE Quiesce
    <2>1. /\ Alive /\ hub'.pc = "closing" /\ hub'.id = hub.id /\ shut' = "quiesced" /\ ~stop'[t].on
          /\ job'.read = job.read /\ cand[t].turn = 0
          /\ UNCHANGED <<op, mvars, cvars, att, cand, barred>>
      BY <1>0, <1>5 DEF Quiesce, HubCloses, LifecycleOK, JobType, NoStop, ProcessOf
    <2>2. ProcessOf(t)' /\ LogOf(t)' /\ AttemptOf(t)' /\ StopOf(t)'
      BY <1>0, <2>1 DEF ProcessOf, LogOf, AttemptOf, StopOf, Fate, Continued, cvars, mvars
    <2>3. RowOf(t)'
      BY <1>0, <2>1 DEF RowOf, Continued, cvars, mvars
    <2>4. RuledOf(t)'
      BY <1>0, <2>1 DEF RuledOf, Vetoed, OpLives, Capturing, cvars, mvars
    <2> QED BY <2>2, <2>3, <2>4 DEF ChatInv
  <1>6. CASE HubDies \/ HubShutsDown
    <2>1. /\ hub'.pc = "none" /\ att'[t] = "idle" /\ ~stop'[t].on /\ cand'[t].turn = 0
          /\ UNCHANGED <<op, mvars, log, job, shut, barred>>
      <3>1. HubEnds /\ Forgotten /\ UNCHANGED <<mvars, log, job, shut, barred>>
        BY <1>6 DEF HubDies, HubShutsDown
      <3>2. hub'.pc = "none" /\ UNCHANGED op
        BY <3>1 DEF HubEnds, LifecycleOK
      <3>3. att'[t] = "idle" /\ ~stop'[t].on /\ cand'[t].turn = 0
        BY <3>1 DEF Forgotten, NoStop
      <3> QED BY <3>1, <3>2, <3>3
    <2>2. chat'[t].last = chat[t].last /\ ~chat'[t].live
      <3>1. Forgotten
        BY <1>6 DEF HubDies, HubShutsDown
      <3>2. PICK saved \in SUBSET Tab : chat' = [u \in Tab |-> [chat[u] EXCEPT !.live = FALSE,
               !.archived = IF @ # "stopping" THEN @ ELSE IF u \in saved THEN "yes" ELSE "no"]]
        BY <3>1 DEF Forgotten
      <3>3. chat[t] \in ChatRecord
        BY DEF ChatType
      <3>4. chat'[t] = [chat[t] EXCEPT !.live = FALSE,
               !.archived = IF @ # "stopping" THEN @ ELSE IF t \in saved THEN "yes" ELSE "no"]
        BY <3>2
      <3> QED BY <3>3, <3>4 DEF ChatRecord
    <2>3. ProcessOf(t)' /\ LogOf(t)' /\ AttemptOf(t)' /\ StopOf(t)'
      BY <1>0, <2>1, <2>2 DEF ProcessOf, LogOf, AttemptOf, StopOf, mvars
    <2>4. RowOf(t)'
      BY <1>0, <2>1, <2>2 DEF RowOf, Continued, mvars
    <2>5. RuledOf(t)'
      BY <1>0, <2>1, <2>2 DEF RuledOf, Vetoed, OpLives, mvars
    <2> QED BY <2>3, <2>4, <2>5 DEF ChatInv
  <1> QED BY <1>1, <1>2, <1>3, <1>4, <1>5, <1>6

(* A log in which only open turns come to an end still says who continued  *)
(* whom, and what it says of a row.                                        *)
LEMMA FatesMove ==
  ASSUME TypeOK, NEW t \in Tab, LogOf(t), Last(t)' = Last(t),
         box'.rows[t].turn = box.rows[t].turn,
         \A n \in Turn : /\ log'[t][n].of = log[t][n].of /\ log'[t][n].given = log[t][n].given
                         /\ log[t][n].fate = "interrupted" => log'[t][n].fate = "interrupted"
  PROVE  LogOf(t)' /\ (Continued(t)' <=> Continued(t))
  <1>1. ASSUME NEW m \in Turn, log'[t][m].of # 0
        PROVE  log'[t][m].of = m - 1 /\ log'[t][m - 1].fate = "interrupted"
    <2>1. log[t][m].of # 0 /\ log[t][m].of = m - 1 /\ log[t][m - 1].fate = "interrupted"
      BY <1>1 DEF LogOf
    <2>2. m - 1 \in Turn
      BY <2>1, Bounds DEF Turn
    <2> QED BY <2>1, <2>2
  <1>2. \A m \in Turn : m > Last(t)' => log'[t][m].of = 0 /\ ~log'[t][m].given
    BY DEF LogOf
  <1>3. Continued(t)' <=> Continued(t)
    BY DEF Continued
  <1> QED BY <1>1, <1>2, <1>3 DEF LogOf

(* The end of an open turn that no attempt has published. *)
LEMMA EndKeepsLog ==
  ASSUME TypeOK, NEW t \in Tab, NEW u \in Tab, LogOf(u), box'.rows[u].turn = box.rows[u].turn,
         Last(t) # 0, Fate(t) = "open", NEW fate \in {"interrupted", "cancelled", "ended"},
         Ends(t, fate)
  PROVE  LogOf(u)' /\ (Continued(u)' <=> Continued(u)) /\ Last(u)' = Last(u)
         /\ log'[u][Last(u)].of = log[u][Last(u)].of
         /\ log'[u][Last(u)].given = log[u][Last(u)].given
         /\ (u # t => log'[u] = log[u] /\ chat'[u] = chat[u]) /\ ~chat'[t].live
  <1>1. Last(u)' = Last(u)
    BY EndsEffect DEF Last
  <1>2. log'[u] = log[u] \/ (u = t /\ Last(t) \in Turn)
    BY TypeParts, Bounds DEF Ends, LogType, ChatType, ChatRecord, Last, Turn, Number
  <1>3. \A n \in Turn : /\ log'[u][n].of = log[u][n].of /\ log'[u][n].given = log[u][n].given
                        /\ log[u][n].fate = "interrupted" => log'[u][n].fate = "interrupted"
    BY EndsEffect DEF Fate
  <1>4. LogOf(u)' /\ (Continued(u)' <=> Continued(u))
    BY <1>1, <1>3, FatesMove
  <1>5. u # t => log'[u] = log[u] /\ chat'[u] = chat[u]
    BY TypeParts DEF Ends, LogType, ChatType
  <1>6. ~chat'[t].live
    BY EndsEffect
  <1> QED BY <1>1, <1>2, <1>3, <1>4, <1>5, <1>6

(* The steps of the capture and of the reader, for each Chat. *)
LEMMA CaptureKeeps ==
  ASSUME TypeOK, Lifecycle, Process, NEW t \in Tab, ChatInv(t), TypeOK',
         \/ CaptureBegins \/ CapturePublishes \/ Expire \/ ReadRecovery
         \/ \E u \in Tab : Visit(u) \/ StopTailer(u)
  PROVE  ChatInv(t)'
  <1> USE TypeParts, Bounds DEF Alive
  <1>0. ProcessOf(t) /\ LogOf(t) /\ RowOf(t) /\ AttemptOf(t) /\ RuledOf(t) /\ StopOf(t)
    BY DEF ChatInv
  <1>1. CASE CaptureBegins
    <2>1. /\ att[t] = "idle" /\ UNCHANGED <<op, hub, mvars, cvars, job, att, stop, cand, barred>>
      BY <1>1 DEF CaptureBegins, lvars
    <2>2. ProcessOf(t)' /\ LogOf(t)' /\ AttemptOf(t)' /\ StopOf(t)'
      BY <1>0, <2>1 DEF ProcessOf, LogOf, AttemptOf, StopOf, Last, cvars, mvars
    <2>3. RowOf(t)' /\ RuledOf(t)'
      BY <1>0, <2>1 DEF RowOf, Continued, RuledOf, Vetoed, OpLives, Capturing, Last, cvars, mvars
    <2> QED BY <2>2, <2>3 DEF ChatInv
  <1>2. CASE CapturePublishes
    <2>1. /\ att[t] = "idle" /\ ~stop[t].on /\ hub.pc = "closing" /\ shut' = "captured"
          /\ UNCHANGED <<op, hub, cvars, job, att, stop, cand, barred>>
      BY <1>0, <1>2 DEF CapturePublishes, ProcessOf, lvars
    <2>2. ProcessOf(t)' /\ LogOf(t)' /\ AttemptOf(t)' /\ StopOf(t)'
      BY <1>0, <2>1 DEF ProcessOf, LogOf, AttemptOf, StopOf, Last, cvars
    <2>3. CASE UNCHANGED mvars
      <3>1. RowOf(t)' /\ RuledOf(t)'
        BY <1>0, <2>1, <2>3 DEF RowOf, Continued, RuledOf, Vetoed, OpLives, Capturing, Last, cvars, mvars
      <3> QED BY <2>2, <3>1 DEF ChatInv
    <2>4. CASE /\ Capturing
               /\ box' = [box EXCEPT !.there = TRUE, !.launcher = hub.by,
                            !.rows = [u \in Tab |-> IF Captured(u)
                                        THEN [state |-> "pending", by |-> 0,
                                              turn |-> cand[u].turn, moved |-> cand[u].moved]
                                        ELSE NoRow]]
      <3>1. box'.there /\ box'.vetoes = box.vetoes
        BY <2>4 DEF Box
      <3>2. box'.rows[t] = IF Captured(t)
                           THEN [state |-> "pending", by |-> 0,
                                 turn |-> cand[t].turn, moved |-> cand[t].moved]
                           ELSE NoRow
        BY <2>4 DEF Box
      <3>3. Last(t)' = Last(t) /\ Last(t) \in Number
        BY <2>1 DEF Last, cvars, ChatType, ChatRecord
      <3>4. CASE ~Captured(t)
        <4>1. box'.rows[t].turn = 0 /\ box'.rows[t].state = "none"
          BY <3>2, <3>4 DEF NoRow
        <4>2. RowOf(t)'
          BY <2>1, <3>3, <4>1 DEF RowOf, Number
        <4>3. RuledOf(t)'
          BY <1>0, <2>1, <3>1, <4>1 DEF RuledOf, Unsettled, Capturing, Last, cvars
        <4> QED BY <2>2, <4>2, <4>3 DEF ChatInv
      <3>5. CASE Captured(t)
        <4>1. /\ box'.rows[t].turn = Last(t) /\ box'.rows[t].state = "pending"
              /\ Last(t) # 0 /\ cand[t].turn = Last(t) /\ t \notin box.vetoes
          BY <1>0, <3>2, <3>5 DEF Captured, ProcessOf
        <4>2. ~Continued(t)'
          <5>1. \A m \in Turn : log[t][m].of = Last(t) => m > Last(t)
            BY <1>0, <3>3, <4>1 DEF LogOf, Turn, Number
          <5> QED BY <1>0, <2>1, <4>1, <5>1 DEF LogOf, Continued, cvars
        <4>3. RowOf(t)'
          BY <2>1, <3>1, <3>3, <4>1, <4>2 DEF RowOf, Number
        <4>4. <<t, Last(t)>> \notin barred
          BY <1>0, <2>4, <4>1 DEF RuledOf
        <4>5. RuledOf(t)'
          BY <1>0, <2>1, <3>1, <4>1, <4>4 DEF RuledOf, Unsettled, Capturing, Last, cvars
        <4> QED BY <2>2, <4>3, <4>5 DEF ChatInv
      <3> QED BY <3>4, <3>5
    <2> QED BY <1>2, <2>3, <2>4 DEF CapturePublishes
  <1>3. CASE Expire
    BY <1>3, OthersKeep DEF Expire, lvars, cvars, hvars
  <1>4. CASE ReadRecovery
    <2>1. att[t] = "idle" /\ UNCHANGED <<op, hub, cvars, att, stop, shut, cand, barred>>
      BY <1>0, <1>4 DEF ReadRecovery, ProcessOf, lvars
    <2>2. /\ box'.there = box.there /\ box'.vetoes = box.vetoes
          /\ box'.rows[t].turn = box.rows[t].turn
          /\ \/ box'.rows[t].state = box.rows[t].state
             \/ box.rows[t].state # "none" /\ box'.rows[t].state = "failed"
      <3>1. CASE UNCHANGED box
        BY <3>1
      <3>2. CASE box' = [box EXCEPT !.rows = [u \in Tab |-> GivenUp(box.rows[u])]]
        <4>1. box'.there = box.there /\ box'.vetoes = box.vetoes /\ box'.rows[t] = GivenUp(box.rows[t])
          BY <3>2 DEF Box
        <4>2. box.rows[t] \in Row
          BY DEF Box
        <4> QED BY <4>1, <4>2 DEF GivenUp, Row
      <3> QED BY <1>4, <3>1, <3>2 DEF ReadRecovery
    <2>3. ProcessOf(t)' /\ LogOf(t)' /\ AttemptOf(t)' /\ StopOf(t)'
      BY <1>0, <2>1, <2>2 DEF ProcessOf, LogOf, AttemptOf, StopOf, Last, cvars
    <2>4. RowOf(t)' /\ RuledOf(t)'
      BY <1>0, <2>1, <2>2 DEF RowOf, Continued, RuledOf, Unsettled, Vetoed, OpLives, Capturing, Last, cvars
    <2> QED BY <2>3, <2>4 DEF ChatInv
  <1>5. ASSUME NEW u \in Tab, Visit(u) PROVE ChatInv(t)'
    <2>1. /\ hub.pc = "closing" /\ UNCHANGED <<op, hub, mvars, cvars, job, att, stop, shut, barred>>
      BY <1>5 DEF Visit, lvars
    <2>2. \/ cand'[t].turn = cand[t].turn
          \/ cand'[t].turn = Last(t) /\ chat[t].live /\ chat[t].archived = "no"
      BY <1>5 DEF Visit, CandType, CandRecord
    <2>3. ProcessOf(t)' /\ LogOf(t)' /\ AttemptOf(t)' /\ StopOf(t)'
      BY <1>0, <2>1, <2>2 DEF ProcessOf, LogOf, AttemptOf, StopOf, Continued, Fate, Last, cvars, mvars
    <2>4. RowOf(t)' /\ RuledOf(t)'
      BY <1>0, <2>1, <2>2 DEF RowOf, Continued, RuledOf, Vetoed, OpLives, Capturing, Last, cvars, mvars
    <2> QED BY <2>3, <2>4 DEF ChatInv
  <1>6. ASSUME NEW u \in Tab, StopTailer(u) PROVE ChatInv(t)'
    <2>1. /\ hub.pc = "closing" /\ shut = "captured" /\ Ends(u, "interrupted")
          /\ UNCHANGED <<op, hub, mvars, job, att, stop, shut, cand, barred>>
      BY <1>6 DEF StopTailer, lvars, hvars
    <2>2. Last(u) # 0 /\ Fate(u) = "open" /\ att[t] = "idle" /\ ~stop[t].on
      BY <1>0, <1>6, <2>1 DEF StopTailer, InFlight, Fate, ProcessOf
    <2>3. /\ Last(t)' = Last(t) /\ chat'[t].archived = chat[t].archived
          /\ chat'[t].live => chat[t].live
      BY <2>1, <2>2, EndsEffect DEF Last
    <2>4. LogOf(t)' /\ (Continued(t)' <=> Continued(t))
      BY <1>0, <2>1, <2>2, EndKeepsLog DEF mvars
    <2>5. ProcessOf(t)' /\ AttemptOf(t)' /\ StopOf(t)'
      BY <1>0, <2>1, <2>2, <2>3 DEF ProcessOf, AttemptOf, StopOf, mvars
    <2>6. RowOf(t)' /\ RuledOf(t)'
      BY <1>0, <2>1, <2>2, <2>3, <2>4 DEF RowOf, RuledOf, Vetoed, OpLives, Capturing, mvars
    <2> QED BY <2>4, <2>5, <2>6 DEF ChatInv
  <1> QED BY <1>1, <1>2, <1>3, <1>4, <1>5, <1>6

(* The steps of an attempt, for its Chat. *)
LEMMA AttemptKeeps ==
  ASSUME TypeOK, Lifecycle, Process, NEW t \in Tab, ChatInv(t), TypeOK', Attempts(t)
  PROVE  ChatInv(t)'
  <1> USE TypeParts, Bounds DEF Alive
  <1>0. ProcessOf(t) /\ LogOf(t) /\ RowOf(t) /\ AttemptOf(t) /\ RuledOf(t) /\ StopOf(t)
    BY DEF ChatInv
  <1>00. /\ UNCHANGED <<op, hub, launcher, late, stop, shut, cand, barred>>
         /\ box'.there = box.there /\ box'.vetoes = box.vetoes
         /\ job'.read = job.read /\ box'.rows[t].turn = box.rows[t].turn
    BY AttemptFrame
  <1>01. /\ box.rows[t].state \in RowState /\ box.rows[t].turn \in Nat /\ Last(t) \in Nat
    BY Counting DEF Box, Row
  (* The settling of a row whose attempt ends, the log left alone. *)
  <1>S. ASSUME UNCHANGED cvars, att'[t] = "idle",
               \/ box'.rows[t].state = box.rows[t].state
               \/ /\ box.rows[t].state = "claimed"
                  /\ \/ box'.rows[t].state = "failed"
                     \/ box'.rows[t].state = "skipped" /\ att[t] \in {"claimed", "checked", "published"}
                     \/ box'.rows[t].state = "started" /\ att[t] = "given"
        PROVE  ChatInv(t)'
    <2>1. Continued(t)' <=> Continued(t)
      BY <1>00, <1>S DEF Continued, cvars
    <2>2. att[t] = "given" /\ box.rows[t].turn # 0 => Continued(t)
      <3>1. Last(t) # 0 => Last(t) \in Turn
        BY DEF ChatType, ChatRecord, Last, Turn, Number
      <3> QED BY <1>0, <3>1 DEF AttemptOf, Continued
    <2>3. RowOf(t)'
      BY <1>0, <1>00, <1>01, <1>S, <2>1, <2>2 DEF RowOf, AttemptOf, Last, cvars
    <2>4. ProcessOf(t)' /\ LogOf(t)' /\ AttemptOf(t)'
      BY <1>0, <1>00, <1>S DEF ProcessOf, LogOf, AttemptOf, Last, cvars
    <2>5. RuledOf(t)' /\ StopOf(t)'
      BY <1>0, <1>00, <1>S DEF RuledOf, StopOf, Vetoed, OpLives, Capturing, Unsettled, Last, cvars
    <2> QED BY <2>3, <2>4, <2>5 DEF ChatInv
  <1>1. CASE Claim(t)
    <2>1. UNCHANGED cvars /\ Alive /\ job.read
      BY <1>1 DEF Claim, Process
    <2>2. CASE UNCHANGED <<box, att>>
      BY <1>00, <2>1, <2>2, OthersKeep DEF cvars
    <2>3. CASE /\ box.rows[t].state = "pending" /\ att' = [att EXCEPT ![t] = "claimed"]
               /\ box' = [box EXCEPT !.rows[t].state = "claimed", !.rows[t].by = hub.id]
      <3>1. box'.rows[t].state = "claimed" /\ att'[t] = "claimed"
        BY <2>3 DEF Box, Row, AttType
      <3>2. Continued(t)' <=> Continued(t)
        BY <1>00, <2>1 DEF Continued, cvars
      <3>3. ProcessOf(t)' /\ LogOf(t)'
        BY <1>0, <1>00, <2>1, <3>1 DEF ProcessOf, LogOf, Process, Last, cvars
      <3>4. RowOf(t)' /\ AttemptOf(t)'
        BY <1>0, <1>00, <2>1, <2>3, <3>1, <3>2 DEF RowOf, AttemptOf, Last, cvars
      <3>5. RuledOf(t)' /\ StopOf(t)'
        BY <1>0, <1>00, <2>1, <2>3, <3>1 DEF RuledOf, StopOf, Vetoed, OpLives, Capturing, Unsettled, Last, cvars
      <3> QED BY <3>3, <3>4, <3>5 DEF ChatInv
    <2> QED BY <1>1, <2>2, <2>3 DEF Claim
  <1>2. CASE Check(t)
    <2>1. CASE SameChat(t) /\ WasCut(t)
      <3>1. UNCHANGED <<box, cvars>> /\ att[t] = "claimed" /\ att'[t] = "checked"
        BY <1>2, <2>1 DEF Check, AttType
      <3>2. ProcessOf(t)' /\ LogOf(t)' /\ AttemptOf(t)'
        BY <1>0, <1>00, <3>1 DEF ProcessOf, LogOf, AttemptOf, Continued, Last, cvars
      <3>3. RowOf(t)' /\ RuledOf(t)' /\ StopOf(t)'
        BY <1>0, <1>00, <3>1 DEF RowOf, RuledOf, StopOf, Continued, Vetoed, OpLives, Capturing, Last, cvars
      <3> QED BY <3>2, <3>3 DEF ChatInv
    <2>2. CASE ~(SameChat(t) /\ WasCut(t))
      <3>1. UNCHANGED cvars /\ att'[t] = "idle" /\ att[t] = "claimed" /\ box' = Settled(t, "skipped")
        BY <1>2, <2>2 DEF Check, Skip, AttType
      <3> QED BY <1>S, <3>1, SettledEffect
    <2> QED BY <2>1, <2>2
  <1>3. CASE Publish(t)
    <2>1. CASE UNCHANGED cvars
      <3>1. CASE att' = [att EXCEPT ![t] = "idle"]
        <4>1. att'[t] = "idle" /\ att[t] = "checked"
              /\ (box' = Settled(t, "skipped") \/ box' = Settled(t, "failed"))
          BY <1>3, <3>1 DEF Publish, Skip, AttType
        <4> QED BY <1>S, <2>1, <4>1, SettledEffect
      <3>2. CASE ~(att' = [att EXCEPT ![t] = "idle"])
        <4>1. chat' = [chat EXCEPT ![t].last = @ + 1] /\ chat[t] \in ChatRecord
          BY <1>3, <3>2 DEF Publish, Skip, ChatType
        <4>2. chat'[t].last = chat[t].last + 1 /\ chat[t].last \in Nat
          BY <1>01, <4>1 DEF ChatType, ChatRecord, Last
        <4> QED BY <2>1, <4>2 DEF cvars
      <3> QED BY <3>1, <3>2
    <2>2. CASE /\ SameChat(t) /\ WasCut(t) /\ Last(t) < MaxTurns
               /\ log' = [log EXCEPT ![t][Last(t) + 1] =
                            [of |-> box.rows[t].turn, given |-> FALSE, fate |-> "open"]]
               /\ chat' = [chat EXCEPT ![t].last = @ + 1]
               /\ att' = [att EXCEPT ![t] = "published"]
               /\ UNCHANGED box
      <3> DEFINE new == [of |-> box.rows[t].turn, given |-> FALSE, fate |-> "open"]
      <3>1. /\ att[t] = "checked" /\ att'[t] = "published" /\ hub.pc \in {"boot", "serving"}
            /\ box.rows[t].turn = Last(t) /\ Last(t) # 0 /\ log[t][Last(t)].fate = "interrupted"
            /\ box.rows[t].state = "claimed" /\ t \notin box.vetoes
        BY <1>3, <2>2 DEF Publish, SameChat, ClaimHolds, WasCut, Fate, AttType
      <3>2. Last(t) \in Turn /\ Last(t) + 1 \in Turn
        BY <2>2, <3>1, NewTurnType DEF Turn, Number
      <3>3. /\ Last(t)' = Last(t) + 1 /\ chat'[t].archived = chat[t].archived /\ ~chat'[t].live
        <4>1. chat[t] \in ChatRecord /\ ~chat[t].live
          BY <3>1 DEF ChatType, InFlight
        <4> QED BY <2>2, <4>1 DEF ChatType, ChatRecord, Last
      <3>4. /\ log'[t][Last(t) + 1] = new
            /\ \A n \in Turn : n # Last(t) + 1 => log'[t][n] = log[t][n]
        BY <2>2, <3>2 DEF LogType
      <3>5. LogOf(t)'
        <4>1. ASSUME NEW m \in Turn, m > Last(t) + 1
              PROVE  log'[t][m].of = 0 /\ ~log'[t][m].given
          BY <1>0, <1>01, <3>4, <4>1 DEF LogOf, Turn
        <4>2. ASSUME NEW m \in Turn, log'[t][m].of # 0
              PROVE  log'[t][m].of = m - 1 /\ log'[t][m - 1].fate = "interrupted"
          <5>1. CASE m = Last(t) + 1
            <6>1. m - 1 = Last(t) /\ log'[t][Last(t)] = log[t][Last(t)]
              BY <1>01, <3>2, <3>4, <5>1
            <6> QED BY <3>1, <3>4, <5>1, <6>1
          <5>2. CASE m # Last(t) + 1
            <6>1. log[t][m].of = m - 1 /\ log[t][m - 1].fate = "interrupted" /\ m - 1 # 0 /\ m <= Last(t)
              BY <1>0, <1>01, <3>4, <4>2, <5>2 DEF LogOf, Turn
            <6>2. m - 1 \in Turn /\ m - 1 # Last(t) + 1
              BY <1>01, <6>1 DEF Turn
            <6> QED BY <3>4, <5>2, <6>1, <6>2
          <5> QED BY <5>1, <5>2
        <4> QED BY <3>3, <4>1, <4>2 DEF LogOf
      <3>6. ~Continued(t) /\ ~Continued(t)'
        <4>1. ~Continued(t)
          BY <1>0, <3>1 DEF AttemptOf
        <4>2. ASSUME NEW m \in Turn PROVE ~(log'[t][m].given /\ log'[t][m].of = box'.rows[t].turn)
          BY <1>00, <3>4, <4>1 DEF Continued
        <4> QED BY <4>1, <4>2 DEF Continued
      <3>7. ProcessOf(t)'
        BY <1>0, <1>00, <3>1, <3>3 DEF ProcessOf
      <3>8. RowOf(t)'
        BY <1>0, <1>00, <1>01, <2>2, <3>1, <3>3, <3>6 DEF RowOf
      <3>9. AttemptOf(t)'
        BY <1>00, <1>01, <2>2, <3>1, <3>3, <3>4, <3>6 DEF AttemptOf, Fate
      <3>10. RuledOf(t)'
        BY <1>0, <1>00, <1>01, <2>2, <3>1, <3>2, <3>3 DEF RuledOf, ProcessOf, Vetoed, OpLives, Capturing, Turn
      <3>11. StopOf(t)'
        BY <3>3 DEF StopOf
      <3> QED BY <3>5, <3>7, <3>8, <3>9, <3>10, <3>11 DEF ChatInv
    <2> QED BY <1>3, <2>1, <2>2 DEF Publish
  <1>4. CASE Finish(t)
    <2>1. UNCHANGED cvars /\ att'[t] = "idle" /\ att[t] = "given" /\ box' = Settled(t, "started")
      BY <1>4 DEF Finish, AttType
    <2> QED BY <1>S, <2>1, SettledEffect
  <1>5. CASE Cancel(t)
    <2>1. UNCHANGED cvars /\ att'[t] = "idle" /\ box' = Settled(t, "failed")
      BY <1>5 DEF Cancel, AttType
    <2> QED BY <1>S, <2>1, SettledEffect
  <1>6. CASE Deliver(t)
    <2>1. /\ att[t] = "published" /\ Last(t) # 0 /\ Fate(t) = "open" /\ ~chat[t].live
          /\ hub.pc # "none" /\ chat[t] \in ChatRecord
      BY <1>0, <1>6 DEF Deliver, AttemptOf, ProcessOf, ChatType
    <2>2. Last(t) \in Turn
      BY <2>1 DEF ChatType, ChatRecord, Last, Turn, Number
    <2>3. CASE /\ Ends(t, "ended") /\ att' = [att EXCEPT ![t] = "idle"]
               /\ (box' = Settled(t, "failed") \/ box' = Settled(t, "skipped"))
      <3>1. /\ Last(t)' = Last(t) /\ chat'[t].archived = chat[t].archived /\ ~chat'[t].live
            /\ att'[t] = "idle"
        BY <2>1, <2>3, EndsEffect DEF Last, AttType
      <3>2. LogOf(t)' /\ (Continued(t)' <=> Continued(t))
        BY <1>0, <1>00, <2>1, <2>3, EndKeepsLog
      <3>3. \/ box'.rows[t].state = box.rows[t].state
            \/ /\ box.rows[t].state = "claimed" /\ box'.rows[t].state \in {"failed", "skipped"}
        BY <2>3, SettledEffect
      <3>4. ProcessOf(t)' /\ AttemptOf(t)' /\ StopOf(t)'
        BY <1>0, <1>00, <3>1 DEF ProcessOf, AttemptOf, StopOf
      <3>5. RowOf(t)'
        BY <1>0, <1>00, <1>01, <2>1, <3>1, <3>2, <3>3 DEF RowOf, AttemptOf
      <3>6. RuledOf(t)'
        BY <1>0, <1>00, <3>1, <3>3 DEF RuledOf, Vetoed, OpLives, Capturing, Unsettled
      <3> QED BY <3>2, <3>4, <3>5, <3>6 DEF ChatInv
    <2>4. CASE /\ SameChat(t)
               /\ log' = [log EXCEPT ![t][Last(t)].given = TRUE]
               /\ chat' = [chat EXCEPT ![t].live = TRUE]
               /\ \/ att' = [att EXCEPT ![t] = "given"] /\ UNCHANGED box
                  \/ box' = Settled(t, "failed") /\ att' = [att EXCEPT ![t] = "idle"]
      <3>1. /\ box.rows[t].state = "claimed" /\ t \notin box.vetoes /\ OpLives /\ hub.pc \in {"boot", "serving"}
            /\ chat[t].archived = "no"
        BY <2>4 DEF SameChat, ClaimHolds, Consumable, Recovering, OpLives
      <3>2. /\ box.rows[t].turn # 0 /\ Last(t) = box.rows[t].turn + 1
            /\ log[t][Last(t)].of = box.rows[t].turn /\ <<t, Last(t)>> \notin barred
        BY <1>0, <2>1, <3>1 DEF RowOf, AttemptOf, RuledOf, Vetoed
      <3>3. Last(t)' = Last(t) /\ chat'[t].archived = "no" /\ chat'[t].live
        BY <2>1, <2>4, <3>1 DEF ChatType, ChatRecord, Last
      <3>4. /\ \A n \in Turn : log'[t][n].of = log[t][n].of /\ log'[t][n].fate = log[t][n].fate
            /\ \A n \in Turn : n # Last(t) => log'[t][n] = log[t][n]
            /\ log'[t][Last(t)].given
        <4> DEFINE e == [log[t][Last(t)] EXCEPT !.given = TRUE]
        <4>1. log[t][Last(t)] \in Entry
          BY <2>2 DEF LogType
        <4>2. e.given /\ e.of = log[t][Last(t)].of /\ e.fate = log[t][Last(t)].fate
          BY <4>1 DEF Entry
        <4>3. log' = [log EXCEPT ![t] = [log[t] EXCEPT ![Last(t)] = e]]
          BY <2>4
        <4>4. log'[t][Last(t)] = e /\ \A n \in Turn : n # Last(t) => log'[t][n] = log[t][n]
          BY <2>2, <4>3 DEF LogType
        <4> QED BY <4>2, <4>4
      <3>5. LogOf(t)'
        <4>1. ASSUME NEW m \in Turn, log'[t][m].of # 0
              PROVE  log'[t][m].of = m - 1 /\ log'[t][m - 1].fate = "interrupted"
          <5>1. log[t][m].of = m - 1 /\ log[t][m - 1].fate = "interrupted" /\ m - 1 # 0
            BY <1>0, <3>4, <4>1 DEF LogOf
          <5>2. m - 1 \in Turn
            BY <5>1 DEF Turn
          <5> QED BY <3>4, <5>1, <5>2
        <4>2. \A m \in Turn : m > Last(t) => log'[t][m].of = 0 /\ ~log'[t][m].given
          BY <1>0, <1>01, <3>4 DEF LogOf, Turn
        <4> QED BY <3>3, <4>1, <4>2 DEF LogOf
      <3>6. Continued(t)'
        BY <1>00, <2>2, <3>2, <3>4 DEF Continued
      <3>7. /\ \/ att'[t] = "given" /\ box'.rows[t].state = "claimed"
               \/ att'[t] = "idle" /\ box'.rows[t].state \in {"claimed", "failed"}
        BY <2>4, <3>1, SettledEffect DEF AttType
      <3>8. ProcessOf(t)' /\ StopOf(t)'
        BY <1>0, <1>00, <2>1, <3>1, <3>3, <3>7 DEF ProcessOf, StopOf
      <3>9. RowOf(t)'
        BY <1>0, <1>00, <1>01, <3>1, <3>2, <3>3, <3>7 DEF RowOf
      <3>10. AttemptOf(t)'
        BY <1>0, <1>00, <2>1, <2>2, <3>2, <3>3, <3>4, <3>7 DEF AttemptOf
      <3>11. RuledOf(t)'
        BY <1>0, <1>00, <3>1, <3>2, <3>3, <3>7 DEF RuledOf, Vetoed, OpLives, Capturing, Unsettled
      <3> QED BY <3>5, <3>8, <3>9, <3>10, <3>11 DEF ChatInv
    <2> QED BY <1>6, <2>3, <2>4 DEF Deliver
  <1> QED BY <1>1, <1>2, <1>3, <1>4, <1>5, <1>6 DEF Attempts

(* The steps of the users, for their Chat. *)
LEMMA UserKeeps ==
  ASSUME TypeOK, Lifecycle, Process, NEW t \in Tab, ChatInv(t), TypeOK', Users(t)
  PROVE  ChatInv(t)'
  <1> USE TypeParts, Bounds DEF Alive
  <1>0. ProcessOf(t) /\ LogOf(t) /\ RowOf(t) /\ AttemptOf(t) /\ RuledOf(t) /\ StopOf(t)
    BY DEF ChatInv
  <1>00. /\ UNCHANGED <<op, hub, launcher, late, job, att, shut, cand>>
         /\ box'.there = box.there /\ box'.rows[t].turn = box.rows[t].turn
    BY UserFrame
  <1>01. /\ box.rows[t].state \in RowState /\ box.rows[t].turn \in Nat /\ Last(t) \in Nat
         /\ chat[t] \in ChatRecord /\ (Last(t) # 0 => Last(t) \in Turn)
    BY Counting DEF Box, Row, ChatType, ChatRecord, Last, Turn, Number
  (* The latest turn ends, and perhaps a Stop has ended it. *)
  <1>E. ASSUME Last(t) # 0, Fate(t) = "open", att[t] # "published", UNCHANGED box,
               NEW fate \in {"interrupted", "cancelled", "ended"}, Ends(t, fate),
               \/ UNCHANGED <<stop, barred>>
               \/ /\ stop' = [stop EXCEPT ![t] = NoStop] /\ stop[t].on /\ Matches(t)
                  /\ barred' = barred \cup {<<t, Last(t)>>} /\ ~Locked(t)
        PROVE  ChatInv(t)'
    <2>1. /\ LogOf(t)' /\ (Continued(t)' <=> Continued(t)) /\ Last(t)' = Last(t) /\ ~chat'[t].live
          /\ log'[t][Last(t)].of = log[t][Last(t)].of /\ log'[t][Last(t)].given = log[t][Last(t)].given
          /\ chat'[t].archived = chat[t].archived
      BY <1>0, <1>00, <1>E, EndKeepsLog, EndsEffect
    <2>2. RowOf(t)' /\ AttemptOf(t)' /\ StopOf(t)'
      BY <1>0, <1>00, <1>E, <2>1 DEF RowOf, AttemptOf, StopOf
    <2>3. ProcessOf(t)'
      BY <1>0, <1>00, <1>E, <2>1 DEF ProcessOf, NoStop, StopType
    <2>4. CASE UNCHANGED <<stop, barred>>
      BY <1>0, <1>00, <1>E, <2>1, <2>2, <2>3, <2>4 DEF RuledOf, Vetoed, OpLives, Capturing, ChatInv
    <2>5. CASE /\ stop' = [stop EXCEPT ![t] = NoStop] /\ stop[t].on /\ Matches(t)
               /\ barred' = barred \cup {<<t, Last(t)>>} /\ ~Locked(t)
      <3>1. ~stop'[t].on
        BY <2>5 DEF StopType, NoStop
      <3>2. box.rows[t].state \in Unsettled /\ box.rows[t].turn = Last(t) => Vetoed(t)
        BY <1>0, <2>5 DEF RuledOf, Matches
      <3>3. cand[t].turn = 0
        BY <1>0, <2>5 DEF ProcessOf
      <3>4. \A n : <<t, n>> \in barred' <=> <<t, n>> \in barred \/ n = Last(t)
        BY <2>5
      <3>5. RuledOf(t)'
        BY <1>0, <1>00, <1>01, <1>E, <2>1, <2>5, <3>1, <3>2, <3>3, <3>4
          DEF RuledOf, Vetoed, OpLives, Locked
      <3> QED BY <2>1, <2>2, <2>3, <3>5 DEF ChatInv
    <2> QED BY <1>E, <2>4, <2>5
  <1>1. CASE UserSends(t)
    <2>1. /\ hub.pc = "serving" /\ ~Locked(t) /\ Last(t) < MaxTurns /\ ~chat[t].live
          /\ chat[t].archived = "no" /\ UNCHANGED <<box, att, stop, shut, cand, barred, job>>
      BY <1>1 DEF UserSends, Serving, mvars, hvars
    <2> DEFINE new == [of |-> 0, given |-> TRUE, fate |-> "open"]
    <2>2. /\ Last(t)' = Last(t) + 1 /\ chat'[t].archived = "no" /\ chat'[t].live
          /\ log'[t][Last(t) + 1] = new /\ Last(t) + 1 \in Turn
          /\ \A n \in Turn : n # Last(t) + 1 =>
               /\ log'[t][n].of = log[t][n].of /\ log'[t][n].given = log[t][n].given
               /\ log[t][n].fate = "interrupted" => log'[t][n].fate = "interrupted"
      BY <1>1, <2>1, SendsEffect, NewTurnType DEF Fate
    <2>3. LogOf(t)'
      <3>1. ASSUME NEW m \in Turn, log'[t][m].of # 0
            PROVE  log'[t][m].of = m - 1 /\ log'[t][m - 1].fate = "interrupted"
        <4>1. m # Last(t) + 1
          BY <2>2, <3>1
        <4>2. log[t][m].of = m - 1 /\ log[t][m - 1].fate = "interrupted" /\ m - 1 # 0 /\ m <= Last(t)
          BY <1>0, <1>01, <2>2, <3>1, <4>1 DEF LogOf, Turn
        <4>3. m - 1 \in Turn /\ m - 1 # Last(t) + 1
          BY <1>01, <4>2 DEF Turn
        <4> QED BY <2>2, <4>1, <4>2, <4>3
      <3>2. ASSUME NEW m \in Turn, m > Last(t) + 1
            PROVE  log'[t][m].of = 0 /\ ~log'[t][m].given
        <4>1. m # Last(t) + 1 /\ m > Last(t)
          BY <1>01, <3>2 DEF Turn
        <4> QED BY <1>0, <2>2, <4>1 DEF LogOf
      <3> QED BY <2>2, <3>1, <3>2 DEF LogOf
    <2>4. box.rows[t].turn # 0 => (Continued(t)' <=> Continued(t))
      <3>1. log[t][Last(t) + 1].of = 0 /\ log'[t][Last(t) + 1].of = 0
        BY <1>0, <1>01, <2>2 DEF LogOf
      <3> QED BY <2>1, <2>2, <3>1 DEF Continued
    <2>5. ProcessOf(t)' /\ StopOf(t)'
      BY <1>0, <1>00, <2>1, <2>2 DEF ProcessOf, StopOf, RowOf
    <2>6. RowOf(t)'
      BY <1>0, <1>00, <1>01, <2>1, <2>2, <2>4 DEF RowOf
    <2>7. AttemptOf(t)'
      BY <1>0, <2>1, <2>2, <2>4 DEF AttemptOf, Locked
    <2>8. RuledOf(t)'
      BY <1>0, <1>00, <1>01, <2>1, <2>2 DEF RuledOf, ProcessOf, Locked, Vetoed, OpLives, Turn
    <2> QED BY <2>3, <2>5, <2>6, <2>7, <2>8 DEF ChatInv
  <1>2. CASE TurnEnds(t) \/ StreamOpens(t)
    <2>1. /\ Last(t) # 0 /\ Fate(t) = "open" /\ att[t] # "published" /\ UNCHANGED <<box, stop, barred>>
          /\ Ends(t, "ended") \/ Ends(t, "interrupted")
      BY <1>0, <1>2 DEF TurnEnds, StreamOpens, InFlight, Fate, AttemptOf, Locked, mvars, hvars
    <2> QED BY <1>E, <2>1
  <1>3. ASSUME NEW want \in Number, StopBegins(t, want) PROVE ChatInv(t)'
    <2>1. /\ hub.pc = "serving" /\ ~stop[t].on /\ want <= Last(t) /\ Last(t) > 0
          /\ box' = Revoke(t, want) /\ UNCHANGED cvars
      BY <1>3 DEF StopBegins, Serving
    <2>2. box'.rows[t].state = (IF Names(t, want) THEN "stopped" ELSE box.rows[t].state)
          /\ box'.vetoes = box.vetoes
      BY <2>1, RevokeEffect
    <2>3. Continued(t)' <=> Continued(t)
      BY <1>00, <2>1 DEF Continued, cvars
    <2>4. stop'[t].on /\ IF want # 0 /\ Names(t, want)
                         THEN stop'[t].cont /\ stop'[t].want = box.rows[t].turn
                         ELSE ~stop'[t].cont /\ stop'[t].want = want
      BY <1>3 DEF StopBegins, StopType
    <2>5. Names(t, want) => box.rows[t].state \in {"pending", "claimed", "started"} /\ box.rows[t].turn # 0
      BY <1>0 DEF Names, Unsettled, RowOf
    <2>6. box.there => (OpLives <=> Recovering)
      BY <1>00, <2>1 DEF Lifecycle, OpLives, Recovering
    <2>7. box.rows[t].turn # 0 => box.there
      BY <1>0 DEF RowOf
    <2>8. ~Names(t, want) /\ box.rows[t].state \in Unsettled /\ want \in {0, box.rows[t].turn} => Vetoed(t)
      BY <1>0, <2>6, <2>7 DEF Names, Vetoed, RowOf, Unsettled
    <2>9. ProcessOf(t)' /\ LogOf(t)'
      BY <1>0, <1>00, <2>1 DEF ProcessOf, LogOf, Last, cvars
    <2>10. RowOf(t)' /\ AttemptOf(t)'
      BY <1>0, <1>00, <2>1, <2>2, <2>3, <2>5 DEF RowOf, AttemptOf, Fate, Last, cvars
    <2>11. StopOf(t)'
      BY <1>0, <1>00, <2>1, <2>2, <2>4 DEF StopOf, Last, cvars
    <2>12. \A n : <<t, n>> \in barred' =>
              <<t, n>> \in barred \/ (Names(t, want) /\ n = box.rows[t].turn /\ n # 0)
      BY <1>3 DEF StopBegins, RuledOut
    <2>13. RuledOf(t)'
      <3>1. \A n \in Turn : <<t, n>> \in barred' => n <= Last(t)
        BY <1>0, <2>12 DEF RuledOf, RowOf
      <3>2. chat[t].live /\ chat[t].archived = "no" => <<t, Last(t)>> \notin barred'
        BY <1>0, <2>1, <2>12 DEF RuledOf, RowOf
      <3>3. box'.rows[t].state \in Unsettled => box'.rows[t].state = box.rows[t].state /\ ~Names(t, want)
        BY <2>2 DEF Unsettled
      <3>4. box'.rows[t].state = "claimed" => box.rows[t].state = "claimed" /\ ~Names(t, want)
        BY <2>2
      <3>5. cand[t].turn = 0
        BY <1>0, <2>1 DEF ProcessOf
      <3>6. Vetoed(t)' <=> Vetoed(t)
        BY <1>00, <2>2 DEF Vetoed, OpLives
      <3> QED BY <1>0, <1>00, <2>1, <2>4, <2>8, <2>12, <3>1, <3>2, <3>3, <3>4, <3>5, <3>6 DEF RuledOf, Last, cvars
    <2> QED BY <2>9, <2>10, <2>11, <2>13 DEF ChatInv
  <1>4. CASE StopEnds(t)
    <2>1. /\ stop[t].on /\ ~Locked(t) /\ stop' = [stop EXCEPT ![t] = NoStop] /\ UNCHANGED <<box, att, cand>>
      BY <1>4 DEF StopEnds, mvars
    <2>2. CASE Fate(t) = "open" /\ Matches(t)
      <3>1. /\ Ends(t, IF chat[t].live THEN "cancelled" ELSE "interrupted")
            /\ barred' = barred \cup {<<t, Last(t)>>}
        BY <1>4, <2>2 DEF StopEnds
      <3>2. Last(t) # 0 /\ att[t] # "published"
        BY <2>1, <2>2 DEF Fate, Locked
      <3> QED BY <1>E, <2>1, <2>2, <3>1, <3>2
    <2>3. CASE ~(Fate(t) = "open" /\ Matches(t))
      <3>1. UNCHANGED <<cvars, barred>> /\ ~stop'[t].on
        BY <1>4, <2>1, <2>3 DEF StopEnds, StopType, NoStop
      <3>2. ProcessOf(t)' /\ LogOf(t)' /\ RowOf(t)' /\ AttemptOf(t)'
        BY <1>0, <1>00, <2>1, <3>1 DEF ProcessOf, LogOf, RowOf, AttemptOf, Continued, Fate, Last, cvars
      <3>3. RuledOf(t)'
        BY <1>0, <1>00, <2>1, <3>1 DEF RuledOf, Vetoed, OpLives, Capturing, Last, cvars
      <3>4. StopOf(t)'
        <4>1. chat[t].live => Fate(t) = "open"
          BY DEF InFlight, Fate
        <4>2. chat[t].live /\ stop[t].want = (IF stop[t].cont THEN box.rows[t].turn ELSE 0)
                 => log[t][Last(t)].of # box.rows[t].turn
          BY <2>3, <4>1 DEF Matches
        <4> QED BY <1>0, <1>00, <2>1, <3>1, <4>2 DEF StopOf, Last, cvars
      <3> QED BY <3>2, <3>3, <3>4 DEF ChatInv
    <2> QED BY <2>2, <2>3
  <1>5. CASE ArchiveBegins(t)
    <2>1. /\ chat'[t].archived = "stopping" /\ chat'[t].live = chat[t].live /\ Last(t)' = Last(t)
          /\ hub.pc # "none" /\ UNCHANGED <<log, stop>>
      BY <1>5, <1>01 DEF ArchiveBegins, Running, ChatType, ChatRecord, Last
    <2>2. 0 \in Number
      BY DEF Number
    <2>3. IF Recovering \/ Capturing
          THEN /\ t \in box'.vetoes
               /\ box'.rows[t].state = IF Names(t, 0) THEN "stopped" ELSE box.rows[t].state
          ELSE box' = box
      <3>1. CASE Recovering \/ Capturing
        <4>1. box' = [Revoke(t, 0) EXCEPT !.vetoes = @ \cup {t}]
          BY <1>5, <3>1 DEF ArchiveBegins
        <4>2. box'.rows = Revoke(t, 0).rows /\ t \in box'.vetoes
          BY <2>2, <4>1, RevokeEffect DEF Box
        <4> QED BY <2>2, <3>1, <4>2, RevokeEffect
      <3>2. CASE ~(Recovering \/ Capturing)
        BY <1>5, <3>2 DEF ArchiveBegins
      <3> QED BY <3>1, <3>2
    <2>4. Continued(t)' <=> Continued(t)
      BY <1>00, <2>1 DEF Continued
    <2>5. Names(t, 0) => box.rows[t].state \in {"pending", "claimed"} /\ box.rows[t].turn # 0
      BY <1>0 DEF Names, Unsettled, RowOf
    <2>6. ProcessOf(t)' /\ LogOf(t)' /\ StopOf(t)'
      BY <1>0, <1>00, <2>1 DEF ProcessOf, LogOf, StopOf
    <2>7. RowOf(t)' /\ AttemptOf(t)'
      BY <1>0, <1>00, <2>1, <2>3, <2>4, <2>5 DEF RowOf, AttemptOf, Fate
    <2>8. \A n : <<t, n>> \in barred' => <<t, n>> \in barred \/ n \in 1 .. Last(t)
      BY <1>5 DEF ArchiveBegins
    <2>9. box.there /\ OpLives => Recovering \/ Capturing
      BY DEF Lifecycle, LifeInv, OpLives, Recovering, Capturing
    <2>10. box.rows[t].state \in {"pending", "claimed"} => box.there
      BY <1>0 DEF RowOf
    <2>11. /\ box'.rows[t].state \in {"pending", "claimed"} => Vetoed(t)'
           /\ t \in box'.vetoes \/ ~Capturing'
           /\ box'.rows[t].state \in Unsettled => Vetoed(t)'
      BY <1>00, <2>3, <2>9, <2>10 DEF Vetoed, OpLives, Capturing, Recovering, Unsettled
    <2>12. RuledOf(t)'
      <3>1. \A n \in Turn : <<t, n>> \in barred' => n <= Last(t)
        BY <1>0, <1>01, <2>8 DEF RuledOf
      <3> QED BY <2>1, <2>11, <3>1 DEF RuledOf, Unsettled
    <2> QED BY <2>6, <2>7, <2>12 DEF ChatInv
  <1>6. CASE ArchiveEnds(t)
    <2>1. /\ chat'[t].archived = "yes" /\ ~chat'[t].live /\ Last(t)' = Last(t)
          /\ UNCHANGED <<box, att, stop, cand, barred>>
      BY <1>6, <1>01 DEF ArchiveEnds, ChatType, ChatRecord, Last, mvars, hvars
    <2>2. /\ \A n \in Turn : /\ log'[t][n].of = log[t][n].of /\ log'[t][n].given = log[t][n].given
                             /\ log[t][n].fate = "interrupted" => log'[t][n].fate = "interrupted"
          /\ ~chat[t].live => log' = log
      <3>1. CASE chat[t].live
        <4> DEFINE e == [log[t][Last(t)] EXCEPT !.fate = "interrupted"]
        <4>1. Last(t) \in Turn /\ log[t][Last(t)] \in Entry
          BY <1>01, <3>1 DEF InFlight, LogType
        <4>2. e.fate = "interrupted" /\ e.of = log[t][Last(t)].of /\ e.given = log[t][Last(t)].given
          BY <4>1 DEF Entry
        <4>3. log' = [log EXCEPT ![t] = [log[t] EXCEPT ![Last(t)] = e]]
          BY <1>6, <3>1 DEF ArchiveEnds
        <4>4. \A n \in Turn : log'[t][n] = IF n = Last(t) THEN e ELSE log[t][n]
          BY <4>1, <4>3 DEF LogType
        <4> QED BY <3>1, <4>2, <4>4
      <3>2. CASE ~chat[t].live
        BY <1>6, <3>2 DEF ArchiveEnds
      <3> QED BY <3>1, <3>2
    <2>3. LogOf(t)' /\ (Continued(t)' <=> Continued(t))
      BY <1>0, <1>00, <2>1, <2>2, FatesMove
    <2>4. ProcessOf(t)' /\ StopOf(t)'
      BY <1>0, <1>00, <2>1 DEF ProcessOf, StopOf
    <2>5. RowOf(t)'
      BY <1>0, <1>00, <2>1, <2>3 DEF RowOf
    <2>6. AttemptOf(t)'
      BY <1>0, <1>00, <1>01, <2>1, <2>2, <2>3 DEF AttemptOf, Fate
    <2>7. RuledOf(t)'
      BY <1>0, <1>00, <2>1 DEF RuledOf, Vetoed, OpLives, Capturing
    <2> QED BY <2>3, <2>4, <2>5, <2>6, <2>7 DEF ChatInv
  <1>7. CASE Unarchive(t) \/ Move(t)
    <2>1. /\ UNCHANGED <<box, log, att, stop, cand, barred>> /\ Last(t)' = Last(t)
          /\ chat'[t].live = chat[t].live
          /\ \/ chat'[t].archived = chat[t].archived
             \/ ~chat[t].live /\ chat'[t].archived = "no"
      <3>1. /\ UNCHANGED <<box, log, att, stop, cand, barred>>
            /\ \/ chat' = [chat EXCEPT ![t] = [chat[t] EXCEPT !.archived = "no"]] /\ chat[t].archived = "yes"
               \/ chat' = [chat EXCEPT ![t] = [chat[t] EXCEPT !.moved = TRUE]]
        BY <1>7 DEF Unarchive, Move, mvars, hvars
      <3> QED BY <1>0, <1>01, <3>1 DEF ProcessOf, ChatType, ChatRecord, Last
    <2>2. ProcessOf(t)' /\ LogOf(t)' /\ StopOf(t)'
      BY <1>0, <1>00, <2>1 DEF ProcessOf, LogOf, StopOf
    <2>3. RowOf(t)' /\ AttemptOf(t)'
      BY <1>0, <1>00, <2>1 DEF RowOf, AttemptOf, Continued, Fate
    <2>4. RuledOf(t)'
      BY <1>0, <1>00, <2>1 DEF RuledOf, Vetoed, OpLives, Capturing
    <2> QED BY <2>2, <2>3, <2>4 DEF ChatInv
  <1> QED BY <1>1, <1>2, <1>3, <1>4, <1>5, <1>6, <1>7 DEF Users

(* ------------------------------ theorems ------------------------------- *)

(* The invariant holds before anything has started. *)
LEMMA InitInv == Init => IInv
  <1> SUFFICES ASSUME Init PROVE IInv
    OBVIOUS
  <1> USE Bounds DEF Init
  <1>1. LifecycleOK /\ Lifecycle /\ Process
    BY LifecycleAssumption DEF LInit, LifecycleOK, Instance, Launchers, Status, Active, Lifecycle, LifeInv,
          Process, EmptyBox, NoJob, Alive
  <1>2. log \in LogType
    <2>1. [of |-> 0, given |-> FALSE, fate |-> "none"] \in Entry
      BY DEF Entry, Number
    <2> QED BY <2>1 DEF LogType
  <1>3. chat \in ChatType
    <2>1. [last |-> 0, live |-> FALSE, moved |-> FALSE, archived |-> "no"] \in ChatRecord
      BY DEF ChatRecord, Number
    <2> QED BY <2>1 DEF ChatType
  <1>4. cand \in CandType
    <2>1. [seen |-> FALSE, turn |-> 0, moved |-> FALSE] \in CandRecord
      BY DEF CandRecord, Number
    <2> QED BY <2>1 DEF CandType
  <1>5. att \in AttType /\ stop \in StopType /\ shut \in ShutType
    BY EmptyBoxType DEF AttType, StopType, ShutType
  <1>6. InFlight
    BY DEF InFlight
  <1>7. TypeOK
    <2>1. box \in Box /\ job \in JobType
      BY EmptyBoxType
    <2>2. late \in BOOLEAN /\ barred \in SUBSET (Tab \X Turn)
      OBVIOUS
    <2>3. faults = 0 /\ 0 \in 0 .. MaxFaults
      OBVIOUS
    <2> HIDE DEF Init
    <2> QED BY <1>1, <1>2, <1>3, <1>4, <1>5, <1>6, <2>1, <2>2, <2>3, TypeParts
  <1>8. ASSUME NEW t \in Tab PROVE ChatInv(t)
    <2>1. /\ att[t] = "idle" /\ stop[t].on = FALSE /\ cand[t].turn = 0 /\ chat[t].last = 0
          /\ chat[t].live = FALSE /\ chat[t].archived = "no" /\ box.rows[t].turn = 0
          /\ box.rows[t].state = "none"
      BY DEF NoStop, EmptyBox, NoRow
    <2>2. \A n \in Turn : log[t][n].of = 0 /\ log[t][n].given = FALSE
      OBVIOUS
    <2> QED BY <2>1, <2>2 DEF ChatInv, ProcessOf, LogOf, RowOf, AttemptOf, RuledOf, StopOf, Last, Unsettled
  <1> QED BY <1>1, <1>7, <1>8 DEF IInv

(* Every step keeps it: the acting Chat by its own lemma, the others by theirs. *)
LEMMA StepInv == IInv /\ [Next]_vars => IInv'
  <1> SUFFICES ASSUME IInv, [Next]_vars PROVE IInv'
    OBVIOUS
  <1>1. TypeOK /\ Lifecycle /\ Process /\ \A t \in Tab : ChatInv(t)
    BY DEF IInv
  <1>2. LifecycleOK' /\ Lifecycle' /\ Process'
    BY <1>1, GlobalStep
  <1>3. CASE \/ AskRestart \/ LauncherActs \/ LauncherIsKilled \/ NewHub \/ HubIsUp
             \/ Quiesce \/ HubDies \/ HubShutsDown
    <2>1. TypeOK'
      BY <1>1, <1>2, <1>3, TypeProcess
    <2> QED BY <1>1, <1>2, <1>3, <2>1, ProcessKeeps DEF IInv
  <1>4. CASE \/ CaptureBegins \/ CapturePublishes \/ Expire \/ ReadRecovery
             \/ \E t \in Tab : Visit(t) \/ StopTailer(t)
    <2>1. TypeOK'
      BY <1>1, <1>2, <1>4, TypeCapture
    <2> QED BY <1>1, <1>2, <1>4, <2>1, CaptureKeeps DEF IInv
  <1>5. ASSUME NEW t \in Tab, Attempts(t) PROVE IInv'
    <2>1. TypeOK'
      BY <1>1, <1>2, <1>5, TypeAttempts DEF ChatInv
    <2>2. ASSUME NEW u \in Tab, u # t PROVE ChatInv(u)'
      <3>1. /\ UNCHANGED <<op, hub, stop, shut, cand, barred>>
            /\ box'.there = box.there /\ box'.vetoes = box.vetoes /\ job'.read = job.read
            /\ box'.rows[u].turn = box.rows[u].turn /\ box'.rows[u].state = box.rows[u].state
            /\ att'[u] = att[u] /\ chat'[u] = chat[u] /\ log'[u] = log[u]
        BY <1>1, <1>5, <2>2, AttemptFrame
      <3> QED BY <1>1, <3>1, OthersKeep
    <2>3. ChatInv(t)'
      BY <1>1, <1>5, <2>1, AttemptKeeps
    <2> QED BY <1>2, <2>1, <2>2, <2>3 DEF IInv
  <1>6. ASSUME NEW t \in Tab, Users(t) PROVE IInv'
    <2>1. TypeOK'
      BY <1>1, <1>2, <1>6, TypeUsers
    <2>2. ASSUME NEW u \in Tab, u # t PROVE ChatInv(u)'
      <3>1. /\ UNCHANGED <<op, hub, job, att, shut, cand>>
            /\ box'.there = box.there /\ (u \in box'.vetoes <=> u \in box.vetoes)
            /\ box'.rows[u].turn = box.rows[u].turn /\ box'.rows[u].state = box.rows[u].state
            /\ stop'[u] = stop[u] /\ chat'[u] = chat[u] /\ log'[u] = log[u]
            /\ \A n : <<u, n>> \in barred' <=> <<u, n>> \in barred
        BY <1>1, <1>6, <2>2, UserFrame
      <3> QED BY <1>1, <3>1, OthersKeep
    <2>3. ChatInv(t)'
      BY <1>1, <1>6, <2>1, UserKeeps
    <2> QED BY <1>2, <2>1, <2>2, <2>3 DEF IInv
  <1>7. CASE UNCHANGED vars
    <2>1. UNCHANGED <<op, hub, launcher, box, late, log, chat, job, att, stop, shut, cand, barred, faults>>
      BY <1>7 DEF vars, mvars, cvars, hvars
    <2>2. TypeOK'
      BY <1>1, <1>2, <2>1, TypeParts, TypePartsNext DEF InFlight, Running, Last
    <2>3. \A u \in Tab : ChatInv(u)'
      BY <1>1, <2>1, OthersKeep
    <2> QED BY <1>2, <2>2, <2>3 DEF IInv
  <1> QED BY <1>3, <1>4, <1>5, <1>6, <1>7 DEF Next

(* The inductive invariant holds in every state the composition reaches.   *)
THEOREM ContinuationInvariant == Spec => []IInv
  BY InitInv, StepInv, PTL DEF Spec

(* Records stay well formed, and what a provider works on is the latest    *)
(* turn of its Chat, still open in the log of a running Hub.               *)
THEOREM ContinuationTypes == Spec => []TypeOK
  <1>1. IInv => TypeOK
    BY DEF IInv
  <1> QED BY <1>1, ContinuationInvariant, PTL

(* Newer input of the user always wins and no turn is continued twice, for *)
(* any number of restarts, crashes and attempts.                           *)
THEOREM ContinuationFollows == Spec => []ContinuesTheLast
  <1>1. IInv => ContinuesTheLast
    BY DEF IInv, ChatInv, LogOf, ContinuesTheLast
  <1> QED BY <1>1, ContinuationInvariant, PTL

(* A Chat reported as continued was given its input, and one that waits or *)
(* was passed over was not.                                                *)
THEOREM ReportsAreTrue == Spec => []ReportIsTrue
  <1>1. IInv => ReportIsTrue
    BY DEF IInv, ChatInv, RowOf, ReportIsTrue
  <1> QED BY <1>1, ContinuationInvariant, PTL

(* A Stop that has been served leaves no continuation running. *)
THEOREM StopsReach == Spec => []StopReachesContinuation
  <1>1. IInv => StopReachesContinuation
    BY DEF IInv, ChatInv, StopOf, StopReachesContinuation, Serving, Alive
  <1> QED BY <1>1, ContinuationInvariant, PTL

(* What a user has ruled out is not delivered: the delivery of a step is   *)
(* that of an attempt whose claim still holds.                             *)
LEMMA DeliveryIsNotBarred ==
  ASSUME IInv, [Next]_vars, NEW t \in Tab, NEW m \in Turn, ~log[t][m].given, log'[t][m].given
  PROVE  <<t, log'[t][m].of>> \notin barred
  <1> USE TypeParts
  <1>0. TypeOK /\ ChatInv(t)
    BY DEF IInv
  <1>1. log'[t][m] # log[t][m]
    OBVIOUS
  <1>2. ASSUME NEW u \in Tab, Attempts(u) PROVE <<t, log'[t][m].of>> \notin barred
    <2>1. u = t
      BY <1>0, <1>1, <1>2, AttemptFrame
    <2>2. CASE Publish(t)
      <3>1. CASE log' = log
        BY <1>1, <3>1
      <3>2. CASE /\ WasCut(t) /\ Last(t) < MaxTurns
                 /\ log' = [log EXCEPT ![t][Last(t) + 1] =
                              [of |-> box.rows[t].turn, given |-> FALSE, fate |-> "open"]]
        <4>1. \/ log'[t][m] = log[t][m]
              \/ log'[t][m] = [of |-> box.rows[t].turn, given |-> FALSE, fate |-> "open"]
          BY <1>0, <3>2 DEF LogType
        <4> QED BY <1>1, <4>1
      <3> QED BY <2>2, <3>1, <3>2 DEF Publish, cvars
    <2>3. CASE Deliver(t)
      <3>1. CASE SameChat(t) /\ log' = [log EXCEPT ![t][Last(t)].given = TRUE]
        <4>1. m = Last(t)
          BY <1>0, <1>1, <3>1 DEF LogType
        <4>2. log[t][m] \in Entry
          BY <1>0 DEF LogType
        <4>3. log'[t][m].of = log[t][m].of
          BY <1>0, <3>1, <4>1, <4>2 DEF LogType, Entry
        <4>4. /\ box.rows[t].state = "claimed" /\ t \notin box.vetoes /\ OpLives
          BY <3>1 DEF SameChat, ClaimHolds, Consumable, Recovering, OpLives
        <4>5. log[t][m].of = box.rows[t].turn
          BY <1>0, <2>3, <4>1, <4>4 DEF ChatInv, RowOf, AttemptOf, Deliver
        <4>6. <<t, box.rows[t].turn>> \notin barred
          BY <1>0, <4>4 DEF ChatInv, RuledOf, Vetoed, Unsettled
        <4> QED BY <4>3, <4>5, <4>6
      <3>2. CASE Ends(t, "ended")
        BY <1>0, <2>3, <3>2, EndsEffect DEF ChatInv, AttemptOf, Deliver
      <3> QED BY <2>3, <3>1, <3>2 DEF Deliver
    <2>4. CASE Claim(t) \/ Check(t) \/ Finish(t) \/ Cancel(t)
      BY <1>1, <2>4 DEF Claim, Check, Finish, Cancel, cvars
    <2> QED BY <1>2, <2>1, <2>2, <2>3, <2>4 DEF Attempts
  <1>3. ASSUME NEW u \in Tab, Users(u) PROVE <<t, log'[t][m].of>> \notin barred
    <2>1. u = t
      BY <1>0, <1>1, <1>3, UserFrame
    <2>2. CASE UserSends(t)
      <3>1. m = Last(t) + 1
        BY <1>0, <2>2, SendsEffect
      <3>2. log'[t][m].of = 0
        BY <1>0, <2>2, <3>1, SendsEffect
      <3> QED BY <1>0, <3>2 DEF Turn
    <2>3. CASE TurnEnds(t) \/ StreamOpens(t)
      <3>1. Last(t) # 0 /\ (Ends(t, "ended") \/ Ends(t, "interrupted"))
        BY <1>0, <2>3 DEF TurnEnds, StreamOpens, InFlight, Fate
      <3> QED BY <1>0, <3>1, EndsEffect
    <2>4. CASE StopEnds(t)
      <3>1. CASE Fate(t) = "open" /\ Matches(t)
        <4>1. Last(t) # 0 /\ Ends(t, IF chat[t].live THEN "cancelled" ELSE "interrupted")
          BY <2>4, <3>1 DEF StopEnds, Fate
        <4> QED BY <1>0, <4>1, EndsEffect
      <3>2. CASE ~(Fate(t) = "open" /\ Matches(t))
        BY <1>1, <2>4, <3>2 DEF StopEnds, cvars
      <3> QED BY <3>1, <3>2
    <2>5. CASE ArchiveEnds(t)
      <3>1. CASE chat[t].live
        <4>1. Last(t) \in Turn
          BY <1>0, <3>1, Bounds DEF InFlight, ChatType, ChatRecord, Last, Turn, Number
        <4>2. log[t][Last(t)] \in Entry
          BY <1>0, <4>1 DEF LogType
        <4>3. m = Last(t) /\ log'[t][m] = [log[t][m] EXCEPT !.fate = "interrupted"]
          BY <1>0, <1>1, <2>5, <3>1, <4>1 DEF ArchiveEnds, LogType
        <4> QED BY <4>2, <4>3 DEF Entry
      <3>2. CASE ~chat[t].live
        BY <1>1, <2>5, <3>2 DEF ArchiveEnds
      <3> QED BY <3>1, <3>2
    <2>6. CASE (\E want \in Number : StopBegins(t, want)) \/ ArchiveBegins(t) \/ Unarchive(t) \/ Move(t)
      BY <1>1, <2>6 DEF StopBegins, ArchiveBegins, Unarchive, Move, cvars
    <2> QED BY <1>3, <2>1, <2>2, <2>3, <2>4, <2>5, <2>6 DEF Users
  <1>4. ASSUME NEW u \in Tab, StopTailer(u) PROVE <<t, log'[t][m].of>> \notin barred
    <2>1. Last(u) # 0 /\ Ends(u, "interrupted")
      BY <1>0, <1>4 DEF StopTailer, InFlight
    <2> QED BY <1>0, <2>1, EndsEffect
  <1>5. CASE \/ AskRestart \/ LauncherActs \/ LauncherIsKilled \/ NewHub \/ HubIsUp
             \/ Quiesce \/ HubDies \/ HubShutsDown
    BY <1>1, <1>5 DEF AskRestart, LauncherActs, LauncherIsKilled, NewHub, HubIsUp, Quiesce, HubDies,
         HubShutsDown, cvars
  <1>6. CASE CaptureBegins \/ CapturePublishes \/ Expire \/ ReadRecovery \/ \E u \in Tab : Visit(u)
    BY <1>1, <1>6 DEF CaptureBegins, CapturePublishes, Expire, ReadRecovery, Visit, cvars
  <1>7. CASE UNCHANGED vars
    BY <1>1, <1>7 DEF vars, cvars
  <1> QED BY <1>2, <1>3, <1>4, <1>5, <1>6, <1>7 DEF Next

(* A user's word is final, over restarts, crashes and the archive. *)
THEOREM BarredIsFinal == Spec => BarredStaysBarred
  <1>1. IInv /\ [Next]_vars =>
           [\A t \in Tab, m \in Turn :
              ~log[t][m].given /\ log'[t][m].given => <<t, log'[t][m].of>> \notin barred]_vars
    BY DeliveryIsNotBarred
  <1> QED BY <1>1, ContinuationInvariant, PTL DEF Spec, BarredStaysBarred
=============================================================================
