-------------------------- MODULE ChatInbox_proofs --------------------------
(***************************************************************************)
(* The inbox keeps its promises, for every set of messages and schedules,  *)
(* any number of attempts and any number of failures and restarts.         *)
(*                                                                         *)
(* The argument.  Whatever happens, a row of the box changes in one of     *)
(* three ways (Changes): it is admitted, marked as submitted, or moved to  *)
(* another state.  While the inbox is open the file equals memory; once it *)
(* is closing the file is at most one such change ahead (Lag), so that a   *)
(* restart is such a change too.  Every change keeps a box Good: a marked  *)
(* row cannot be taken up again, and only one row is in flight.  What the  *)
(* pump and a reconciliation remember from before an await stays true of   *)
(* the row they come back to (PumpOK, ProbeOK).                            *)
(***************************************************************************)
EXTENDS ChatInbox, TLAPS

Admits(b, n, m, runs) ==
    /\ b.state[m] = "none"
    /\ n.state = [b.state EXCEPT ![m] = "queued"]
    /\ n.ahead = [b.ahead EXCEPT ![m] = Admitted(b)]
    /\ n.started = b.started
    /\ m \in Scheduled => m \in runs

Marks(b, n, m) ==
    /\ b.state[m] = "dispatching"
    /\ n.state = b.state /\ n.ahead = b.ahead
    /\ n.started = [b.started EXCEPT ![m] = TRUE]
    /\ ~b.started[m]

Moves(b, n, m, s) ==
    /\ b.state[m] \notin Terminal \cup {"none"}
    /\ n.state = [b.state EXCEPT ![m] = s]
    /\ n.ahead = b.ahead /\ n.started = b.started

Same(b, n) == n.state = b.state /\ n.ahead = b.ahead /\ n.started = b.started

Changes(b, n, runs) ==
    \/ Same(b, n)
    \/ \E m \in Message : Admits(b, n, m, runs)
    \/ \E m \in Message : Marks(b, n, m)
    \/ \E m \in Message, s \in State \ {"none"} : Moves(b, n, m, s)

(* Of a box, given what was handed over, what the stream has ended, which   *)
(* runs are active and which receipts were returned.                        *)
Good(b, hist, over, runs, receipts) ==
    /\ \A m \in Message :
         /\ b.started[m] => b.state[m] \notin {"none", "queued", "waiting"}
         /\ hist[m] # 0 => b.started[m]
         /\ m \in receipts => b.state[m] # "none"
         /\ b.state[m] = "completed" => <<m, "completed">> \in over
         /\ b.state[m] = "dispatching" /\ m \in Scheduled => m \in runs
         /\ b.ahead[m] \subseteq Admitted(b) \ {m}
    /\ \A m, o \in Message :
         m # o /\ Blocks(b, m) /\ b.state[m] \in InFlight /\ Blocks(b, o) =>
             b.state[o] \notin InFlight /\ o \notin b.ahead[m]

Lag == IF phase = "closing" THEN Changes(mem, disk, active) ELSE disk = mem

RunsOK == \A m \in Scheduled : mem.state[m] # "none" /\ ~Blocks(mem, m) => m \notin active

PumpOK ==
    /\ pump.pc # "idle" =>
         /\ pump.m \in Message /\ mem.state[pump.m] # "none"
         /\ \A o \in Message \ {pump.m} : Blocks(mem, o) => mem.state[o] \notin InFlight
    /\ pump.pc \in {"submit", "begun"} => ~mem.started[pump.m]
    /\ pump.pc = "sending" => /\ given[pump.m] = 0
                              /\ mem.started[pump.m] /\ disk.started[pump.m]

ProbeOK ==
    probe # NoProbe =>
        /\ probe.m \in Message
        /\ probe.proof = "completed" => <<probe.m, "completed">> \in ends
        /\ probe.fresh => InDoubt(probe.m)

IInv ==
    /\ TypeOK
    /\ Good(mem, given, ends, active, answered)
    /\ Good(disk, given, ends, active, answered)
    /\ \A m \in Message : given[m] <= 1
    /\ Lag /\ RunsOK /\ PumpOK /\ ProbeOK

(* The scheduler loses sight of a run only when the inbox is done with it.  *)
RunsFollow ==
    \A o \in Message :
        mem.state[o] # "none" =>
            /\ o \in active' => o \in active
            /\ o \in active /\ o \notin active' =>
                   mem'.state[o] # "none" /\ ~Blocks(mem', o)

Step ==
    /\ Good(mem', given', ends', active', answered')
    /\ Good(disk', given', ends', active', answered')
    /\ Lag' /\ RunsOK'
    /\ Changes(mem, mem', active') /\ RunsFollow

(* Which moves keep a box good. *)
MayMove(m, s) ==
    /\ s \in {"queued", "waiting"} => ~mem.started[m]
    /\ s = "completed" => <<m, "completed">> \in ends
    /\ \/ IsHead(mem, m) /\ pump.pc = "idle" /\ (s = "dispatching" /\ m \in Scheduled => m \in active)
       \/ /\ s = "dispatching" => mem.state[m] = "dispatching"
          /\ s \in InFlight /\ ~(m \in Scheduled /\ s = "uncertain") =>
                mem.state[m] \in InFlight /\ Blocks(mem, m)
    /\ \/ Blocks(mem, m)
       \/ \A o \in Message \ {m} : Blocks(mem, o) => mem.state[o] \notin InFlight

-----------------------------------------------------------------------------
(* Rows *)

LEMMA MovedType ==
    ASSUME NEW b \in Box, NEW m \in Message, NEW s \in State
    PROVE  Moved(b, m, s) \in Box /\ Moved(b, m, s).state = [b.state EXCEPT ![m] = s]
           /\ Moved(b, m, s).ahead = b.ahead /\ Moved(b, m, s).started = b.started
           /\ Moved(b, m, s).attempts = b.attempts /\ Moved(b, m, s).inc = b.inc
BY DEF Box, Moved

LEMMA RowType ==
    ASSUME NEW b \in Box, NEW m \in Message, target.inc \in Nat
    PROVE  Row(b, m) \in Box /\ Row(b, m).state = [b.state EXCEPT ![m] = "queued"]
           /\ Row(b, m).ahead = [b.ahead EXCEPT ![m] = Admitted(b)]
           /\ Row(b, m).started = b.started
<1>1. Admitted(b) \in SUBSET Message /\ "queued" \in State
  BY DEF Admitted, State
<1>. QED
  BY <1>1 DEF Box, Row

(* Every row but the moved one keeps its place in the queue. *)
LEMMA MoveGood ==
    ASSUME TypeOK, Good(mem, given, ends, active, answered),
           NEW n \in Box, NEW m \in Message, NEW s \in State \ {"none"},
           Moves(mem, n, m, s), MayMove(m, s)
    PROVE  Good(n, given, ends, RunActive(m, s), answered)
<1>. DEFINE r == RunActive(m, s)
<1>0. mem \in Box /\ n.state \in [Message -> State] /\ mem.state \in [Message -> State]
  BY DEF TypeOK, Box
<1>1. n.state[m] = s /\ \A o \in Message \ {m} : n.state[o] = mem.state[o] /\ (Blocks(n, o) <=> Blocks(mem, o))
  BY <1>0 DEF Moves, Blocks
<1>2. n.started = mem.started /\ n.ahead = mem.ahead /\ mem.state[m] \notin Terminal \cup {"none"}
  BY DEF Moves
<1>3. ASSUME NEW o \in Message
      PROVE  /\ n.started[o] => n.state[o] \notin {"none", "queued", "waiting"}
             /\ given[o] # 0 => n.started[o]
             /\ o \in answered => n.state[o] # "none"
             /\ n.state[o] = "completed" => <<o, "completed">> \in ends
             /\ n.state[o] = "dispatching" /\ o \in Scheduled => o \in r
             /\ n.ahead[o] \subseteq Admitted(n) \ {o}
  <2>1. Admitted(mem) \subseteq Admitted(n)
    BY <1>0, <1>1, <1>2 DEF Admitted
  <2>2. o # m /\ o \in active => o \in r
    BY DEF RunActive
  <2>3. CASE o # m
    BY <1>1, <1>2, <2>1, <2>2, <2>3 DEF Good
  <2>4. CASE o = m
    <3>1. s = "dispatching" /\ m \in Scheduled => m \in r
      BY <1>2 DEF Good, MayMove, RunActive, Terminal
    <3>. QED
      BY <1>1, <1>2, <2>1, <2>4, <3>1 DEF Good, MayMove
  <2>. QED
    BY <2>3, <2>4
<1>4. ASSUME NEW o \in Message, NEW q \in Message, o # q,
             Blocks(n, o), n.state[o] \in InFlight, Blocks(n, q)
      PROVE  n.state[q] \notin InFlight /\ q \notin n.ahead[o]
  <2>1. CASE o # m /\ q # m
    BY <1>1, <1>2, <1>4, <2>1 DEF Good
  <2>2. CASE o = m
    <3>1. s \in InFlight /\ ~(m \in Scheduled /\ s = "uncertain") /\ Blocks(mem, q) /\ n.state[q] = mem.state[q]
      BY <1>1, <1>4, <2>2 DEF Blocks
    <3>2. CASE IsHead(mem, m)
      BY <1>1, <1>2, <1>4, <2>2, <3>1, <3>2 DEF IsHead
    <3>3. CASE mem.state[m] \in InFlight /\ Blocks(mem, m)
      BY <1>1, <1>2, <1>4, <2>2, <3>1, <3>3 DEF Good
    <3>. QED
      BY <3>1, <3>2, <3>3 DEF MayMove
  <2>3. CASE q = m
    <3>1. Blocks(mem, o) /\ mem.state[o] \in InFlight
      BY <1>1, <1>4, <2>3
    <3>2. Blocks(mem, m)
      BY <1>4, <2>3, <3>1 DEF MayMove
    <3>3. ~IsHead(mem, m)
      BY <3>1 DEF IsHead
    <3>4. mem.state[m] \notin InFlight /\ m \notin mem.ahead[o]
      BY <1>4, <2>3, <3>1, <3>2 DEF Good
    <3>5. s \notin InFlight
      <4>1. s # "uncertain" \/ m \notin Scheduled
        BY <1>1, <1>4, <2>3 DEF Blocks
      <4>. QED
        BY <3>3, <3>4, <4>1 DEF MayMove
    <3>. QED
      BY <1>1, <1>2, <2>3, <3>4, <3>5
  <2>. QED
    BY <2>1, <2>2, <2>3
<1>. QED
  BY <1>3, <1>4 DEF Good

LEMMA AdmitGood ==
    ASSUME NEW b \in Box, NEW n \in Box, NEW m \in Message, NEW runs,
           Good(b, given, ends, active, answered),
           Admits(b, n, m, runs), active \subseteq runs,
           NEW receipts, receipts \subseteq answered \cup {m}
    PROVE  Good(n, given, ends, runs, receipts)
<1>0. b.state \in [Message -> State] /\ n.state \in [Message -> State]
      /\ b.ahead \in [Message -> SUBSET Message]
  BY DEF Box
<1>1. /\ n.state[m] = "queued" /\ n.ahead[m] = Admitted(b) /\ n.started = b.started
      /\ \A o \in Message \ {m} : n.state[o] = b.state[o] /\ n.ahead[o] = b.ahead[o]
                                  /\ (Blocks(n, o) <=> Blocks(b, o))
      /\ b.state[m] = "none" /\ ~Blocks(b, m)
  BY <1>0 DEF Admits, Blocks
<1>2. Admitted(b) \subseteq Admitted(n) /\ m \notin Admitted(b)
  BY <1>0, <1>1 DEF Admitted
<1>3. ~b.started[m] /\ given[m] = 0
  BY <1>1 DEF Good
<1>4. ASSUME NEW o \in Message
      PROVE  /\ n.started[o] => n.state[o] \notin {"none", "queued", "waiting"}
             /\ given[o] # 0 => n.started[o]
             /\ o \in receipts => n.state[o] # "none"
             /\ n.state[o] = "completed" => <<o, "completed">> \in ends
             /\ n.state[o] = "dispatching" /\ o \in Scheduled => o \in runs
             /\ n.ahead[o] \subseteq Admitted(n) \ {o}
  <2>1. CASE o = m
    BY <1>1, <1>2, <1>3, <2>1
  <2>2. CASE o # m
    BY <1>1, <1>2, <2>2 DEF Good
  <2>. QED
    BY <2>1, <2>2
<1>5. ASSUME NEW o \in Message, NEW q \in Message, o # q,
             Blocks(n, o), n.state[o] \in InFlight, Blocks(n, q)
      PROVE  n.state[q] \notin InFlight /\ q \notin n.ahead[o]
  <2>1. o # m
    BY <1>1, <1>5 DEF InFlight
  <2>2. CASE q = m
    <3>1. m \notin b.ahead[o]
      BY <1>2 DEF Good
    <3>. QED
      BY <1>1, <2>1, <2>2, <3>1 DEF InFlight
  <2>3. CASE q # m
    BY <1>1, <1>5, <2>1, <2>3 DEF Good
  <2>. QED
    BY <2>2, <2>3
<1>. QED
  BY <1>4, <1>5 DEF Good

LEMMA MarkGood ==
    ASSUME NEW b \in Box, NEW n \in Box, NEW m \in Message,
           Good(b, given, ends, active, answered), Marks(b, n, m)
    PROVE  Good(n, given, ends, active, answered)
<1>1. b.started \in [Message -> BOOLEAN] /\ \A o \in Message : b.started[o] => n.started[o]
  BY DEF Box, Marks
<1>2. \A o \in Message : n.started[o] => b.started[o] \/ b.state[o] = "dispatching"
  BY <1>1 DEF Marks
<1>3. Admitted(n) = Admitted(b) /\ \A o \in Message : Blocks(n, o) <=> Blocks(b, o)
  BY DEF Marks, Admitted, Blocks
<1>. QED
  BY <1>1, <1>2, <1>3 DEF Good, Marks

(* What a row may turn into is also what a restart may find in its place.   *)
LEMMA ChangeSettles ==
    ASSUME NEW b \in Box, NEW n \in Box, NEW runs, Changes(b, n, runs),
           NEW m \in Message
    PROVE  /\ b.started[m] => n.started[m]
           /\ b.state[m] # "none" => n.state[m] # "none" /\ n.ahead[m] = b.ahead[m]
           /\ b.state[m] \in Terminal => n.state[m] = b.state[m]
<1>0. b.state \in [Message -> State] /\ b.started \in [Message -> BOOLEAN]
      /\ b.ahead \in [Message -> SUBSET Message]
  BY DEF Box
<1>1. CASE Same(b, n)
  BY <1>1 DEF Same
<1>2. CASE \E o \in Message : Admits(b, n, o, runs)
  BY <1>0, <1>2 DEF Admits, Terminal
<1>3. CASE \E o \in Message : Marks(b, n, o)
  BY <1>0, <1>3 DEF Marks
<1>4. CASE \E o \in Message, s \in State \ {"none"} : Moves(b, n, o, s)
  BY <1>0, <1>4 DEF Moves
<1>. QED
  BY <1>1, <1>2, <1>3, <1>4 DEF Changes

-----------------------------------------------------------------------------
(* Steps *)

LEMMA MoveStep ==
    ASSUME IInv, NEW n \in Box, NEW m \in Message, NEW s \in State \ {"none"},
           Moves(mem, n, m, s), MayMove(m, s), SaveRow(n, m),
           UNCHANGED <<given, ends, answered>>
    PROVE  /\ Step
           /\ mem' \in Box /\ disk' \in Box /\ active' \subseteq active
           /\ phase' \in {phase, "closing"} /\ budget' \in 0 .. Budget
           /\ mem'.started = mem.started
           /\ \A o \in Message : disk.started[o] => disk'.started[o]
           /\ \A o \in Message \ {m} : mem'.state[o] = mem.state[o]
           /\ mem'.state[m] \in {s, mem.state[m]}
<1>0. /\ mem \in Box /\ disk \in Box /\ n.state \in [Message -> State] /\ mem.state \in [Message -> State]
      /\ phase # "closing" /\ disk = mem /\ budget \in 0 .. Budget
  BY DEF IInv, TypeOK, Box, SaveRow, Lag
<1>1. Good(n, given, ends, RunActive(m, s), answered)
  BY MoveGood DEF IInv
<1>2. /\ n.state[m] = s /\ n.started = mem.started
      /\ \A o \in Message \ {m} : n.state[o] = mem.state[o] /\ (Blocks(n, o) <=> Blocks(mem, o))
  BY <1>0 DEF Moves, Blocks
<1>4. CASE Save(n) /\ active' = RunActive(m, n.state[m])
  <2>1. mem' = n /\ disk' = n /\ phase' = phase /\ budget' = budget /\ active' = RunActive(m, s)
    BY <1>2, <1>4 DEF Save
  <2>2. Changes(mem, mem', active')
    BY <2>1 DEF Changes
  <2>3. RunsOK'
    <3>1. ASSUME NEW o \in Scheduled, mem'.state[o] # "none", ~Blocks(mem', o)
          PROVE  o \notin active'
      <4>0. o \in Message
        BY InboxAssumption
      <4>1. CASE o = m
        <5>1. s \in Terminal \cup {"uncertain"}
          BY <1>2, <2>1, <3>1, <4>1 DEF Blocks
        <5>. QED
          BY <2>1, <4>1, <5>1 DEF RunActive
      <4>2. CASE o # m
        BY <1>2, <2>1, <3>1, <4>0, <4>2 DEF IInv, RunsOK, RunActive
      <4>. QED
        BY <4>1, <4>2
    <3>. QED
      BY <3>1 DEF RunsOK
  <2>4. RunsFollow
    <3>1. ASSUME NEW o \in Message, o \in active, o \notin active'
          PROVE  mem'.state[o] # "none" /\ ~Blocks(mem', o)
      <4>1. o = m /\ s \in Terminal \cup {"uncertain"} /\ o \in Scheduled
        BY <2>1, <3>1 DEF RunActive, IInv, TypeOK
      <4>. QED
        BY <1>2, <2>1, <4>1 DEF Blocks
    <3>2. active' \subseteq active
      BY <2>1 DEF RunActive
    <3>. QED
      BY <3>1, <3>2 DEF RunsFollow
  <2>5. Lag'
    BY <1>0, <2>1 DEF Lag
  <2>6. Good(mem', given', ends', active', answered') /\ Good(disk', given', ends', active', answered')
    BY <1>1, <2>1
  <2>. QED
    BY <1>0, <1>2, <2>1, <2>2, <2>3, <2>4, <2>5, <2>6 DEF Step, RunActive
<1>5. CASE SaveFails(n) /\ UNCHANGED active
  <2>1. mem' = mem /\ disk' \in {mem, n} /\ phase' = "closing" /\ budget' \in 0 .. Budget
    BY <1>0, <1>5, InboxAssumption DEF SaveFails
  <2>2. Changes(mem, mem', active') /\ Changes(mem, n, active)
    BY <2>1 DEF Changes, Same
  <2>3. Good(mem, given, ends, active, answered)
    BY DEF IInv
  <2>4. Good(n, given, ends, active, answered)
    <3>1. \A o \in RunActive(m, s) : o \in active
      BY DEF RunActive
    <3>. QED
      BY <1>1, <3>1 DEF Good
  <2>5. Lag'
    BY <1>5, <2>1, <2>2 DEF Lag, Changes, Same
  <2>6. RunsOK' /\ RunsFollow
    BY <1>5, <2>1 DEF IInv, RunsOK, RunsFollow, Blocks
  <2>7. Good(mem', given', ends', active', answered') /\ Good(disk', given', ends', active', answered')
    BY <1>5, <2>1, <2>3, <2>4
  <2>. QED
    BY <1>0, <1>2, <1>5, <2>1, <2>2, <2>5, <2>6, <2>7 DEF Step
<1>. QED
  BY <1>4, <1>5 DEF SaveRow

(* The pump's knowledge survives the moves of others ... *)
LEMMA PumpKept ==
    ASSUME IInv, NEW m \in Message, pump.pc # "idle", UNCHANGED <<pump, given>>,
           mem'.started = mem.started,
           \A o \in Message : disk.started[o] => disk'.started[o],
           \A o \in Message \ {m} : mem'.state[o] = mem.state[o],
           mem'.state[m] # "none",
           Blocks(mem', m) /\ mem'.state[m] \in InFlight =>
               mem.state[m] \in InFlight /\ Blocks(mem, m)
    PROVE  PumpOK'
<1>1. \A o \in Message \ {m} : Blocks(mem', o) <=> Blocks(mem, o)
  BY DEF Blocks
<1>. QED
  BY <1>1 DEF IInv, PumpOK

(* ... and so does what a reconciliation has read. *)
LEMMA ProbeKept ==
    ASSUME IInv, NEW m \in Message, probe' = Observed(m), UNCHANGED ends,
           \A o \in Message \ {m} : mem'.state[o] = mem.state[o]
    PROVE  ProbeOK'
<1>1. CASE probe.m = m
  BY <1>1 DEF IInv, TypeOK, ProbeOK, Observed, NoProbe
<1>2. CASE probe.m # m
  <2>1. probe' = probe
    BY <1>2 DEF Observed
  <2>2. probe # NoProbe => InDoubt(probe.m)' = InDoubt(probe.m)
    BY <1>2, <2>1 DEF IInv, ProbeOK, InDoubt, Blocks
  <2>. QED
    BY <2>1, <2>2 DEF IInv, ProbeOK
<1>. QED
  BY <1>1, <1>2

Result ==
    /\ IInv'
    /\ Changes(mem, mem', active') /\ RunsFollow

(* A move that leaves pump, provider and target alone. *)
LEMMA PlainMove ==
    ASSUME IInv, NEW m \in Message, NEW s \in State \ {"none"},
           mem.state[m] \notin Terminal \cup {"none"}, MayMove(m, s),
           s \in InFlight => mem.state[m] \in InFlight /\ Blocks(mem, m),
           Change(Moved(mem, m, s), m),
           UNCHANGED <<pump, target, given, turn, log, ends, answered>>,
           notes' \subseteq notes, todo' \subseteq todo, recov' \subseteq recov
    PROVE  Result
<1>. DEFINE n == Moved(mem, m, s)
<1>1. n \in Box /\ Moves(mem, n, m, s) /\ SaveRow(n, m)
  BY MovedType DEF IInv, TypeOK, Moves, Change
<1>2. /\ Step
      /\ mem' \in Box /\ disk' \in Box /\ active' \subseteq active
      /\ phase' \in {phase, "closing"} /\ budget' \in 0 .. Budget
      /\ mem'.started = mem.started
      /\ \A o \in Message : disk.started[o] => disk'.started[o]
      /\ \A o \in Message \ {m} : mem'.state[o] = mem.state[o]
      /\ mem'.state[m] \in {s, mem.state[m]}
  BY <1>1, MoveStep
<1>3. probe' = Observed(m)
  BY DEF Change
<1>4. ProbeOK'
  BY <1>2, <1>3, ProbeKept
<1>5. PumpOK'
  <2>1. CASE pump.pc = "idle"
    BY <2>1 DEF PumpOK
  <2>2. CASE pump.pc # "idle"
    <3>1. Blocks(mem', m) /\ mem'.state[m] \in InFlight => mem.state[m] \in InFlight /\ Blocks(mem, m)
      BY <1>2 DEF Blocks
    <3>. QED
      BY <1>2, <2>2, <3>1, PumpKept
  <2>. QED
    BY <2>1, <2>2
<1>6. TypeOK'
  BY <1>2, <1>3 DEF IInv, TypeOK, Observed
<1>. QED
  BY <1>2, <1>4, <1>5, <1>6 DEF Result, Step, IInv

(* A move by which the pump lets go of its message. *)
LEMMA LastMove ==
    ASSUME IInv, NEW n \in Box, NEW m \in Message, NEW s \in State \ {"none"},
           Moves(mem, n, m, s), MayMove(m, s), Change(n, m), pump' = IdlePump,
           UNCHANGED <<target, given, turn, log, ends, notes, answered, todo, recov>>
    PROVE  Result
<1>1. SaveRow(n, m) /\ probe' = Observed(m)
  BY DEF Change
<1>2. /\ Step
      /\ mem' \in Box /\ disk' \in Box /\ active' \subseteq active
      /\ phase' \in {phase, "closing"} /\ budget' \in 0 .. Budget
      /\ \A o \in Message \ {m} : mem'.state[o] = mem.state[o]
  BY <1>1, MoveStep
<1>3. ProbeOK'
  BY <1>1, <1>2, ProbeKept
<1>4. PumpOK'
  BY DEF PumpOK, IdlePump
<1>5. TypeOK'
  BY <1>1, <1>2 DEF IInv, TypeOK, Observed, IdlePump, PumpPoint, Why
<1>. QED
  BY <1>2, <1>3, <1>4, <1>5 DEF Result, Step, IInv

(* A step outside the box, as far as the invariant is concerned. *)
LEMMA Quiet ==
    ASSUME IInv, UNCHANGED <<mem, disk, active, answered>>,
           ends \subseteq ends', phase' = phase \/ phase' = "closing",
           TypeOK', \A m \in Message : given'[m] <= 1 /\ (given'[m] # 0 => mem.started[m] /\ disk.started[m]),
           PumpOK', ProbeOK'
    PROVE  Result
<1>1. Same(mem, mem) /\ Changes(mem, mem', active')
  BY DEF Same, Changes
<1>2. Lag'
  BY <1>1 DEF IInv, Lag
<1>3. RunsOK' /\ RunsFollow
  BY DEF IInv, RunsOK, RunsFollow, Blocks
<1>4. Good(mem', given', ends', active', answered') /\ Good(disk', given', ends', active', answered')
  BY DEF IInv, Good
<1>. QED
  BY <1>1, <1>2, <1>3, <1>4 DEF Result, IInv

LEMMA PumpSame == IInv /\ UNCHANGED <<mem, disk, pump, given>> => PumpOK'
BY DEF IInv, PumpOK, Blocks

LEMMA ProbeSame == IInv /\ UNCHANGED <<mem, probe>> /\ ends \subseteq ends' => ProbeOK'
BY DEF IInv, ProbeOK, InDoubt, Blocks

LEMMA GivenSame ==
    IInv /\ UNCHANGED given =>
        \A m \in Message : given'[m] <= 1 /\ (given'[m] # 0 => mem.started[m] /\ disk.started[m])
BY DEF IInv, Good

-----------------------------------------------------------------------------
(* Callers *)

LEMMA Admission ==
    ASSUME IInv, NEW m \in Message, phase # "closing", mem.state[m] = "none",
           active \subseteq active', active' \subseteq active \cup {m}, active' \subseteq Scheduled,
           m \in Scheduled => m \in active',
           \/ Save(Row(mem, m)) /\ answered' \in {answered, answered \cup {m}}
           \/ SaveFails(Row(mem, m)) /\ UNCHANGED answered,
           UNCHANGED <<todo, recov, pump, probe, target, provider>>
    PROVE  Result
<1>. DEFINE n == Row(mem, m)
<1>0. /\ mem \in Box /\ mem.state \in [Message -> State] /\ disk = mem /\ target.inc \in Nat
      /\ budget \in 0 .. Budget /\ Good(mem, given, ends, active, answered)
  BY DEF IInv, TypeOK, Box, Lag
<1>1. n \in Box /\ Admits(mem, n, m, active')
  BY <1>0, RowType DEF Admits
<1>2. \A o \in Message \ {m} : n.state[o] = mem.state[o] /\ (Blocks(n, o) <=> Blocks(mem, o))
  BY <1>0, <1>1 DEF Admits, Blocks
<1>3. n.state[m] = "queued" /\ n.started = mem.started
  BY <1>0, <1>1 DEF Admits
<1>4. Good(n, given, ends, active', answered') /\ Good(n, given, ends, active', answered)
  <2>1. answered' \subseteq answered \cup {m} /\ answered \subseteq answered \cup {m}
    BY DEF SaveFails
  <2>. QED
    BY <1>0, <1>1, <2>1, AdmitGood
<1>5. Good(mem, given, ends, active', answered)
  BY <1>0 DEF Good
<1>6. Changes(mem, n, active') /\ Changes(mem, mem, active')
  BY <1>1 DEF Changes, Same
<1>7. /\ mem' \in {mem, n} /\ disk' \in {mem, n} /\ budget' \in 0 .. Budget
      /\ mem'.started = mem.started /\ disk'.started = disk.started
      /\ \A o \in Message \ {m} : mem'.state[o] = mem.state[o] /\ (Blocks(mem', o) <=> Blocks(mem, o))
      /\ mem'.state[m] \in {"none", "queued"}
  BY <1>0, <1>2, <1>3, InboxAssumption DEF Save, SaveFails
<1>8. Good(mem', given', ends', active', answered') /\ Good(disk', given', ends', active', answered')
  BY <1>0, <1>4, <1>5 DEF Save, SaveFails, provider
<1>9. Lag' /\ Changes(mem, mem', active')
  BY <1>0, <1>6 DEF Save, SaveFails, Lag
<1>10. RunsOK' /\ RunsFollow
  <2>1. Blocks(mem', m) \/ mem'.state[m] = "none"
    BY <1>7 DEF Blocks, Terminal
  <2>. QED
    BY <1>7, <2>1, InboxAssumption DEF IInv, RunsOK, RunsFollow
<1>11. PumpOK'
  <2>1. mem'.state[m] \notin InFlight
    BY <1>7 DEF InFlight
  <2>2. pump.pc # "idle" => pump.m # m
    BY DEF IInv, PumpOK
  <2>. QED
    BY <1>7, <2>1, <2>2 DEF IInv, PumpOK, provider
<1>12. ProbeOK'
  <2>1. probe # NoProbe /\ probe.fresh => probe.m # m
    BY DEF IInv, ProbeOK, InDoubt, InFlight
  <2>2. probe # NoProbe /\ probe.fresh => InDoubt(probe.m)'
    BY <1>7, <2>1 DEF IInv, ProbeOK, InDoubt
  <2>. QED
    BY <2>2 DEF IInv, ProbeOK, provider
<1>13. TypeOK'
  BY <1>0, <1>1, <1>7 DEF IInv, TypeOK, provider, Save, SaveFails
<1>. QED
  BY <1>8, <1>9, <1>10, <1>11, <1>12, <1>13 DEF Result, IInv, provider

LEMMA EnqueueStep == ASSUME IInv, NEW m \in Message, Enqueue(m) PROVE Result
BY Admission DEF Enqueue, IInv, TypeOK

LEMMA AdmitStep == ASSUME IInv, NEW m \in Message, AdmitScheduled(m) PROVE Result
<1>1. active' = active \cup {m} /\ active \subseteq Scheduled
  BY DEF AdmitScheduled, IInv, TypeOK
<1>. QED
  BY <1>1, Admission DEF AdmitScheduled

LEMMA CancelStep ==
    ASSUME IInv, NEW m \in Message, Cancel(m) \/ CancelScheduled(m)
    PROVE  Result
<1>1. /\ Blocks(mem, m) /\ "cancelled" \in State \ {"none"} /\ "cancelled" \notin InFlight
      /\ mem.state[m] \notin Terminal \cup {"none"}
  BY DEF Cancel, CancelScheduled, Blocks, Terminal, State, InFlight
<1>2. MayMove(m, "cancelled")
  BY <1>1 DEF MayMove
<1>. QED
  BY <1>1, <1>2, PlainMove DEF Cancel, CancelScheduled, provider

-----------------------------------------------------------------------------
(* The pump *)

LEMMA VerdictIs ==
    ASSUME NEW m \in Message, NEW s \in Verdict(m)
    PROVE  /\ s \in {"cancelled", "failed", "waiting", "dispatching"}
           /\ s = "dispatching" /\ m \in Scheduled => m \in active
BY DEF Verdict

LEMMA TakesStep == ASSUME IInv, NEW m \in Message, PumpTakes(m) PROVE Result
<1>1. PICK s \in Verdict(m) :
         LET taken == s = "dispatching"
             new == IF taken THEN [Moved(mem, m, s) EXCEPT !.attempts[m] = @ + 1]
                    ELSE Moved(mem, m, s)
         IN  /\ Change(new, m)
             /\ pump' = IF taken /\ phase' # "closing"
                        THEN [pc |-> "submit", m |-> m, why |-> "none"] ELSE IdlePump
  BY DEF PumpTakes
<1>. DEFINE n == IF s = "dispatching" THEN [Moved(mem, m, s) EXCEPT !.attempts[m] = @ + 1]
                 ELSE Moved(mem, m, s)
<1>2. /\ s \in State \ {"none"} /\ mem \in Box
      /\ mem.state[m] \in {"queued", "waiting"} /\ IsHead(mem, m) /\ pump.pc = "idle"
      /\ ~mem.started[m]
  <2>1. mem.state[m] \in {"queued", "waiting"}
    BY DEF PumpTakes, IsHead, Blocks, IInv, TypeOK, Box, State
  <2>. QED
    BY <2>1, VerdictIs DEF PumpTakes, State, Terminal, InFlight, IInv, TypeOK, Good, IdlePump
<1>3. n \in Box /\ Moves(mem, n, m, s)
  <2>1. /\ Moved(mem, m, s) \in Box /\ Moved(mem, m, s).state = [mem.state EXCEPT ![m] = s]
        /\ Moved(mem, m, s).ahead = mem.ahead /\ Moved(mem, m, s).started = mem.started
    BY <1>2, MovedType
  <2>2. n \in Box /\ n.state = Moved(mem, m, s).state /\ n.ahead = Moved(mem, m, s).ahead
        /\ n.started = Moved(mem, m, s).started
    BY <2>1 DEF Box
  <2>. QED
    BY <1>2, <2>1, <2>2 DEF Moves, Terminal
<1>4. MayMove(m, s)
  BY <1>2, VerdictIs DEF MayMove, IsHead
<1>5. Change(n, m)
  BY <1>1
<1>6. UNCHANGED <<target, given, turn, log, ends, notes, answered, todo, recov>>
  BY DEF PumpTakes, provider
<1>7. CASE pump' = IdlePump
  BY <1>2, <1>3, <1>4, <1>5, <1>6, <1>7, LastMove
<1>8. CASE pump' # IdlePump
  <2>1. pump' = [pc |-> "submit", m |-> m, why |-> "none"] /\ s = "dispatching"
    BY <1>1, <1>8
  <2>2. SaveRow(n, m) /\ probe' = Observed(m)
    BY <1>5 DEF Change
  <2>3. /\ Step
        /\ mem' \in Box /\ disk' \in Box /\ active' \subseteq active
        /\ phase' \in {phase, "closing"} /\ budget' \in 0 .. Budget
        /\ mem'.started = mem.started
        /\ \A o \in Message \ {m} : mem'.state[o] = mem.state[o]
        /\ mem'.state[m] \in {s, mem.state[m]}
    BY <1>2, <1>3, <1>4, <1>6, <2>2, MoveStep
  <2>4. ProbeOK'
    BY <1>6, <2>2, <2>3, ProbeKept
  <2>5. PumpOK'
    <3>1. \A o \in Message \ {m} : Blocks(mem', o) <=> Blocks(mem, o)
      BY <2>3 DEF Blocks
    <3>. QED
      BY <1>2, <2>1, <2>3, <3>1 DEF PumpOK, IsHead
  <2>6. TypeOK'
    BY <1>6, <2>1, <2>2, <2>3 DEF IInv, TypeOK, Observed, PumpPoint, Why
  <2>. QED
    BY <1>6, <2>3, <2>4, <2>5, <2>6 DEF Result, Step, IInv
<1>. QED
  BY <1>7, <1>8

LEMMA SubmitStep ==
    ASSUME IInv, (\E why \in Why : SubmitRefuses(why)) \/ SubmitBegins
    PROVE  Result
<1>1. /\ UNCHANGED <<mem, disk, phase, active, answered, probe, given, todo, recov, target>>
      /\ ends = ends' /\ budget' \in 0 .. Budget
      /\ pump'.pc \in {"raised", "begun"} /\ pump.pc = "submit" /\ pump'.m = pump.m /\ pump'.why \in Why
      /\ pump' \in [pc : PumpPoint, m : Message \cup {NoMessage}, why : Why]
  <2>1. CASE SubmitBegins
    BY <2>1 DEF IInv, TypeOK, SubmitBegins, PumpAt, PumpPoint
  <2>2. ASSUME NEW why \in Why, SubmitRefuses(why) 
        PROVE  /\ UNCHANGED <<mem, disk, phase, active, answered, probe, given, todo, recov, target>>
               /\ ends = ends' /\ budget' \in 0 .. Budget
               /\ pump'.pc = "raised" /\ pump.pc = "submit" /\ pump'.m = pump.m /\ pump'.why \in Why
               /\ pump' \in [pc : PumpPoint, m : Message \cup {NoMessage}, why : Why]
    <3>1. pump' = [pump EXCEPT !.pc = "raised", !.why = why] /\ pump.pc = "submit"
          /\ pump \in [pc : PumpPoint, m : Message \cup {NoMessage}, why : Why]
      BY <2>2 DEF SubmitRefuses, Raise, PumpAt, IInv, TypeOK
    <3>2. budget' \in 0 .. Budget
      BY <2>2, InboxAssumption DEF SubmitRefuses, IInv, TypeOK
    <3>. QED
      BY <2>2, <3>1, <3>2 DEF SubmitRefuses, provider, PumpPoint
  <2>. QED
    BY <2>1, <2>2
<1>2. PumpOK'
  BY <1>1 DEF IInv, PumpOK, Blocks
<1>3. pump.m \in Message /\ notes' = notes
  BY <1>1 DEF IInv, PumpOK, SubmitRefuses, SubmitBegins, provider
<1>4. TypeOK'
  BY <1>1, <1>3 DEF IInv, TypeOK, SubmitRefuses, SubmitBegins, provider, LogState
<1>. QED
  BY <1>1, <1>2, <1>4, Quiet, ProbeSame, GivenSame

(* A rejected turn changes what the store holds, never an end. *)
LEMMA Rejection ==
    ASSUME IInv, PumpAt("begun") \/ PumpAt("sending"), RejectTurn, NEW why \in Why, Raise(why),
           UNCHANGED <<ends, notes>>
    PROVE  /\ turn' \in Message \cup {NoMessage, HumanTurn} /\ log' \in [Message -> LogState]
           /\ notes' \subseteq ends' /\ ends' \subseteq Message \X Terminal
           /\ pump' \in [pc : PumpPoint, m : Message \cup {NoMessage}, why : Why]
           /\ pump'.pc = "raised" /\ pump'.m = pump.m
BY DEF IInv, TypeOK, RejectTurn, Raise, PumpAt, LogState, PumpPoint

LEMMA FenceStep == ASSUME IInv, BeforeDelivery PROVE Result
<1>. DEFINE m == pump.m
            n == [mem EXCEPT !.started[m] = TRUE]
<1>0. /\ m \in Message /\ ~mem.started[m] /\ mem \in Box /\ budget \in 0 .. Budget
      /\ Good(mem, given, ends, active, answered) /\ PumpAt("begun")
      /\ given[m] = 0
  <2>1. m \in Message /\ ~mem.started[m] /\ PumpAt("begun")
    BY DEF BeforeDelivery, PumpAt, IInv, PumpOK
  <2>. QED
    BY <2>1 DEF IInv, TypeOK, Good
<1>1. /\ n \in Box /\ n.state = mem.state /\ n.ahead = mem.ahead
      /\ n.started = [mem.started EXCEPT ![m] = TRUE]
      /\ \A o \in Message : mem.started[o] => n.started[o]
  BY <1>0 DEF Box
<1>2. ASSUME FenceHolds(m), phase # "closing" PROVE Marks(mem, n, m) /\ disk = mem
  BY <1>0, <1>1, <1>2 DEF FenceHolds, Marks, IInv, Lag
<1>3. UNCHANGED <<todo, recov, active, probe, target, ends, notes, given, answered>>
  BY DEF BeforeDelivery
<1>4. CASE FenceHolds(m) /\ phase # "closing" /\ Save(n) /\ pump' = [pump EXCEPT !.pc = "sending"]
           /\ UNCHANGED <<turn, log>>
  <2>1. mem' = n /\ disk' = n /\ phase' = phase /\ budget' = budget
    BY <1>4 DEF Save
  <2>2. Good(n, given, ends, active, answered) /\ Changes(mem, n, active)
    BY <1>0, <1>1, <1>2, <1>4, MarkGood DEF Changes
  <2>3. Lag' /\ RunsOK' /\ RunsFollow
    BY <1>1, <1>3, <1>4, <2>1 DEF Lag, IInv, RunsOK, RunsFollow, Blocks
  <2>4. PumpOK'
    BY <1>0, <1>1, <1>3, <1>4, <2>1 DEF IInv, TypeOK, PumpOK, Blocks, Box, PumpAt
  <2>5. ProbeOK'
    BY <1>1, <1>3, <2>1 DEF IInv, ProbeOK, InDoubt, Blocks
  <2>6. TypeOK'
    BY <1>1, <1>3, <1>4, <2>1 DEF IInv, TypeOK, PumpPoint
  <2>. QED
    BY <1>3, <2>1, <2>2, <2>3, <2>4, <2>5, <2>6 DEF Result, IInv
<1>5. CASE FenceHolds(m) /\ phase # "closing" /\ SaveFails(n) /\ Raise("error") /\ RejectTurn
  <2>1. mem' = mem /\ disk' \in {mem, n} /\ phase' = "closing" /\ budget' \in 0 .. Budget
    BY <1>0, <1>2, <1>5, InboxAssumption DEF SaveFails
  <2>2. Good(n, given, ends, active, answered) /\ Changes(mem, n, active) /\ Changes(mem, mem, active)
    BY <1>0, <1>1, <1>2, <1>5, MarkGood DEF Changes, Same
  <2>3. Lag' /\ RunsOK' /\ RunsFollow
    BY <1>3, <2>1, <2>2 DEF Lag, IInv, RunsOK, RunsFollow, Blocks
  <2>4. /\ turn' \in Message \cup {NoMessage, HumanTurn} /\ log' \in [Message -> LogState]
        /\ pump' \in [pc : PumpPoint, m : Message \cup {NoMessage}, why : Why]
        /\ pump'.pc = "raised" /\ pump'.m = pump.m
    BY <1>0, <1>3, <1>5, Rejection DEF Why
  <2>5. PumpOK'
    BY <1>0, <2>1, <2>4 DEF IInv, PumpOK, Blocks, PumpAt
  <2>6. ProbeOK'
    BY <1>3, <2>1, ProbeSame
  <2>7. TypeOK'
    BY <1>1, <1>3, <2>1, <2>4 DEF IInv, TypeOK
  <2>. QED
    BY <1>0, <1>3, <2>1, <2>2, <2>3, <2>5, <2>6, <2>7 DEF Result, IInv
<1>6. CASE /\ \E why \in FenceErrors(m) : Raise(why)
           /\ RejectTurn /\ UNCHANGED <<mem, disk, phase, budget>>
  <2>1. /\ turn' \in Message \cup {NoMessage, HumanTurn} /\ log' \in [Message -> LogState]
        /\ pump' \in [pc : PumpPoint, m : Message \cup {NoMessage}, why : Why]
        /\ pump'.pc = "raised" /\ pump'.m = pump.m
    BY <1>0, <1>3, <1>6, Rejection DEF Why, FenceErrors
  <2>2. PumpOK'
    BY <1>0, <1>3, <1>6, <2>1 DEF IInv, PumpOK, Blocks, PumpAt
  <2>3. TypeOK'
    BY <1>3, <1>6, <2>1 DEF IInv, TypeOK
  <2>. QED
    BY <1>3, <1>6, <2>2, <2>3, Quiet, ProbeSame, GivenSame
<1>. QED
  BY <1>4, <1>5, <1>6 DEF BeforeDelivery

LEMMA ProviderStep == ASSUME IInv, ProviderTakes \/ ProviderRefuses PROVE Result
<1>0. /\ pump.pc = "sending" /\ pump.m \in Message /\ given[pump.m] = 0
      /\ mem.started[pump.m] /\ disk.started[pump.m] /\ given \in [Message -> Nat]
  BY DEF ProviderTakes, ProviderRefuses, PumpAt, IInv, TypeOK, PumpOK
<1>1. /\ UNCHANGED <<mem, disk, phase, active, answered, probe, todo, recov, target, ends, notes>>
      /\ budget' \in 0 .. Budget
  BY InboxAssumption DEF ProviderTakes, ProviderRefuses, IInv, TypeOK
<1>2. /\ given' \in [Message -> Nat]
      /\ \A m \in Message : given'[m] <= 1 /\ (given'[m] # 0 => mem.started[m] /\ disk.started[m])
  <2>1. given' = given \/ given' = [given EXCEPT ![pump.m] = @ + 1]
    BY DEF ProviderTakes, ProviderRefuses
  <2>2. \A m \in Message : given[m] <= 1 /\ (given[m] # 0 => mem.started[m] /\ disk.started[m])
    BY DEF IInv, Good
  <2>. QED
    BY <1>0, <2>1, <2>2
<1>3. /\ pump' \in [pc : PumpPoint, m : Message \cup {NoMessage}, why : Why]
      /\ pump'.pc \in {"took", "raised"} /\ pump'.m = pump.m
  BY <1>0 DEF ProviderTakes, ProviderRefuses, Raise, IInv, TypeOK, PumpPoint, Why
<1>4. PumpOK'
  BY <1>0, <1>1, <1>3 DEF IInv, PumpOK, Blocks
<1>5. turn' \in Message \cup {NoMessage, HumanTurn} /\ log' \in [Message -> LogState]
  BY <1>0 DEF ProviderTakes, ProviderRefuses, RejectTurn, IInv, TypeOK, LogState
<1>6. TypeOK'
  BY <1>1, <1>2, <1>3, <1>5 DEF IInv, TypeOK
<1>. QED
  BY <1>1, <1>2, <1>4, <1>6, Quiet, ProbeSame

LEMMA ReturnedStep == ASSUME IInv, SubmitReturned PROVE Result
<1>. DEFINE m == pump.m
<1>0. m \in Message /\ mem.state[m] # "none" /\ pump.pc = "took" /\ mem \in Box /\ pump' = IdlePump
  BY DEF SubmitReturned, PumpAt, IInv, PumpOK, TypeOK
<1>1. CASE mem.state[m] = "dispatching" /\ Change(Moved(mem, m, "accepted"), m)
  <2>1. "accepted" \in State \ {"none"} /\ Blocks(mem, m) /\ Moves(mem, Moved(mem, m, "accepted"), m, "accepted")
        /\ Moved(mem, m, "accepted") \in Box
    <3>1. "accepted" \in State \ {"none"} /\ Blocks(mem, m) /\ mem.state[m] \notin Terminal \cup {"none"}
      BY <1>1 DEF State, InFlight, Blocks, Terminal
    <3>2. /\ Moved(mem, m, "accepted") \in Box
          /\ Moved(mem, m, "accepted").state = [mem.state EXCEPT ![m] = "accepted"]
          /\ Moved(mem, m, "accepted").ahead = mem.ahead
          /\ Moved(mem, m, "accepted").started = mem.started
      BY <1>0, <3>1, MovedType
    <3>. QED
      BY <3>1, <3>2 DEF Moves
  <2>2. MayMove(m, "accepted")
    BY <1>1, <2>1 DEF MayMove, InFlight
  <2>. QED
    BY <1>0, <1>1, <2>1, <2>2, LastMove DEF SubmitReturned, provider
<1>2. CASE UNCHANGED <<mem, disk, phase, active, probe, budget>>
  <2>1. PumpOK' /\ ends' = ends /\ given' = given /\ answered' = answered
    BY <1>0 DEF PumpOK, IdlePump, SubmitReturned, provider
  <2>2. TypeOK'
    BY <1>0, <1>2 DEF IInv, TypeOK, SubmitReturned, provider, IdlePump, PumpPoint, Why
  <2>. QED
    BY <1>2, <2>1, <2>2, Quiet, ProbeSame, GivenSame
<1>. QED
  BY <1>1, <1>2 DEF SubmitReturned

LEMMA DeferredIs ==
    ASSUME IInv, NEW m \in Message, NEW why
    PROVE  \E s \in {"uncertain", "waiting", "failed"} :
             /\ Deferred(m, why) \in Box
             /\ Deferred(m, why).state = [mem.state EXCEPT ![m] = s]
             /\ Deferred(m, why).ahead = mem.ahead /\ Deferred(m, why).started = mem.started
             /\ s = "uncertain" <=> mem.started[m]
<1>0. mem \in Box /\ mem.started[m] \in BOOLEAN /\ {"uncertain", "waiting", "failed"} \subseteq State
  BY DEF IInv, TypeOK, Box, State, InFlight, Terminal
<1>1. CASE mem.started[m]
  BY <1>0, <1>1, MovedType DEF Deferred
<1>2. CASE ~mem.started[m] /\ why = "busy"
  <2>. DEFINE w == Moved(mem, m, "waiting")
              k == IF m \in Scheduled /\ mem.attempts[m] > 0 THEN mem.attempts[m] - 1 ELSE 0
  <2>1. /\ Moved(mem, m, "waiting") \in Box
        /\ Moved(mem, m, "waiting").state = [mem.state EXCEPT ![m] = "waiting"]
        /\ Moved(mem, m, "waiting").ahead = mem.ahead /\ Moved(mem, m, "waiting").started = mem.started
        /\ Moved(mem, m, "waiting").attempts = mem.attempts
    BY <1>0, MovedType
  <2>2. k \in Nat
    BY <1>0 DEF Box
  <2>3. Deferred(m, why) = [w EXCEPT !.attempts = [w.attempts EXCEPT ![m] = k]]
    <3>1. Deferred(m, why) = [w EXCEPT
              !.attempts[m] = IF m \in Scheduled /\ @ > 0 THEN @ - 1 ELSE 0]
      BY <1>2, Zenon DEF Deferred
    <3>2. [w EXCEPT !.attempts[m] = IF m \in Scheduled /\ @ > 0 THEN @ - 1 ELSE 0]
            = [w EXCEPT !.attempts = [w.attempts EXCEPT ![m] = k]]
      BY <2>1
    <3>. QED
      BY <3>1, <3>2
  <2>4. [w.attempts EXCEPT ![m] = k] \in [Message -> Nat]
    BY <1>0, <2>1, <2>2 DEF Box
  <2>. QED
    BY <1>2, <2>1, <2>3, <2>4 DEF Box
<1>3. CASE ~mem.started[m] /\ why # "busy"
  <2>1. \E s \in {"waiting", "failed"} : Deferred(m, why) = Moved(mem, m, s)
    BY <1>3 DEF Deferred
  <2>. QED
    BY <1>0, <1>3, <2>1, MovedType
<1>. QED
  BY <1>0, <1>1, <1>2, <1>3

LEMMA RaisedStep == ASSUME IInv, SubmitRaised PROVE Result
<1>. DEFINE m == pump.m
<1>0. /\ m \in Message /\ mem.state[m] # "none" /\ pump.pc = "raised" /\ mem \in Box /\ pump' = IdlePump
      /\ \A o \in Message \ {m} : Blocks(mem, o) => mem.state[o] \notin InFlight
  BY DEF SubmitRaised, PumpAt, IInv, PumpOK, TypeOK
<1>1. CASE mem.state[m] \notin Terminal /\ Change(Deferred(m, pump.why), m)
  <2>1. PICK s \in {"uncertain", "waiting", "failed"} :
             /\ Deferred(m, pump.why) \in Box
             /\ Deferred(m, pump.why).state = [mem.state EXCEPT ![m] = s]
             /\ Deferred(m, pump.why).ahead = mem.ahead /\ Deferred(m, pump.why).started = mem.started
             /\ s = "uncertain" <=> mem.started[m]
    BY <1>0, DeferredIs
  <2>2. s \in State \ {"none"} /\ Moves(mem, Deferred(m, pump.why), m, s)
    BY <1>0, <1>1, <2>1 DEF State, InFlight, Terminal, Moves
  <2>3. s = "uncertain" => mem.state[m] \in InFlight
    BY <1>0, <1>1, <2>1 DEF IInv, Good, TypeOK, Box, State
  <2>4. MayMove(m, s)
    BY <1>0, <1>1, <2>1, <2>3 DEF MayMove, Blocks, InFlight
  <2>. QED
    BY <1>0, <1>1, <2>1, <2>2, <2>4, LastMove DEF SubmitRaised, provider
<1>2. CASE UNCHANGED <<mem, disk, phase, active, probe, budget>>
  <2>1. PumpOK' /\ ends' = ends /\ given' = given /\ answered' = answered
    BY <1>0 DEF PumpOK, IdlePump, SubmitRaised, provider
  <2>2. TypeOK'
    BY <1>0, <1>2 DEF IInv, TypeOK, SubmitRaised, provider, IdlePump, PumpPoint, Why
  <2>. QED
    BY <1>2, <2>1, <2>2, Quiet, ProbeSame, GivenSame
<1>. QED
  BY <1>1, <1>2 DEF SubmitRaised

-----------------------------------------------------------------------------
(* Ends of turns *)

LEMMA EndStep ==
    ASSUME IInv, NEW m \in Message,
           CloseOrphan(m) \/ \E status \in Terminal : TurnEnds(m, status)
    PROVE  Result
<1>1. /\ UNCHANGED <<mem, disk, phase, todo, recov, active, pump, probe, target, given, answered, budget>>
      /\ turn' \in {turn, NoMessage}
      /\ \E status \in Terminal : EndOfTurn(m, status)
  BY DEF CloseOrphan, TurnEnds, Terminal
<1>2. /\ log' \in [Message -> LogState] /\ ends \subseteq ends' /\ notes' \subseteq ends'
      /\ ends' \subseteq Message \X Terminal
  BY <1>1 DEF EndOfTurn, IInv, TypeOK, LogState
<1>3. TypeOK'
  BY <1>1, <1>2 DEF IInv, TypeOK
<1>. QED
  BY <1>1, <1>2, <1>3, Quiet, ProbeSame, PumpSame, GivenSame

LEMMA CompletedStep ==
    ASSUME IInv, NEW m \in Message, NEW status \in Terminal, Completed(m, status)
    PROVE  Result
<1>1. CASE Blocks(mem, m) /\ Change(Moved(mem, m, status), m)
  <2>1. /\ status \in State \ {"none"} /\ status \notin InFlight
        /\ mem.state[m] \notin Terminal \cup {"none"}
        /\ <<m, status>> \in ends
    BY <1>1 DEF Blocks, State, Terminal, InFlight, Completed, IInv, TypeOK
  <2>2. MayMove(m, status)
    BY <1>1, <2>1 DEF MayMove, Terminal, InFlight
  <2>. QED
    BY <1>1, <2>1, <2>2, PlainMove DEF Completed
<1>2. CASE UNCHANGED <<mem, disk, phase, active, probe, budget>>
  <2>1. TypeOK'
    BY <1>2 DEF IInv, TypeOK, Completed
  <2>. QED
    BY <1>2, <2>1, Quiet, ProbeSame, PumpSame, GivenSame DEF Completed
<1>. QED
  BY <1>1, <1>2 DEF Completed

-----------------------------------------------------------------------------
(* Reconciliation *)

LEMMA EvidenceIs ==
    ASSUME IInv, NEW m \in Message, NEW proof \in Evidence(m)
    PROVE  /\ proof \in {"absent", "started", "live"} \cup Terminal
           /\ proof = "completed" => <<m, "completed">> \in ends
BY DEF Evidence, Terminal

LEMMA ResolvedIs ==
    ASSUME IInv, NEW m \in Message, InDoubt(m), NEW proof, NEW dead, NEW restarting,
           proof = "completed" => <<m, "completed">> \in ends
    PROVE  LET s == Resolved(m, proof, dead, restarting)
           IN  /\ s \in State \ {"none"} /\ MayMove(m, s)
               /\ mem.state[m] \notin Terminal \cup {"none"}
<1>. DEFINE s == Resolved(m, proof, dead, restarting)
<1>1. mem.state[m] \in InFlight /\ Blocks(mem, m) /\ mem.state[m] \notin Terminal \cup {"none"}
  BY DEF InDoubt, InFlight, Terminal
<1>2. \/ proof \in Terminal /\ s = proof
      \/ s = mem.state[m]
      \/ s = "queued" /\ ~mem.started[m]
      \/ s = "uncertain"
  BY DEF Resolved
<1>3. s \in State \ {"none"}
  BY <1>1, <1>2 DEF State, InFlight, Terminal
<1>4. CASE proof \in Terminal /\ s = proof
  BY <1>1, <1>3, <1>4 DEF MayMove, Terminal, InFlight
<1>5. CASE s = mem.state[m]
  BY <1>1, <1>3, <1>5 DEF MayMove, InFlight
<1>6. CASE s = "queued" /\ ~mem.started[m]
  BY <1>1, <1>3, <1>6 DEF MayMove, InFlight
<1>7. CASE s = "uncertain"
  BY <1>1, <1>3, <1>7 DEF MayMove, InFlight
<1>. QED
  BY <1>1, <1>2, <1>3, <1>4, <1>5, <1>6, <1>7

LEMMA ReadStep == ASSUME IInv, NEW m \in Message, ReadEvidence(m) PROVE Result
<1>1. /\ UNCHANGED <<mem, disk, phase, todo, recov, active, pump, target, provider, answered>>
      /\ budget' \in 0 .. Budget /\ InDoubt(m)
  BY InboxAssumption DEF ReadEvidence, IInv, TypeOK
<1>2. \E proof \in {"absent", "started", "live"} \cup Terminal :
         /\ probe' \in [m : {m}, proof : {proof}, dead : BOOLEAN, fresh : {TRUE}]
         /\ proof = "completed" => <<m, "completed">> \in ends
  <2>1. Dead(m) \in BOOLEAN
    BY DEF Dead
  <2>2. CASE \E proof \in Evidence(m) :
               probe' = [m |-> m, proof |-> proof, dead |-> Dead(m), fresh |-> TRUE]
    <3>1. PICK proof \in Evidence(m) :
               probe' = [m |-> m, proof |-> proof, dead |-> Dead(m), fresh |-> TRUE]
      BY <2>2
    <3>2. probe' \in [m : {m}, proof : {proof}, dead : BOOLEAN, fresh : {TRUE}]
      BY <2>1, <3>1, Zenon
    <3>. QED
      BY <3>2, EvidenceIs
  <2>3. CASE probe' = [m |-> m, proof |-> "started", dead |-> FALSE, fresh |-> TRUE]
    BY <2>3
  <2>. QED
    BY <2>2, <2>3 DEF ReadEvidence
<1>3. TypeOK'
  BY <1>1, <1>2 DEF IInv, TypeOK, provider
<1>4. ProbeOK'
  <2>1. InDoubt(m)'
    BY <1>1 DEF InDoubt, Blocks
  <2>. QED
    BY <1>1, <1>2, <2>1 DEF ProbeOK, provider
<1>. QED
  BY <1>1, <1>3, <1>4, Quiet, PumpSame, GivenSame DEF provider

LEMMA ReconcileStep == ASSUME IInv, Reconcile PROVE Result
<1>. DEFINE m == probe.m
            s == Resolved(m, probe.proof, probe.dead, FALSE)
<1>0. /\ m \in Message /\ probe' = NoProbe /\ mem \in Box
      /\ probe.proof = "completed" => <<m, "completed">> \in ends
      /\ UNCHANGED <<todo, pump, target, provider, answered>>
      /\ recov' \subseteq recov
  BY DEF Reconcile, IInv, ProbeOK, TypeOK
<1>1. ProbeOK' /\ NoProbe \in [m : Message \cup {NoMessage},
                  proof : {"absent", "started", "live"} \cup Terminal,
                  dead : BOOLEAN, fresh : BOOLEAN]
  BY <1>0 DEF ProbeOK, NoProbe
<1>2. CASE StillAsRead /\ SaveRow(Moved(mem, m, s), m)
  <2>1. InDoubt(m) /\ mem.state[m] \in InFlight /\ Blocks(mem, m)
    BY <1>2 DEF Reconcile, IInv, ProbeOK, StillAsRead, InDoubt
  <2>2. s \in State \ {"none"} /\ MayMove(m, s) /\ mem.state[m] \notin Terminal \cup {"none"}
    BY <1>0, <2>1, ResolvedIs
  <2>3. Moved(mem, m, s) \in Box /\ Moves(mem, Moved(mem, m, s), m, s)
    BY <1>0, <2>2, MovedType DEF Moves
  <2>4. /\ Step
        /\ mem' \in Box /\ disk' \in Box /\ active' \subseteq active
        /\ phase' \in {phase, "closing"} /\ budget' \in 0 .. Budget
        /\ mem'.started = mem.started
        /\ \A o \in Message : disk.started[o] => disk'.started[o]
        /\ \A o \in Message \ {m} : mem'.state[o] = mem.state[o]
        /\ mem'.state[m] \in {s, mem.state[m]}
    BY <1>0, <1>2, <2>2, <2>3, MoveStep DEF provider
  <2>5. PumpOK'
    <3>1. CASE pump.pc = "idle"
      BY <1>0, <3>1 DEF PumpOK
    <3>2. CASE pump.pc # "idle"
      BY <1>0, <2>1, <2>2, <2>4, <3>2, PumpKept DEF provider
    <3>. QED
      BY <3>1, <3>2
  <2>6. TypeOK'
    BY <1>0, <1>1, <2>4 DEF IInv, TypeOK, provider
  <2>. QED
    BY <1>0, <1>1, <2>4, <2>5, <2>6 DEF Result, Step, IInv, provider
<1>3. CASE UNCHANGED <<mem, disk, phase, active, budget>>
  <2>1. TypeOK'
    BY <1>0, <1>1, <1>3 DEF IInv, TypeOK, provider
  <2>. QED
    BY <1>0, <1>1, <1>3, <2>1, Quiet, PumpSame, GivenSame DEF provider
<1>. QED
  BY <1>2, <1>3 DEF Reconcile

LEMMA RecoverStep == ASSUME IInv, NEW m \in Message, Recover(m) PROVE Result
<1>0. UNCHANGED <<pump, target, provider, answered>> /\ todo' \subseteq todo /\ recov' \subseteq recov
  BY DEF Recover
<1>1. ASSUME InDoubt(m), NEW proof \in Evidence(m) \cup {"started"},
             Change(Moved(mem, m, Resolved(m, proof, TRUE, TRUE)), m)
      PROVE  Result
  <2>1. proof = "completed" => <<m, "completed">> \in ends
    BY <1>1, EvidenceIs
  <2>2. mem.state[m] \in InFlight /\ Blocks(mem, m)
    BY <1>1 DEF InDoubt
  <2>. DEFINE s == Resolved(m, proof, TRUE, TRUE)
  <2>3. s \in State \ {"none"} /\ MayMove(m, s) /\ mem.state[m] \notin Terminal \cup {"none"}
    BY <1>1, <2>1, ResolvedIs
  <2>. QED
    BY <1>0, <1>1, <2>2, <2>3, PlainMove DEF provider
<1>2. ASSUME UNCHANGED <<mem, disk, phase, active, probe>>, budget' \in 0 .. Budget
      PROVE  Result
  <2>1. TypeOK'
    BY <1>0, <1>2 DEF IInv, TypeOK, provider
  <2>. QED
    BY <1>0, <1>2, <2>1, Quiet, ProbeSame, PumpSame, GivenSame DEF provider
<1>3. CASE /\ InDoubt(m)
           /\ \E proof \in Evidence(m) \cup (IF m \in Scheduled THEN {} ELSE {"started"}) :
                 Change(Moved(mem, m, Resolved(m, proof, TRUE, TRUE)), m)
  BY <1>1, <1>3
<1>4. CASE budget > 0 /\ budget' = budget - 1 /\ UNCHANGED <<mem, disk, phase, active, probe>>
  <2>1. budget' \in 0 .. Budget
    BY <1>4, InboxAssumption DEF IInv, TypeOK
  <2>. QED
    BY <1>2, <1>4, <2>1
<1>5. CASE UNCHANGED <<mem, disk, phase, active, probe, budget>>
  <2>1. budget' \in 0 .. Budget
    BY <1>5 DEF IInv, TypeOK
  <2>. QED
    BY <1>2, <1>5, <2>1
<1>. QED
  BY <1>3, <1>4, <1>5 DEF Recover

-----------------------------------------------------------------------------
(* The rest *)

LEMMA OutsideStep ==
    ASSUME IInv,
           \/ Start \/ TurnLost \/ Retarget \/ HumanTypes \/ HumanTurnEnds \/ Stop
           \/ \E h \in Hold : SetHold(h)
    PROVE  Result
<1>1. /\ UNCHANGED <<mem, disk, todo, recov, active, pump, probe, log, ends, notes, given, answered>>
      /\ phase' \in {phase, "running", "closing"}
      /\ phase' = "running" => phase # "closing"
      /\ phase = "closing" => phase' = "closing"
  BY DEF Start, TurnLost, Retarget, HumanTypes, HumanTurnEnds, Stop, SetHold, provider, IInv, TypeOK
<1>2. target' \in [inc : Nat, hold : Hold] /\ budget' \in 0 .. Budget
  BY InboxAssumption DEF Start, TurnLost, Retarget, HumanTypes, HumanTurnEnds, Stop, SetHold, IInv, TypeOK
<1>3. turn' \in {turn, HumanTurn, NoMessage}
  BY DEF Start, TurnLost, Retarget, HumanTypes, HumanTurnEnds, Stop, SetHold, provider
<1>4. TypeOK'
  BY <1>1, <1>2, <1>3 DEF IInv, TypeOK
<1>5. PumpOK' /\ ProbeOK'
  BY <1>1, PumpSame, ProbeSame
<1>6. Changes(mem, mem, active) /\ Lag' /\ RunsOK' /\ RunsFollow
  BY <1>1 DEF Changes, Same, Lag, IInv, RunsOK, RunsFollow, Blocks
<1>7. Good(mem', given', ends', active', answered') /\ Good(disk', given', ends', active', answered')
  BY <1>1 DEF IInv
<1>. QED
  BY <1>1, <1>4, <1>5, <1>6, <1>7 DEF Result, IInv

LEMMA ObserverStep == ASSUME IInv, ObserverSaves PROVE Result
<1>1. /\ UNCHANGED <<mem, phase, todo, recov, active, pump, probe, target, provider, answered, budget>>
      /\ disk' = mem
  BY DEF ObserverSaves
<1>2. Changes(mem, mem, active) /\ Lag' /\ RunsOK' /\ RunsFollow
  BY <1>1 DEF Changes, Same, Lag, IInv, RunsOK, RunsFollow, Blocks
<1>3. PumpOK' /\ ProbeOK' /\ TypeOK'
  BY <1>1, ProbeSame DEF IInv, PumpOK, Blocks, TypeOK, provider
<1>. QED
  BY <1>1, <1>2, <1>3 DEF Result, IInv, provider

LEMMA RestartStep == ASSUME IInv, Restart PROVE Result
<1>1. /\ mem' = disk /\ disk' = disk /\ phase' = "starting" /\ pump' = IdlePump /\ probe' = NoProbe
      /\ active' = {m \in active : disk.state[m] = "none" \/ Blocks(disk, m)}
      /\ turn' = NoMessage /\ notes' = {} /\ todo' \subseteq Message /\ recov' \subseteq Scheduled
      /\ budget' \in 0 .. Budget
      /\ UNCHANGED <<disk, target, log, ends, given, answered>>
  BY InboxAssumption DEF Restart, IInv, TypeOK
<1>2. Good(disk, given, ends, active', answered)
  BY <1>1 DEF IInv, Good, Blocks, Terminal
<1>3. Lag' /\ RunsOK' /\ RunsFollow
  BY <1>1 DEF Lag, RunsOK, RunsFollow, Blocks
<1>4. Changes(mem, disk, active)
  BY DEF IInv, Lag, Changes, Same
<1>5. Changes(mem, mem', active')
  <2>1. ASSUME NEW m \in Message, Admits(mem, disk, m, active)
        PROVE  Admits(mem, disk, m, active')
    <3>1. disk.state[m] = "queued"
      BY <2>1 DEF Admits, IInv, TypeOK, Box
    <3>. QED
      BY <1>1, <2>1, <3>1 DEF Admits, Blocks, Terminal
  <2>. QED
    BY <1>1, <1>4, <2>1 DEF Changes
<1>6. PumpOK' /\ ProbeOK'
  BY <1>1 DEF PumpOK, ProbeOK, IdlePump
<1>7. TypeOK'
  BY <1>1 DEF IInv, TypeOK, IdlePump, NoProbe, PumpPoint, Why
<1>. QED
  BY <1>1, <1>2, <1>3, <1>5, <1>6, <1>7 DEF Result, IInv

LEMMA StutterStep == ASSUME IInv, UNCHANGED vars PROVE Result
<1>1. TypeOK'
  BY DEF IInv, TypeOK, vars
<1>. QED
  BY <1>1, Quiet, ProbeSame, PumpSame, GivenSame DEF vars

LEMMA InitOK == Init => IInv
<1>. SUFFICES ASSUME Init PROVE IInv
  OBVIOUS
<1>1. EmptyBox \in Box
  BY DEF EmptyBox, Box, State
<1>2. TypeOK
  BY <1>1, InboxAssumption DEF Init, TypeOK, IdlePump, NoProbe, PumpPoint, Why, Hold, LogState
<1>3. Good(EmptyBox, given, ends, active, answered)
  BY DEF Init, Good, EmptyBox, Blocks, Admitted
<1>. QED
  BY <1>2, <1>3 DEF Init, IInv, Lag, RunsOK, PumpOK, ProbeOK, IdlePump, EmptyBox

LEMMA EveryStep == ASSUME IInv, [Next]_vars PROVE Result
<1>1. CASE \E m \in Message : Enqueue(m) \/ AdmitScheduled(m) \/ Cancel(m) \/ CancelScheduled(m)
  BY <1>1, EnqueueStep, AdmitStep, CancelStep
<1>2. CASE Pump
  BY <1>2, TakesStep, SubmitStep, FenceStep, ProviderStep, ReturnedStep, RaisedStep DEF Pump
<1>3. CASE \E m \in Message : \/ CloseOrphan(m) \/ ReadEvidence(m) \/ Recover(m)
                              \/ \E status \in Terminal : TurnEnds(m, status) \/ Completed(m, status)
  BY <1>3, EndStep, ReadStep, RecoverStep, CompletedStep
<1>4. CASE \/ Start \/ TurnLost \/ Retarget \/ HumanTypes \/ HumanTurnEnds \/ Stop
           \/ \E h \in Hold : SetHold(h)
  BY <1>4, OutsideStep
<1>5. CASE Reconcile \/ ObserverSaves \/ Restart \/ UNCHANGED vars
  BY <1>5, ReconcileStep, ObserverStep, RestartStep, StutterStep
<1>. QED
  BY <1>1, <1>2, <1>3, <1>4, <1>5 DEF Next

-----------------------------------------------------------------------------
(* The theorems *)

LEMMA Inductive == Spec => []IInv
<1>1. IInv /\ [Next]_vars => IInv'
  BY EveryStep DEF Result
<1>. QED
  BY <1>1, InitOK, PTL DEF Spec

(* The inbox only ever holds rows of the declared shape. *)
THEOREM TypeCorrect == Spec => []TypeOK
<1>1. IInv => TypeOK
  BY DEF IInv
<1>. QED
  BY <1>1, Inductive, PTL

(* No message is handed to the provider twice, however often the hub fails  *)
(* and restarts: the fence marks the row before the provider is touched.    *)
THEOREM DeliveredAtMostOnce == Spec => []GivenAtMostOnce
<1>1. IInv => GivenAtMostOnce
  BY DEF IInv, GivenAtMostOnce
<1>. QED
  BY <1>1, Inductive, PTL

(* Whatever may be taken up again was never submitted, in memory or on disk. *)
THEOREM RequeuedIsUnsubmitted == Spec => []QueuedIsUnsubmitted
<1>1. IInv => QueuedIsUnsubmitted
  BY DEF IInv, TypeOK, Good, QueuedIsUnsubmitted
<1>. QED
  BY <1>1, Inductive, PTL

(* A receipt that was returned survives every crash. *)
THEOREM ReceiptsAreDurable == Spec => []AnsweredIsDurable
<1>1. IInv => AnsweredIsDurable
  BY DEF IInv, TypeOK, Good, AnsweredIsDurable
<1>. QED
  BY <1>1, Inductive, PTL

(* No completion is reported that the provider's stream does not hold. *)
THEOREM CompletionsAreProven == Spec => []CompletedIsProven
<1>1. IInv => CompletedIsProven
  BY DEF IInv, Good, CompletedIsProven
<1>. QED
  BY <1>1, Inductive, PTL

(* A settled message keeps its result, across restarts too. *)
THEOREM SettledForGood == Spec => SettledIsFinal
<1>1. IInv /\ [Next]_vars =>
        [\A m \in Message : mem.state[m] \in Terminal => mem'.state[m] = mem.state[m]]_vars
  <2>. SUFFICES ASSUME IInv, [Next]_vars
                PROVE  \A m \in Message : mem.state[m] \in Terminal => mem'.state[m] = mem.state[m]
    OBVIOUS
  <2>1. Changes(mem, mem', active') /\ mem \in Box /\ mem' \in Box
    BY EveryStep DEF Result, IInv, TypeOK
  <2>. QED
    BY <2>1, ChangeSettles
<1>. QED
  BY <1>1, Inductive, PTL DEF Spec, SettledIsFinal

-----------------------------------------------------------------------------
(* The inbox implements its contract *)

Fate == [m \in Message |-> IF mem.state[m] = "none" THEN "absent"
                           ELSE IF Stopped(m) THEN "closed" ELSE "open"]
Handed == {m \in Message : mem.started[m]}

LEMMA AdmitsAccepts ==
    ASSUME IInv, mem' \in Box, RunsFollow, NEW m \in Message, Admits(mem, mem', m, active')
    PROVE  Contract!Accept(m)
<1>0. mem.state \in [Message -> State] /\ mem'.state \in [Message -> State]
      /\ mem.ahead \in [Message -> SUBSET Message]
  BY DEF IInv, TypeOK, Box
<1>1. /\ mem.state[m] = "none" /\ mem'.state[m] = "queued"
      /\ \A o \in Message \ {m} : mem'.state[o] = mem.state[o] /\ (Blocks(mem', o) <=> Blocks(mem, o))
  BY <1>0 DEF Admits, Blocks
<1>2. Fate[m] = "absent" /\ Fate'[m] = "open"
  <2>1. ~Stopped(m)'
    BY <1>1 DEF Stopped, Blocks, Terminal, Admits
  <2>. QED
    BY <1>1, <2>1 DEF Fate
<1>3. ASSUME NEW o \in Message \ {m} PROVE Fate'[o] = Fate[o]
  <2>1. mem.state[o] # "none" => (Stopped(o)' <=> Stopped(o))
    BY <1>1 DEF Stopped, RunsFollow
  <2>. QED
    BY <1>1, <2>1 DEF Fate
<1>4. Fate' = [Fate EXCEPT ![m] = "open"]
  BY <1>2, <1>3 DEF Fate
<1>5. Handed' = Handed
  BY DEF Handed, Admits
<1>6. mem'.ahead = [mem.ahead EXCEPT ![m] = {o \in Message : Fate[o] # "absent"}]
  <2>1. {o \in Message : Fate[o] # "absent"} = Admitted(mem)
    BY DEF Fate, Admitted
  <2>. QED
    BY <2>1 DEF Admits
<1>. QED
  BY <1>2, <1>4, <1>5, <1>6 DEF Contract!Accept, Fate, Handed

LEMMA MarksHandsOver ==
    ASSUME IInv, mem' \in Box, RunsFollow, NEW m \in Message, Marks(mem, mem', m)
    PROVE  Contract!HandOver(m)
<1>0. mem.started \in [Message -> BOOLEAN] /\ Good(mem, given, ends, active, answered)
  BY DEF IInv, TypeOK, Box
<1>1. Blocks(mem, m) /\ mem.state[m] \in InFlight /\ mem.state[m] # "none"
  BY DEF Marks, Blocks, InFlight, Terminal
<1>2. Fate[m] = "open" /\ m \notin Handed
  BY <1>0, <1>1 DEF Fate, Stopped, Handed, Marks, Good
<1>3. ASSUME NEW o \in mem.ahead[m] \cup Handed PROVE o \in Message /\ Fate[o] = "closed"
  <2>1. o \in Message /\ o # m /\ mem.state[o] # "none"
    BY <1>0, <1>2 DEF Good, Admitted, Handed
  <2>2. ~Blocks(mem, o)
    <3>1. CASE o \in mem.ahead[m]
      BY <1>0, <1>1, <2>1, <3>1 DEF Good
    <3>2. CASE o \in Handed
      <4>1. Blocks(mem, o) => mem.state[o] \in InFlight
        BY <1>0, <2>1, <3>2 DEF Good, Handed, Blocks, IInv, TypeOK, Box, State
      <4>. QED
        BY <1>0, <1>1, <2>1, <4>1 DEF Good
    <3>. QED
      BY <3>1, <3>2
  <2>. QED
    BY <2>1, <2>2 DEF Fate, Stopped
<1>4. Handed' = Handed \cup {m}
  BY <1>0 DEF Handed, Marks
<1>5. Fate' = Fate /\ mem'.ahead = mem.ahead
  <2>1. \A o \in Message : mem.state[o] # "none" => (Stopped(o)' <=> Stopped(o))
    BY DEF Stopped, RunsFollow, Marks, Blocks
  <2>. QED
    BY <2>1 DEF Fate, Marks
<1>. QED
  BY <1>2, <1>3, <1>4, <1>5 DEF Contract!HandOver, Fate, Handed

LEMMA MovesCloses ==
    ASSUME IInv, mem' \in Box, RunsFollow, NEW m \in Message, NEW s \in State \ {"none"},
           Moves(mem, mem', m, s)
    PROVE  Contract!Close(m) \/ UNCHANGED <<Fate, mem.ahead, Handed>>
<1>0. mem.state \in [Message -> State] /\ mem'.state \in [Message -> State]
  BY DEF IInv, TypeOK, Box
<1>1. /\ mem.state[m] \notin Terminal \cup {"none"} /\ mem'.state[m] = s /\ s # "none"
      /\ \A o \in Message \ {m} : mem'.state[o] = mem.state[o] /\ (Blocks(mem', o) <=> Blocks(mem, o))
  BY <1>0 DEF Moves, Blocks
<1>2. Handed' = Handed /\ mem'.ahead = mem.ahead
  BY DEF Handed, Moves
<1>3. ASSUME NEW o \in Message \ {m} PROVE Fate'[o] = Fate[o]
  <2>1. mem.state[o] # "none" => (Stopped(o)' <=> Stopped(o))
    BY <1>1 DEF Stopped, RunsFollow
  <2>. QED
    BY <1>1, <2>1 DEF Fate
<1>4. Stopped(m) => Stopped(m)'
  <2>1. Stopped(m) => m \in Scheduled /\ m \notin active
    BY <1>1 DEF Stopped, Blocks, IInv, RunsOK
  <2>. QED
    BY <1>1, <2>1 DEF Stopped, RunsFollow
<1>5. CASE Stopped(m) \/ ~Stopped(m)'
  <2>1. Fate'[m] = Fate[m]
    BY <1>1, <1>4, <1>5 DEF Fate
  <2>2. Fate' = Fate
    BY <1>3, <2>1 DEF Fate
  <2>. QED
    BY <1>2, <2>2
<1>6. CASE ~Stopped(m) /\ Stopped(m)'
  <2>1. Fate[m] = "open" /\ Fate'[m] = "closed"
    BY <1>1, <1>6 DEF Fate
  <2>2. Fate' = [Fate EXCEPT ![m] = "closed"]
    BY <1>3, <2>1 DEF Fate
  <2>. QED
    BY <1>2, <2>1, <2>2 DEF Contract!Close, Fate, Handed
<1>. QED
  BY <1>5, <1>6

(* Every step of the inbox, a restart included, is one step of the contract *)
(* or none: one message at a time, in order, each at most once, and never   *)
(* after it was closed.                                                     *)
THEOREM ImplementsContract == Spec => KeepsContract
<1>1. Init => Contract!FInit
  <2>. SUFFICES ASSUME Init PROVE Contract!FInit
    OBVIOUS
  <2>. QED
    BY DEF Init, EmptyBox, Contract!FInit
<1>2. ASSUME IInv, [Next]_vars PROVE [Contract!FNext]_(Contract!fvars)
  <2>0. Changes(mem, mem', active') /\ RunsFollow /\ mem' \in Box
    BY <1>2, EveryStep DEF Result, IInv, TypeOK
  <2>1. CASE Same(mem, mem')
    <3>1. \A o \in Message : mem.state[o] # "none" => (Stopped(o)' <=> Stopped(o))
      BY <2>0, <2>1 DEF Stopped, RunsFollow, Same, Blocks
    <3>2. Fate' = Fate /\ Handed' = Handed /\ mem'.ahead = mem.ahead
      BY <2>1, <3>1 DEF Fate, Handed, Same
    <3>. QED
      BY <3>2 DEF Contract!fvars, Fate, Handed
  <2>2. CASE \E m \in Message : Admits(mem, mem', m, active')
    BY <1>2, <2>0, <2>2, AdmitsAccepts DEF Contract!FNext
  <2>3. CASE \E m \in Message : Marks(mem, mem', m)
    BY <1>2, <2>0, <2>3, MarksHandsOver DEF Contract!FNext
  <2>4. CASE \E m \in Message, s \in State \ {"none"} : Moves(mem, mem', m, s)
    <3>1. PICK m \in Message : \E s \in State \ {"none"} : Moves(mem, mem', m, s)
      BY <2>4
    <3>2. Contract!Close(m) \/ UNCHANGED <<Fate, mem.ahead, Handed>>
      BY <1>2, <2>0, <3>1, MovesCloses
    <3>. QED
      BY <3>2 DEF Contract!FNext, Contract!fvars, Fate, Handed
  <2>. QED
    BY <2>0, <2>1, <2>2, <2>3, <2>4 DEF Changes
<1>3. IInv /\ [Next]_vars => [Contract!FNext]_(Contract!fvars)
  BY <1>2
<1>. QED
  BY <1>1, <1>3, Inductive, PTL DEF Spec, KeepsContract, Contract!FSpec
=============================================================================
