---------------------------- MODULE PunchesProofs ----------------------------
(***************************************************************************)
(* Proofs about Punches and PunchAnswers, for every set of employees, keys *)
(* and requests.                                                           *)
(***************************************************************************)
EXTENDS PunchAnswers, SequenceTheorems, TLAPS

-----------------------------------------------------------------------------
(* A table is a sequence of rows; a row's id is its place. *)

\* What appending a row to a table changes, and what it leaves alone.
LEMMA AppendRow ==
  ASSUME NEW S, NEW t \in Seq(S), NEW x \in S
  PROVE  /\ Append(t, x) \in Seq(S)
         /\ DOMAIN Append(t, x) = DOMAIN t \cup {Len(t) + 1}
         /\ Len(t) + 1 \notin DOMAIN t
         /\ Append(t, x)[Len(t) + 1] = x
         /\ \A i \in DOMAIN t : Append(t, x)[i] = t[i]
         /\ \A i \in DOMAIN t : i \in Nat /\ i < Len(t) + 1
  OBVIOUS

\* What overwriting one row of a table changes.
LEMMA UpdateRow ==
  ASSUME NEW S, NEW t \in Seq(S), NEW s \in DOMAIN t, NEW x \in S
  PROVE  /\ [t EXCEPT ![s] = x] \in Seq(S)
         /\ DOMAIN [t EXCEPT ![s] = x] = DOMAIN t
         /\ [t EXCEPT ![s] = x][s] = x
         /\ \A i \in DOMAIN t \ {s} : [t EXCEPT ![s] = x][i] = t[i]
  OBVIOUS

-----------------------------------------------------------------------------
(* The rows of the two tables *)

ShiftRow == [employee : Employees, open : BOOLEAN]
EventRow == [shift : Nat, kind : PunchKind, at : Nat, key : Keys]

-----------------------------------------------------------------------------
(* The inductive invariant *)

\* A request in flight works for a tap, and the branch it is in fits the kind.
TapFits(q) ==
  q.pc # "idle" =>
    /\ q.key \in Keys
    /\ q.pc = "clock_in" => tap[q.key].kind = "CLOCK_IN"
    /\ q.pc \in {"select", "lock", "decide", "insert"} => tap[q.key].kind # "CLOCK_IN"
    /\ q.pc = "insert" => tap[q.key].kind \in PunchKind
    /\ q.pc = "recheck" => q.error \in ErrorCode

\* A request that waits for a row or holds it has a row of its employee, and
\* one that is about to write has an open row.
RowFits(q) ==
  /\ q.pc \in {"lock", "decide", "insert"} => q.shift # 0
  /\ q.shift # 0 =>
       /\ q.shift \in DOMAIN shifts
       /\ q.pc \in {"lock", "decide", "insert", "recheck"}
       /\ shifts[q.shift].employee = tap[q.key].employee
  /\ q.pc \in {"decide", "insert"} => shifts[q.shift].open

\* The event an answered request was answered with.
AnswerFits(q) ==
  q.reply = "event" =>
    /\ q.event \in DOMAIN events
    /\ events[q.event].key = q.key

RequestsFit == \A r \in Requests : TapFits(req[r]) /\ RowFits(req[r]) /\ AnswerFits(req[r])

\* The row lock: two transactions never hold the same row.
LockExclusive ==
  \A q, r \in Requests :
    (req[q].shift # 0 /\ Holds(q, req[q].shift) /\ Holds(r, req[q].shift)) => q = r

\* An event belongs to a shift and records the tap of its key.
EventsOfTaps ==
  \A i \in DOMAIN events :
    /\ events[i].shift \in DOMAIN shifts
    /\ tap[events[i].key].employee = shifts[events[i].shift].employee
    /\ tap[events[i].key].kind = events[i].kind

IInv == /\ TypeOK
        /\ RequestsFit
        /\ LockExclusive
        /\ EventsOfTaps
        /\ OneOpenShift
        /\ RecordedOnce
        /\ ShiftBracketed

-----------------------------------------------------------------------------
USE DEF Request, Pc, ErrorCode, PostedKind, PunchKind, Tap

LEMMA InitInv == Init => IInv
  <1> SUFFICES ASSUME Init PROVE IInv
    OBVIOUS
  <1>1. TypeOK
    BY EmptySeq DEF Init, TypeOK, IdleRequest
  <1>2. DOMAIN events = {} /\ DOMAIN shifts = {}
    BY DEF Init
  <1> QED
    BY <1>1, <1>2 DEF Init, IInv, RequestsFit, TapFits, RowFits, AnswerFits,
      LockExclusive, EventsOfTaps, OneOpenShift, RecordedOnce, ShiftBracketed,
      OpenShifts, Holds, IdleRequest

-----------------------------------------------------------------------------
(* The slot of a request *)

\* No state allows a kind that is not one of the four.
LEMMA AllowedKinds == \A s : AllowedNext[ShiftState(s)] \subseteq PunchKind
  <1> TAKE s
  <1>1. \A kind : StateAfter(kind) \in {"IDLE", "WORKING", "ON_BREAK"}
    BY DEF StateAfter
  <1>2. ShiftState(s) \in {"IDLE", "WORKING", "ON_BREAK"}
    BY <1>1 DEF ShiftState
  <1> QED
    BY <1>2 DEF AllowedNext

\* Only the slot of request r changes.
OnlySlot(r) == /\ req' \in [Requests -> Request]
               /\ \A q \in Requests \ {r} : req'[q] = req[q]

LEMMA Continued ==
  ASSUME IInv, NEW r \in Requests, req[r].pc # "idle", NEW pc \in Pc, NEW s \in Nat,
         NEW error \in ErrorCode \cup {"none"}, Continue(r, pc, s, error)
  PROVE  /\ OnlySlot(r)
         /\ req'[r].pc = pc
         /\ req'[r].key = req[r].key
         /\ req'[r].shift = s
         /\ req'[r].error = error
         /\ req'[r].reply = "none"
  BY DEF IInv, TypeOK, RequestsFit, TapFits, Continue, RunningRequest, OnlySlot

LEMMA Answered ==
  ASSUME IInv, NEW r \in Requests, req[r].pc # "idle",
         NEW reply \in ErrorCode \cup {"event", "server_error"}, NEW i \in Nat,
         Answer(r, reply, i)
  PROVE  /\ OnlySlot(r)
         /\ req'[r].pc = "replied"
         /\ req'[r].key = req[r].key
         /\ req'[r].shift = 0
         /\ req'[r].reply = reply
         /\ req'[r].event = i
  BY DEF IInv, TypeOK, RequestsFit, TapFits, Answer, AnsweredRequest, OnlySlot

\* An answer with one of the events found under the request's key.
LEMMA AnsweredFound ==
  ASSUME IInv, NEW r \in Requests, req[r].pc # "idle",
         AnswerOneOf(r, EventOf(req[r].key))
  PROVE  /\ OnlySlot(r)
         /\ req'[r].pc = "replied"
         /\ req'[r].key = req[r].key
         /\ req'[r].shift = 0
         /\ req'[r].reply = "event"
         /\ req'[r].event \in DOMAIN events
         /\ events[req'[r].event].key = req[r].key
  <1>1. PICK i \in EventOf(req[r].key) : Answer(r, "event", i)
    BY DEF AnswerOneOf
  <1>2. i \in Nat /\ i \in DOMAIN events /\ events[i].key = req[r].key
    BY DEF EventOf, IInv, TypeOK
  <1> QED
    BY <1>1, <1>2, Answered

-----------------------------------------------------------------------------
(* Steps that write no table *)

\* What such a step has to respect: the slot's new content fits, and a row is
\* newly held only if no transaction holds it.
LEMMA SlotStep ==
  ASSUME IInv, UNCHANGED <<shifts, events, tap>>, clock' \in Nat,
         NEW r \in Requests, OnlySlot(r),
         TapFits(req'[r]), RowFits(req'[r]), AnswerFits(req'[r]),
         Holds(r, req[r].shift)' /\ req'[r].shift # 0 =>
           Holds(r, req'[r].shift) \/ RowLockFree(req'[r].shift)
  PROVE  IInv'
  <1>1. TypeOK'
    BY DEF IInv, TypeOK, OnlySlot
  <1>2. RequestsFit'
    <2> SUFFICES ASSUME NEW q \in Requests
                 PROVE  (TapFits(req[q]) /\ RowFits(req[q]) /\ AnswerFits(req[q]))'
      BY DEF RequestsFit
    <2>1. TapFits(req'[q]) /\ RowFits(req'[q]) /\ AnswerFits(req'[q])
      BY DEF IInv, RequestsFit, OnlySlot
    <2> QED
      BY <2>1 DEF TapFits, RowFits, AnswerFits
  <1>3. LockExclusive'
    <2> SUFFICES ASSUME NEW p \in Requests, NEW q \in Requests, req'[p].shift # 0,
                        Holds(p, req[p].shift)', Holds(q, req[p].shift)'
                 PROVE  p = q
      BY DEF LockExclusive
    <2> DEFINE s == req'[p].shift
    <2>1. s # 0 /\ req'[q].shift = s
      BY DEF Holds
    <2>2. Holds(p, s) \/ RowLockFree(s)
      BY <2>1 DEF OnlySlot, Holds
    <2>3. Holds(q, s) \/ RowLockFree(s)
      BY <2>1 DEF OnlySlot, Holds
    <2>4. CASE Holds(p, s) /\ Holds(q, s)
      BY <2>1, <2>4 DEF IInv, LockExclusive, Holds
    <2>5. CASE RowLockFree(s)
      BY <2>1, <2>5 DEF OnlySlot, RowLockFree, Holds
    <2> QED
      BY <2>2, <2>3, <2>4, <2>5
  <1>4. EventsOfTaps' /\ OneOpenShift' /\ RecordedOnce' /\ ShiftBracketed'
    BY DEF IInv, EventsOfTaps, OneOpenShift, OpenShifts, RecordedOnce, ShiftBracketed,
           Bracketed, EventsOfShift
  <1> QED
    BY <1>1, <1>2, <1>3, <1>4 DEF IInv

LEMMA ArriveInv ==
  ASSUME IInv, NEW r \in Requests, Arrive(r)
  PROVE  IInv'
  <1>1. /\ OnlySlot(r) /\ clock' \in Nat
        /\ req'[r].pc = "check" /\ req'[r].key \in Keys
        /\ req'[r].shift = 0 /\ req'[r].reply = "none"
    BY DEF Arrive, IInv, TypeOK, OnlySlot, RunningRequest
  <1>2. TapFits(req'[r]) /\ RowFits(req'[r]) /\ AnswerFits(req'[r])
    BY <1>1 DEF TapFits, RowFits, AnswerFits
  <1> QED
    BY <1>1, <1>2, SlotStep DEF Arrive

LEMMA CheckKeyInv ==
  ASSUME IInv, NEW r \in Requests, CheckKey(r)
  PROVE  IInv'
  <1>1. /\ req[r].pc = "check" /\ req[r].shift = 0 /\ req[r].key \in Keys
        /\ UNCHANGED <<shifts, events, tap, clock>> /\ clock \in Nat
    BY DEF IInv, TypeOK, RequestsFit, RowFits, TapFits, CheckKey
  <1>2. CASE AnswerOneOf(r, EventOf(req[r].key))
    BY <1>1, <1>2, AnsweredFound, SlotStep DEF TapFits, RowFits, AnswerFits
  <1>3. CASE Goto(r, IF KindOf(r) = "CLOCK_IN" THEN "clock_in" ELSE "select")
    <2>1. PICK pc \in {"clock_in", "select"} :
            /\ Continue(r, pc, 0, "none")
            /\ pc = "clock_in" <=> KindOf(r) = "CLOCK_IN"
      BY <1>1, <1>3 DEF Goto
    <2>2. /\ OnlySlot(r) /\ req'[r].pc = pc /\ req'[r].key = req[r].key
          /\ req'[r].shift = 0 /\ req'[r].reply = "none"
      BY <1>1, <2>1, Continued
    <2> QED
      BY <1>1, <2>1, <2>2, SlotStep DEF TapFits, RowFits, AnswerFits, KindOf
  <1> QED
    BY <1>2, <1>3 DEF CheckKey

LEMMA ClockInRefusedInv ==
  ASSUME IInv, NEW r \in Requests, ClockInRefused(r)
  PROVE  IInv'
  <1>1. /\ req[r].pc = "clock_in" /\ req[r].shift = 0 /\ req[r].key \in Keys
        /\ UNCHANGED <<shifts, events, tap, clock>> /\ clock \in Nat
    BY DEF IInv, TypeOK, RequestsFit, RowFits, TapFits, ClockInRefused
  <1>2. Continue(r, "recheck", 0, "SHIFT_ALREADY_OPEN")
    BY <1>1 DEF ClockInRefused, Fail
  <1> QED
    BY <1>1, <1>2, Continued, SlotStep DEF TapFits, RowFits, AnswerFits

LEMMA SelectOpenShiftInv ==
  ASSUME IInv, NEW r \in Requests, SelectOpenShift(r)
  PROVE  IInv'
  <1>1. /\ req[r].pc = "select" /\ req[r].shift = 0 /\ req[r].key \in Keys
        /\ tap[req[r].key].kind # "CLOCK_IN"
        /\ UNCHANGED <<shifts, events, tap, clock>> /\ clock \in Nat
    BY DEF IInv, TypeOK, RequestsFit, RowFits, TapFits, SelectOpenShift
  <1>2. ASSUME NEW s \in OpenShifts(EmployeeOf(r)), Continue(r, "lock", s, "none")
        PROVE  IInv'
    <2>1. /\ s \in Nat /\ s # 0 /\ s \in DOMAIN shifts
          /\ shifts[s].employee = tap[req[r].key].employee
      BY DEF OpenShifts, EmployeeOf, IInv, TypeOK
    <2>2. /\ OnlySlot(r) /\ req'[r].pc = "lock" /\ req'[r].key = req[r].key
          /\ req'[r].shift = s /\ req'[r].reply = "none"
      BY <1>1, <1>2, <2>1, Continued
    <2> QED
      BY <1>1, <2>1, <2>2, SlotStep DEF TapFits, RowFits, AnswerFits, Holds
  <1>3. CASE Fail(r, "NO_OPEN_SHIFT")
    <2>1. Continue(r, "recheck", 0, "NO_OPEN_SHIFT")
      BY <1>1, <1>3 DEF Fail
    <2> QED
      BY <1>1, <2>1, Continued, SlotStep DEF TapFits, RowFits, AnswerFits
  <1> QED
    BY <1>2, <1>3 DEF SelectOpenShift

LEMMA LockShiftInv ==
  ASSUME IInv, NEW r \in Requests, LockShift(r)
  PROVE  IInv'
  <1>1. /\ req[r].pc = "lock" /\ req[r].key \in Keys
        /\ tap[req[r].key].kind # "CLOCK_IN"
        /\ req[r].shift \in Nat /\ req[r].shift # 0 /\ req[r].shift \in DOMAIN shifts
        /\ shifts[req[r].shift].employee = tap[req[r].key].employee
        /\ RowLockFree(req[r].shift)
        /\ UNCHANGED <<shifts, events, tap, clock>> /\ clock \in Nat
    BY DEF IInv, TypeOK, RequestsFit, RowFits, TapFits, LockShift
  <1>2. CASE shifts[req[r].shift].open /\ Goto(r, "decide")
    <2>1. /\ OnlySlot(r) /\ req'[r].pc = "decide" /\ req'[r].key = req[r].key
          /\ req'[r].shift = req[r].shift /\ req'[r].reply = "none"
      BY <1>1, <1>2, Continued DEF Goto
    <2> QED
      BY <1>1, <1>2, <2>1, SlotStep DEF TapFits, RowFits, AnswerFits
  <1>3. CASE Continue(r, "recheck", 0, "NO_OPEN_SHIFT")
    BY <1>1, <1>3, Continued, SlotStep DEF TapFits, RowFits, AnswerFits
  <1> QED
    BY <1>2, <1>3 DEF LockShift

LEMMA DecideInv ==
  ASSUME IInv, NEW r \in Requests, Decide(r)
  PROVE  IInv'
  <1>1. /\ req[r].pc = "decide" /\ req[r].key \in Keys
        /\ tap[req[r].key].kind # "CLOCK_IN"
        /\ req[r].shift \in Nat /\ req[r].shift # 0 /\ req[r].shift \in DOMAIN shifts
        /\ shifts[req[r].shift].employee = tap[req[r].key].employee
        /\ shifts[req[r].shift].open
        /\ Holds(r, req[r].shift)
        /\ UNCHANGED <<shifts, events, tap, clock>> /\ clock \in Nat
    BY DEF IInv, TypeOK, RequestsFit, RowFits, TapFits, Holds, Decide
  <1>2. CASE KindOf(r) \in AllowedNext[ShiftState(req[r].shift)] /\ Goto(r, "insert")
    <2>1. tap[req[r].key].kind \in PunchKind
      BY <1>2, AllowedKinds DEF KindOf
    <2>2. /\ OnlySlot(r) /\ req'[r].pc = "insert" /\ req'[r].key = req[r].key
          /\ req'[r].shift = req[r].shift /\ req'[r].reply = "none"
      BY <1>1, <1>2, Continued DEF Goto
    <2> QED
      BY <1>1, <2>1, <2>2, SlotStep DEF TapFits, RowFits, AnswerFits
  <1>3. CASE Fail(r, "ILLEGAL_TRANSITION")
    <2>1. /\ OnlySlot(r) /\ req'[r].pc = "recheck" /\ req'[r].key = req[r].key
          /\ req'[r].shift = req[r].shift /\ req'[r].reply = "none"
          /\ req'[r].error = "ILLEGAL_TRANSITION"
      BY <1>1, <1>3, Continued DEF Fail
    <2> QED
      BY <1>1, <2>1, SlotStep DEF TapFits, RowFits, AnswerFits
  <1> QED
    BY <1>2, <1>3 DEF Decide

LEMMA InsertRefusedInv ==
  ASSUME IInv, NEW r \in Requests, InsertRefused(r)
  PROVE  IInv'
  <1>1. /\ req[r].pc = "insert" /\ req[r].key \in Keys /\ Answer(r, "server_error", 0)
        /\ UNCHANGED <<shifts, events, tap, clock>> /\ clock \in Nat
    BY DEF IInv, TypeOK, RequestsFit, TapFits, InsertRefused
  <1> QED
    BY <1>1, Answered, SlotStep DEF TapFits, RowFits, AnswerFits

LEMMA RecheckInv ==
  ASSUME IInv, NEW r \in Requests, Recheck(r)
  PROVE  IInv'
  <1>1. /\ req[r].pc = "recheck" /\ req[r].key \in Keys
        /\ UNCHANGED <<shifts, events, tap, clock>> /\ clock \in Nat
    BY DEF IInv, TypeOK, RequestsFit, TapFits, Recheck
  <1>2. CASE AnswerOneOf(r, EventOf(req[r].key))
    BY <1>1, <1>2, AnsweredFound, SlotStep DEF TapFits, RowFits, AnswerFits
  <1>3. CASE Answer(r, req[r].error, 0)
    <2>1. req[r].error \in ErrorCode
      BY <1>1 DEF IInv, RequestsFit, TapFits
    <2> QED
      BY <1>1, <1>3, <2>1, Answered, SlotStep DEF TapFits, RowFits, AnswerFits
  <1> QED
    BY <1>2, <1>3 DEF Recheck, Existing

LEMMA WorkerDiesInv ==
  ASSUME IInv, NEW r \in Requests, WorkerDies(r)
  PROVE  IInv'
  <1>1. /\ OnlySlot(r) /\ req'[r].pc = "idle" /\ req'[r].shift = 0
        /\ req'[r].reply = "none"
        /\ UNCHANGED <<shifts, events, tap, clock>> /\ clock \in Nat
    BY DEF IInv, TypeOK, WorkerDies, OnlySlot, IdleRequest
  <1> QED
    BY <1>1, SlotStep DEF TapFits, RowFits, AnswerFits

-----------------------------------------------------------------------------
(* The two steps that write the tables *)

LEMMA ClockInInv ==
  ASSUME IInv, NEW r \in Requests, ClockIn(r)
  PROVE  IInv'
  <1> DEFINE n == Len(shifts) + 1
             m == Len(events) + 1
             row == [employee |-> EmployeeOf(r), open |-> TRUE]
             ev == [shift |-> n, kind |-> "CLOCK_IN", at |-> req[r].now, key |-> req[r].key]
  <1>1. /\ req[r].pc = "clock_in" /\ req[r].key \in Keys
        /\ tap[req[r].key].kind = "CLOCK_IN"
        /\ OpenShifts(EmployeeOf(r)) = {} /\ ~Recorded(req[r].key)
        /\ shifts' = Append(shifts, row) /\ events' = Append(events, ev)
        /\ Answer(r, "event", m) /\ UNCHANGED <<tap, clock>>
    BY DEF IInv, RequestsFit, TapFits, ClockIn, OpenShiftIndexAllows, KeyIndexAllows
  <1>2. row \in ShiftRow /\ ev \in EventRow /\ n \in Nat /\ m \in Nat
        /\ shifts \in Seq(ShiftRow) /\ events \in Seq(EventRow)
    BY <1>1 DEF IInv, TypeOK, ShiftRow, EventRow, EmployeeOf
  <1>3. /\ shifts' \in Seq(ShiftRow) /\ DOMAIN shifts' = DOMAIN shifts \cup {n}
        /\ n \notin DOMAIN shifts /\ shifts'[n] = row
        /\ \A s \in DOMAIN shifts : shifts'[s] = shifts[s]
    BY <1>1, <1>2, AppendRow
  <1>4. /\ events' \in Seq(EventRow) /\ DOMAIN events' = DOMAIN events \cup {m}
        /\ m \notin DOMAIN events /\ events'[m] = ev
        /\ \A i \in DOMAIN events : events'[i] = events[i]
        /\ \A i \in DOMAIN events : i \in Nat /\ i < m
    BY <1>1, <1>2, AppendRow
  <1>5. /\ OnlySlot(r) /\ req'[r].pc = "replied" /\ req'[r].key = req[r].key
        /\ req'[r].shift = 0 /\ req'[r].reply = "event" /\ req'[r].event = m
    BY <1>1, <1>2, Answered
  <1> HIDE DEF n, m, row, ev
  <1>6. TypeOK'
    BY <1>1, <1>3, <1>4, <1>5 DEF IInv, TypeOK, OnlySlot, ShiftRow, EventRow
  <1>7. RequestsFit'
    <2> SUFFICES ASSUME NEW q \in Requests
                 PROVE  (TapFits(req[q]) /\ RowFits(req[q]) /\ AnswerFits(req[q]))'
      BY DEF RequestsFit
    <2>1. CASE q = r
      BY <1>1, <1>4, <1>5, <2>1 DEF TapFits, RowFits, AnswerFits, ev
    <2>2. CASE q # r
      <3>1. req'[q] = req[q] /\ TapFits(req[q]) /\ RowFits(req[q]) /\ AnswerFits(req[q])
        BY <1>5, <2>2 DEF IInv, RequestsFit, OnlySlot
      <3>2. TapFits(req[q])'
        BY <1>1, <3>1 DEF TapFits
      <3>3. RowFits(req[q])'
        BY <1>1, <1>3, <3>1 DEF RowFits
      <3>4. AnswerFits(req[q])'
        BY <1>4, <3>1 DEF AnswerFits
      <3> QED
        BY <3>2, <3>3, <3>4
    <2> QED
      BY <2>1, <2>2
  <1>8. LockExclusive'
    BY <1>5 DEF IInv, LockExclusive, OnlySlot, Holds
  <1>9. EventsOfTaps'
    <2>1. /\ ev.shift = n /\ tap[ev.key].employee = row.employee
          /\ tap[ev.key].kind = ev.kind
      BY <1>1 DEF row, ev, EmployeeOf
    <2> SUFFICES ASSUME NEW i \in DOMAIN events'
                 PROVE  /\ events'[i].shift \in DOMAIN shifts'
                        /\ tap'[events'[i].key].employee = shifts'[events'[i].shift].employee
                        /\ tap'[events'[i].key].kind = events'[i].kind
      BY DEF EventsOfTaps
    <2>2. CASE i = m
      BY <1>1, <1>3, <1>4, <2>1, <2>2
    <2>3. CASE i # m
      BY <1>1, <1>3, <1>4, <2>3 DEF IInv, EventsOfTaps
    <2> QED
      BY <2>2, <2>3
  <1>10. OneOpenShift'
    BY <1>1, <1>3 DEF IInv, OneOpenShift, OpenShifts, row
  <1>11. RecordedOnce'
    BY <1>1, <1>4 DEF IInv, RecordedOnce, Recorded, EventOf, ev
  <1>12. ShiftBracketed'
    <2> SUFFICES ASSUME NEW s \in DOMAIN shifts'
                 PROVE  Bracketed(s)'
      BY DEF ShiftBracketed
    <2>1. CASE s = n
      <3>1. EventsOfShift(s)' = {m}
        <4>1. \A i \in DOMAIN events : events[i].shift # n
          BY <1>3 DEF IInv, EventsOfTaps
        <4>2. events'[m].shift = n
          BY <1>4 DEF ev
        <4> QED
          BY <1>4, <2>1, <4>1, <4>2 DEF EventsOfShift
      <3>2. events'[m].kind = "CLOCK_IN" /\ shifts'[n].open
        BY <1>3, <1>4 DEF row, ev
      <3> QED
        BY <2>1, <3>1, <3>2 DEF Bracketed
    <2>2. CASE s \in DOMAIN shifts
      <3>1. EventsOfShift(s)' = EventsOfShift(s)
        BY <1>3, <1>4, <2>2 DEF EventsOfShift, ev
      <3>2. Bracketed(s) /\ EventsOfShift(s) \subseteq DOMAIN events
        BY <2>2 DEF IInv, ShiftBracketed, EventsOfShift
      <3> QED
        BY <1>3, <1>4, <2>2, <3>1, <3>2 DEF Bracketed
    <2> QED
      BY <1>3, <2>1, <2>2
  <1> QED
    BY <1>6, <1>7, <1>8, <1>9, <1>10, <1>11, <1>12 DEF IInv

LEMMA InsertInv ==
  ASSUME IInv, NEW r \in Requests, Insert(r)
  PROVE  IInv'
  <1> DEFINE m == Len(events) + 1
  <1>1. /\ shifts \in Seq(ShiftRow) /\ events \in Seq(EventRow)
        /\ m \in Nat /\ req[r].now \in Nat
        /\ \A s \in DOMAIN shifts : s \in Nat /\ shifts[s] \in ShiftRow
    <2>1. /\ shifts \in Seq(ShiftRow) /\ events \in Seq(EventRow)
          /\ req \in [Requests -> Request]
      BY DEF IInv, TypeOK, ShiftRow, EventRow
    <2> QED
      BY <2>1
  <1>2. /\ req[r].pc = "insert" /\ req[r].key \in Keys
        /\ KindOf(r) \in PunchKind \ {"CLOCK_IN"}
        /\ KindOf(r) = tap[req[r].key].kind
    BY DEF IInv, RequestsFit, TapFits, Insert, KindOf
  <1>3. PICK t \in DOMAIN shifts :
          /\ t = req[r].shift /\ t # 0 /\ shifts[t].open
          /\ shifts[t].employee = tap[req[r].key].employee
          /\ Holds(r, t)
    BY <1>2 DEF IInv, RequestsFit, RowFits, Holds
  <1>4. PICK row \in ShiftRow :
          /\ shifts' = [shifts EXCEPT ![t] = row]
          /\ row.employee = shifts[t].employee
          /\ row.open <=> KindOf(r) # "CLOCK_OUT"
    <2>1. AfterPunch(shifts[t], KindOf(r)) \in ShiftRow
      BY <1>1, <1>3 DEF AfterPunch, ShiftRow
    <2> QED
      BY <1>3, <2>1 DEF Insert, AfterPunch
  <1>5. PICK ev \in EventRow :
          /\ events' = Append(events, ev)
          /\ ev.shift = t /\ ev.kind = KindOf(r) /\ ev.key = req[r].key
    <2> DEFINE e == [shift |-> req[r].shift, kind |-> KindOf(r), at |-> req[r].now,
                     key |-> req[r].key]
    <2>1. e \in EventRow
      BY <1>1, <1>2, <1>3 DEF EventRow
    <2>2. events' = Append(events, e)
      BY DEF Insert
    <2> QED
      BY <1>3, <2>1, <2>2
  <1>6. ~Recorded(req[r].key) /\ Answer(r, "event", m) /\ UNCHANGED <<tap, clock>>
    BY DEF Insert, KeyIndexAllows
  <1>7. /\ shifts' \in Seq(ShiftRow) /\ DOMAIN shifts' = DOMAIN shifts
        /\ shifts'[t] = row
        /\ \A s \in DOMAIN shifts \ {t} : shifts'[s] = shifts[s]
    BY <1>1, <1>4, UpdateRow
  <1>8. /\ events' \in Seq(EventRow) /\ DOMAIN events' = DOMAIN events \cup {m}
        /\ m \notin DOMAIN events /\ events'[m] = ev
        /\ \A i \in DOMAIN events : events'[i] = events[i]
        /\ \A i \in DOMAIN events : i \in Nat /\ i < m
    BY <1>1, <1>5, AppendRow
  <1>9. /\ OnlySlot(r) /\ req'[r].pc = "replied" /\ req'[r].key = req[r].key
        /\ req'[r].shift = 0 /\ req'[r].reply = "event" /\ req'[r].event = m
    BY <1>1, <1>2, <1>6, Answered
  <1> HIDE DEF m
  <1>10. TypeOK'
    BY <1>1, <1>6, <1>7, <1>8, <1>9 DEF IInv, TypeOK, OnlySlot, ShiftRow, EventRow
  <1>11. RequestsFit'
    <2> SUFFICES ASSUME NEW q \in Requests
                 PROVE  (TapFits(req[q]) /\ RowFits(req[q]) /\ AnswerFits(req[q]))'
      BY DEF RequestsFit
    <2>1. CASE q = r
      BY <1>2, <1>5, <1>6, <1>8, <1>9, <2>1 DEF TapFits, RowFits, AnswerFits
    <2>2. CASE q # r
      <3>1. req'[q] = req[q] /\ TapFits(req[q]) /\ RowFits(req[q]) /\ AnswerFits(req[q])
        BY <1>9, <2>2 DEF IInv, RequestsFit, OnlySlot
      <3>2. TapFits(req[q])'
        BY <1>6, <3>1 DEF TapFits
      <3>3. req[q].pc \in {"decide", "insert"} => req[q].shift # t
        BY <1>3, <2>2 DEF IInv, LockExclusive, Holds
      <3>4. \A s \in DOMAIN shifts : shifts'[s].employee = shifts[s].employee
        BY <1>4, <1>7
      <3>5. RowFits(req[q])'
        BY <1>6, <1>7, <3>1, <3>3, <3>4 DEF RowFits
      <3>6. AnswerFits(req[q])'
        BY <1>8, <3>1 DEF AnswerFits
      <3> QED
        BY <3>2, <3>5, <3>6
    <2> QED
      BY <2>1, <2>2
  <1>12. LockExclusive'
    BY <1>9 DEF IInv, LockExclusive, OnlySlot, Holds
  <1>13. EventsOfTaps'
    BY <1>2, <1>3, <1>4, <1>5, <1>6, <1>7, <1>8 DEF IInv, EventsOfTaps
  <1>14. OneOpenShift'
    BY <1>3, <1>4, <1>7 DEF IInv, OneOpenShift, OpenShifts
  <1>15. RecordedOnce'
    BY <1>5, <1>6, <1>8 DEF IInv, RecordedOnce, Recorded, EventOf
  <1>16. ShiftBracketed'
    <2> SUFFICES ASSUME NEW s \in DOMAIN shifts
                 PROVE  Bracketed(s)'
      BY <1>7 DEF ShiftBracketed
    <2>1. Bracketed(s) /\ EventsOfShift(s) \subseteq DOMAIN events
      BY DEF IInv, ShiftBracketed, EventsOfShift
    <2>2. CASE s = t
      <3>1. EventsOfShift(s)' = EventsOfShift(s) \cup {m}
        BY <1>5, <1>8, <2>2 DEF EventsOfShift
      <3>2. /\ events'[m].kind = KindOf(r) /\ KindOf(r) # "CLOCK_IN"
            /\ \A i \in EventsOfShift(s) : events'[i] = events[i] /\ i < m /\ i # m
        BY <1>2, <1>5, <1>8, <2>1
      <3>3. \A i \in EventsOfShift(s) : events[i].kind # "CLOCK_OUT"
        BY <1>3, <2>1, <2>2 DEF Bracketed
      <3>4. shifts'[s].open <=> KindOf(r) # "CLOCK_OUT"
        BY <1>4, <1>7, <2>2
      <3>5. PICK i \in EventsOfShift(s) :
              /\ events[i].kind = "CLOCK_IN"
              /\ \A j \in EventsOfShift(s) \ {i} : i < j /\ events[j].kind # "CLOCK_IN"
        BY <2>1 DEF Bracketed
      <3>6. \A j \in EventsOfShift(s)' : j \in Nat /\ j <= m
        BY <1>1, <1>8, <2>1, <3>1
      <3> QED
        BY <3>1, <3>2, <3>3, <3>4, <3>5, <3>6 DEF Bracketed
    <2>3. CASE s # t
      <3>1. EventsOfShift(s)' = EventsOfShift(s)
        BY <1>5, <1>8, <2>3 DEF EventsOfShift
      <3> QED
        BY <1>7, <1>8, <2>1, <2>3, <3>1 DEF Bracketed
    <2> QED
      BY <2>2, <2>3
  <1> QED
    BY <1>10, <1>11, <1>12, <1>13, <1>14, <1>15, <1>16 DEF IInv

-----------------------------------------------------------------------------
(* Theorems *)

LEMMA NextInv == IInv /\ [Next]_vars => IInv'
  <1> SUFFICES ASSUME IInv, [Next]_vars PROVE IInv'
    OBVIOUS
  <1>1. ASSUME NEW r \in Requests, Arrive(r) PROVE IInv'
    BY <1>1, ArriveInv
  <1>2. ASSUME NEW r \in Requests, Step(r) PROVE IInv'
    BY <1>2, CheckKeyInv, ClockInInv, ClockInRefusedInv, SelectOpenShiftInv,
       LockShiftInv, DecideInv, InsertInv, InsertRefusedInv, RecheckInv DEF Step
  <1>3. ASSUME NEW r \in Requests, WorkerDies(r) PROVE IInv'
    BY <1>3, WorkerDiesInv
  <1>4. CASE UNCHANGED vars
    BY <1>4 DEF vars, IInv, TypeOK, RequestsFit, TapFits, RowFits, AnswerFits,
      LockExclusive, Holds, EventsOfTaps, OneOpenShift, OpenShifts, RecordedOnce,
      ShiftBracketed, Bracketed, EventsOfShift
  <1> QED
    BY <1>1, <1>2, <1>3, <1>4 DEF Next

\* The shifts, the events and the taps under way keep fitting together.
THEOREM Invariance == Spec => []IInv
  BY InitInv, NextInv, PTL DEF Spec

\* Type correctness, for any number of employees, keys and requests.
THEOREM TypeCorrect == Spec => []TypeOK
  BY Invariance, PTL DEF IInv

\* No interleaving of record_punch opens two shifts of one employee.
THEOREM OneOpenShiftHolds == Spec => []OneOpenShift
  BY Invariance, PTL DEF IInv

\* No interleaving, resend or killed worker records a tap twice.
THEOREM RecordedOnceHolds == Spec => []RecordedOnce
  BY Invariance, PTL DEF IInv

\* A shift is opened by its CLOCK_IN and closed by its CLOCK_OUT.
THEOREM ShiftBracketedHolds == Spec => []ShiftBracketed
  BY Invariance, PTL DEF IInv

\* A request is answered with the event of its own tap.
THEOREM AnswerIsTheTapHolds == Spec => []AnswerIsTheTap
  <1>1. IInv => AnswerIsTheTap
    <2> SUFFICES ASSUME IInv, NEW r \in Requests, req[r].reply = "event"
                 PROVE  LET ev == events[req[r].event]
                        IN  /\ req[r].event \in DOMAIN events
                            /\ ev.key = req[r].key
                            /\ ev.shift \in DOMAIN shifts
                            /\ tap[ev.key] = [employee |-> shifts[ev.shift].employee,
                                             kind |-> ev.kind]
      BY DEF AnswerIsTheTap
    <2>1. req[r].event \in DOMAIN events /\ events[req[r].event].key = req[r].key
      BY DEF IInv, RequestsFit, AnswerFits
    <2> DEFINE ev == events[req[r].event]
    <2>2. tap[ev.key] \in Tap
      <3>1. events \in Seq(EventRow) /\ tap \in [Keys -> Tap]
        BY DEF IInv, TypeOK, EventRow
      <3>2. ev \in EventRow
        BY <2>1, <3>1
      <3>3. ev.key \in Keys
        BY <3>2 DEF EventRow
      <3> QED
        BY <3>1, <3>3
    <2>3. /\ ev.shift \in DOMAIN shifts
          /\ tap[ev.key].employee = shifts[ev.shift].employee
          /\ tap[ev.key].kind = ev.kind
      BY <2>1 DEF IInv, EventsOfTaps
    <2>4. tap[ev.key] = [employee |-> shifts[ev.shift].employee, kind |-> ev.kind]
      BY <2>2, <2>3
    <2> QED
      BY <2>1, <2>3, <2>4
  <1> QED
    BY Invariance, <1>1, PTL
-----------------------------------------------------------------------------
(* record_punch implements the punch book *)

OnDuty == {e \in Employees : OpenShifts(e) # {}}
RecordedKeys == {k \in Keys : Recorded(k)}

\* A step that writes no table is a stutter of the book.
LEMMA NoWriteStutters ==
  ASSUME UNCHANGED <<shifts, events, tap>>
  PROVE  UNCHANGED Book!vars
  BY DEF Book!vars, OpenShifts, Recorded, EventOf

LEMMA ClockInRecords ==
  ASSUME IInv, NEW r \in Requests, ClockIn(r)
  PROVE  Book!Record(req[r].key)
  <1> DEFINE n == Len(shifts) + 1
             m == Len(events) + 1
             k == req[r].key
             e == EmployeeOf(r)
             row == [employee |-> e, open |-> TRUE]
             ev == [shift |-> n, kind |-> "CLOCK_IN", at |-> req[r].now, key |-> k]
  <1>1. /\ k \in Keys /\ tap[k].kind = "CLOCK_IN" /\ tap[k].employee = e
        /\ OpenShifts(e) = {} /\ ~Recorded(k)
        /\ shifts' = Append(shifts, row) /\ events' = Append(events, ev)
        /\ UNCHANGED tap
    BY DEF IInv, RequestsFit, TapFits, ClockIn, OpenShiftIndexAllows, KeyIndexAllows,
           EmployeeOf
  <1>2. row \in ShiftRow /\ ev \in EventRow /\ e \in Employees
        /\ shifts \in Seq(ShiftRow) /\ events \in Seq(EventRow)
    BY <1>1 DEF IInv, TypeOK, ShiftRow, EventRow
  <1>3. /\ DOMAIN shifts' = DOMAIN shifts \cup {n}
        /\ n \notin DOMAIN shifts /\ shifts'[n] = row
        /\ \A s \in DOMAIN shifts : shifts'[s] = shifts[s]
    BY <1>1, <1>2, AppendRow
  <1>4. /\ DOMAIN events' = DOMAIN events \cup {m}
        /\ m \notin DOMAIN events /\ events'[m] = ev
        /\ \A i \in DOMAIN events : events'[i] = events[i]
    BY <1>1, <1>2, AppendRow
  <1>5. row.employee = e /\ row.open /\ ev.key = k
    OBVIOUS
  <1> HIDE DEF n, m, k, e, row, ev
  <1>6. OnDuty' = OnDuty \cup {e}
    BY <1>2, <1>3, <1>5 DEF OnDuty, OpenShifts
  <1>7. RecordedKeys' = RecordedKeys \cup {k}
    BY <1>1, <1>4, <1>5 DEF RecordedKeys, Recorded, EventOf
  <1>8. e \notin OnDuty /\ k \notin RecordedKeys
    BY <1>1 DEF OnDuty, RecordedKeys
  <1>9. Book!ClockIn(k)
    BY <1>1, <1>6, <1>8 DEF Book!ClockIn, OnDuty
  <1>10. Book!Record(k)
    BY <1>1, <1>7, <1>8, <1>9 DEF Book!Record, RecordedKeys
  <1> QED
    BY <1>10 DEF k

LEMMA InsertRecords ==
  ASSUME IInv, NEW r \in Requests, Insert(r)
  PROVE  Book!Record(req[r].key)
  <1> DEFINE m == Len(events) + 1
             k == req[r].key
             e == tap[k].employee
  <1>1. /\ shifts \in Seq(ShiftRow) /\ events \in Seq(EventRow)
        /\ req[r].now \in Nat
        /\ \A s \in DOMAIN shifts : s \in Nat /\ shifts[s] \in ShiftRow
    <2>1. /\ shifts \in Seq(ShiftRow) /\ events \in Seq(EventRow)
          /\ req \in [Requests -> Request]
      BY DEF IInv, TypeOK, ShiftRow, EventRow
    <2> QED
      BY <2>1
  <1>2. /\ req[r].pc = "insert" /\ k \in Keys /\ ~Recorded(k)
        /\ tap[k].kind \in PunchKind \ {"CLOCK_IN"} /\ UNCHANGED tap
    BY DEF IInv, RequestsFit, TapFits, Insert, KeyIndexAllows
  <1>3. e \in Employees
    BY <1>2 DEF IInv, TypeOK
  <1>4. PICK t \in DOMAIN shifts :
          t = req[r].shift /\ shifts[t].open /\ shifts[t].employee = e
    BY <1>2 DEF IInv, RequestsFit, RowFits
  <1>5. PICK row \in ShiftRow :
          /\ shifts' = [shifts EXCEPT ![t] = row]
          /\ row.employee = e
          /\ row.open <=> tap[k].kind # "CLOCK_OUT"
    <2>1. AfterPunch(shifts[t], KindOf(r)) \in ShiftRow
      BY <1>1, <1>4 DEF AfterPunch, ShiftRow
    <2> QED
      BY <1>4, <2>1 DEF Insert, AfterPunch, KindOf
  <1>6. PICK ev \in EventRow : events' = Append(events, ev) /\ ev.key = k
    <2> DEFINE x == [shift |-> req[r].shift, kind |-> KindOf(r), at |-> req[r].now,
                     key |-> req[r].key]
    <2>1. x \in EventRow
      BY <1>1, <1>2, <1>4 DEF EventRow, KindOf
    <2>2. events' = Append(events, x)
      BY DEF Insert
    <2> QED
      BY <2>1, <2>2
  <1>7. /\ DOMAIN shifts' = DOMAIN shifts /\ shifts'[t] = row
        /\ \A s \in DOMAIN shifts \ {t} : shifts'[s] = shifts[s]
    BY <1>1, <1>5, UpdateRow
  <1>8. /\ DOMAIN events' = DOMAIN events \cup {m}
        /\ m \notin DOMAIN events /\ events'[m] = ev
        /\ \A i \in DOMAIN events : events'[i] = events[i]
    BY <1>1, <1>6, AppendRow
  <1>9. \A s \in OpenShifts(e) : s = t
    BY <1>3, <1>4 DEF IInv, OneOpenShift, OpenShifts
  <1> HIDE DEF m, k, e
  <1>10. e \in OnDuty /\ k \notin RecordedKeys
    BY <1>2, <1>3, <1>4 DEF OnDuty, OpenShifts, RecordedKeys
  <1>11. RecordedKeys' = RecordedKeys \cup {k}
    BY <1>2, <1>6, <1>8 DEF RecordedKeys, Recorded, EventOf
  <1>12. CASE tap[k].kind = "CLOCK_OUT"
    <2>1. OnDuty' = OnDuty \ {e}
      BY <1>3, <1>4, <1>5, <1>7, <1>9, <1>12 DEF OnDuty, OpenShifts
    <2>2. Book!ClockOut(k)
      BY <1>10, <1>12, <2>1 DEF Book!ClockOut, OnDuty, e
    <2>3. Book!Record(k)
      BY <1>2, <1>10, <1>11, <2>2 DEF Book!Record, RecordedKeys
    <2> QED
      BY <2>3 DEF k
  <1>13. CASE tap[k].kind # "CLOCK_OUT"
    <2>1. OnDuty' = OnDuty
      BY <1>3, <1>4, <1>5, <1>7, <1>13 DEF OnDuty, OpenShifts
    <2>2. Book!Break(k)
      BY <1>2, <1>10, <1>13, <2>1 DEF Book!Break, OnDuty, e
    <2>3. Book!Record(k)
      BY <1>2, <1>10, <1>11, <2>2 DEF Book!Record, RecordedKeys
    <2> QED
      BY <2>3 DEF k
  <1> QED
    BY <1>12, <1>13

\* record_punch implements the punch book: every step records one new tap,
\* legally for an employee on or off duty, or changes nothing of the book.
THEOREM PunchesImplementBook == Spec => ImplementsBook
  <1>1. Init => Book!Init
    BY DEF Init, Book!Init, OpenShifts, Recorded, EventOf, Book!PostedKind
  <1>2. IInv /\ [Next]_vars => [Book!Next]_Book!vars
    <2> SUFFICES ASSUME IInv, [Next]_vars PROVE [Book!Next]_Book!vars
      OBVIOUS
    <2>1. ASSUME NEW r \in Requests, ClockIn(r) PROVE Book!Next
      <3>1. req[r].key \in Keys
        BY <2>1 DEF IInv, RequestsFit, TapFits, ClockIn
      <3> QED
        BY <2>1, <3>1, ClockInRecords DEF Book!Next
    <2>2. ASSUME NEW r \in Requests, Insert(r) PROVE Book!Next
      <3>1. req[r].key \in Keys
        BY <2>2 DEF IInv, RequestsFit, TapFits, Insert
      <3> QED
        BY <2>2, <3>1, InsertRecords DEF Book!Next
    <2>3. ASSUME NEW r \in Requests, Arrive(r) \/ WorkerDies(r)
          PROVE  UNCHANGED <<shifts, events, tap>>
      BY <2>3 DEF Arrive, WorkerDies
    <2>4. ASSUME NEW r \in Requests, Step(r), ~ClockIn(r), ~Insert(r)
          PROVE  UNCHANGED <<shifts, events, tap>>
      BY <2>4 DEF Step, CheckKey, ClockInRefused, SelectOpenShift, LockShift, Decide,
                  InsertRefused, Recheck
    <2>5. CASE UNCHANGED vars
      BY <2>5, NoWriteStutters DEF vars
    <2> QED
      BY <2>1, <2>2, <2>3, <2>4, <2>5, NoWriteStutters DEF Next
  <1> QED
    BY <1>1, <1>2, Invariance, PTL DEF Spec, ImplementsBook, Book!Spec

-----------------------------------------------------------------------------
(* Refusals: what a request is refused with was right at one of its instants *)

\* What a request may still be refused with has been due: the shift it waits
\* for is open, or was closed after it had been found; the error it has settled
\* on was due, unless its tap has been recorded, which its last look-up finds.
Excused(r) ==
  /\ req[r].pc = "lock" =>
       shifts[req[r].shift].open \/ Recorded(req[r].key) \/ "NO_OPEN_SHIFT" \in due[r]
  /\ req[r].pc = "recheck" => Recorded(req[r].key) \/ req[r].error \in due[r]
  /\ req[r].reply \in ErrorCode => req[r].pc = "replied" /\ req[r].reply \in due[r]

AInv == IInv /\ \A r \in Requests : Excused(r)

LEMMA SameState ==
  ASSUME UNCHANGED events
  PROVE  \A s : ShiftState(s)' = ShiftState(s)
  BY DEF ShiftState, IsLast, Later, EventsOfShift

\* What is due at the instant of a step that writes no table.
LEMMA DueNow ==
  ASSUME UNCHANGED <<shifts, events, tap>>, NEW r \in Requests,
         req'[r].key = req[r].key, ~Recorded(req[r].key)
  PROVE  /\ \A s \in OpenShifts(EmployeeOf(r)) :
              /\ KindOf(r) = "CLOCK_IN" => "SHIFT_ALREADY_OPEN" \in Refusals(req[r].key)'
              /\ (KindOf(r) # "CLOCK_IN" /\ KindOf(r) \notin AllowedNext[ShiftState(s)])
                   => "ILLEGAL_TRANSITION" \in Refusals(req[r].key)'
         /\ (OpenShifts(EmployeeOf(r)) = {} /\ KindOf(r) # "CLOCK_IN")
              => "NO_OPEN_SHIFT" \in Refusals(req[r].key)'
  <1>1. /\ OpenShifts(tap[req[r].key].employee)' = OpenShifts(EmployeeOf(r))
        /\ Recorded(req[r].key)' = Recorded(req[r].key)
        /\ tap'[req'[r].key].kind = KindOf(r)
    BY DEF OpenShifts, Recorded, EventOf, EmployeeOf, KindOf
  <1> QED
    BY <1>1, SameState DEF Refusals

LEMMA Remembered ==
  ASSUME Remember, NEW r \in Requests
  PROVE  /\ req'[r].pc = "replied" => due'[r] = due[r] \cap {req'[r].reply}
         /\ req'[r].pc \in {"lock", "recheck"} =>
              due'[r] = due[r] \cup Refusals(req[r].key)'
  BY DEF Remember

\* Which steps write: the others leave the tables alone.
LEMMA Writes ==
  ASSUME Next
  PROVE  \/ UNCHANGED <<shifts, events, tap>>
         \/ \E r \in Requests : ClockIn(r) \/ Insert(r)
  BY DEF Next, Arrive, WorkerDies, Step, CheckKey, ClockInRefused, SelectOpenShift,
     LockShift, Decide, InsertRefused, Recheck

\* Appending an event loses none.
LEMMA StaysRecorded ==
  ASSUME IInv, Next, NEW k, Recorded(k)
  PROVE  Recorded(k)'
  <1>1. CASE UNCHANGED <<shifts, events, tap>>
    BY <1>1 DEF Recorded, EventOf
  <1>2. ASSUME NEW r \in Requests, ClockIn(r) \/ Insert(r) PROVE Recorded(k)'
    <2>1. /\ req[r].key \in Keys /\ req[r].shift \in Nat /\ req[r].now \in Nat
          /\ req[r].pc = "insert" => KindOf(r) \in PunchKind
      BY <1>2 DEF IInv, TypeOK, RequestsFit, TapFits, KindOf, ClockIn, Insert
    <2>4. shifts \in Seq(ShiftRow) /\ events \in Seq(EventRow) /\ Len(shifts) + 1 \in Nat
      <3>1. shifts \in Seq(ShiftRow) /\ events \in Seq(EventRow)
        BY DEF IInv, TypeOK, ShiftRow, EventRow
      <3> QED
        BY <3>1
    <2>2. PICK ev \in EventRow : events' = Append(events, ev)
      <3>1. CASE ClockIn(r)
        <4>1. [shift |-> Len(shifts) + 1, kind |-> "CLOCK_IN", at |-> req[r].now,
               key |-> req[r].key] \in EventRow
          BY <2>1, <2>4 DEF EventRow
        <4> QED
          BY <3>1, <4>1 DEF ClockIn
      <3>2. CASE Insert(r)
        <4>1. [shift |-> req[r].shift, kind |-> KindOf(r), at |-> req[r].now,
               key |-> req[r].key] \in EventRow
          BY <2>1, <3>2 DEF EventRow, Insert
        <4> QED
          BY <3>2, <4>1 DEF Insert
      <3> QED
        BY <1>2, <3>1, <3>2
    <2>3. /\ DOMAIN events' = DOMAIN events \cup {Len(events) + 1}
          /\ \A i \in DOMAIN events : events'[i] = events[i]
      BY <2>2, <2>4, AppendRow
    <2> QED
      BY <2>3 DEF Recorded, EventOf
  <1> QED
    BY <1>1, <1>2, Writes

\* Whose shift is closed has no other one.
LEMMA ClosedIsOffDuty ==
  ASSUME IInv, Next, NEW s \in DOMAIN shifts, shifts[s].open,
         NEW e, shifts[s].employee = e
  PROVE  \/ shifts'[s].open
         \/ OpenShifts(e)' = {}
  <1>1. CASE UNCHANGED <<shifts, events, tap>>
    BY <1>1
  <1>2. shifts \in Seq(ShiftRow) /\ \A t \in DOMAIN shifts : shifts[t] \in ShiftRow
    <2>1. shifts \in Seq(ShiftRow)
      BY DEF IInv, TypeOK, ShiftRow
    <2> QED
      BY <2>1
  <1>3. ASSUME NEW r \in Requests, ClockIn(r) PROVE shifts'[s].open
    <2>1. EmployeeOf(r) \in Employees
      BY <1>3 DEF IInv, TypeOK, RequestsFit, TapFits, EmployeeOf, ClockIn
    <2>2. [employee |-> EmployeeOf(r), open |-> TRUE] \in ShiftRow
      BY <2>1 DEF ShiftRow
    <2> QED
      BY <1>2, <1>3, <2>2, AppendRow DEF ClockIn
  <1>4. ASSUME NEW r \in Requests, Insert(r), ~shifts'[s].open
        PROVE  OpenShifts(e)' = {}
    <2> DEFINE t == req[r].shift
    <2>1. t \in DOMAIN shifts
      BY <1>4 DEF IInv, RequestsFit, RowFits, Insert
    <2>2. AfterPunch(shifts[t], KindOf(r)) \in ShiftRow
      BY <1>2, <2>1 DEF AfterPunch, ShiftRow
    <2>3. /\ DOMAIN shifts' = DOMAIN shifts
          /\ \A u \in DOMAIN shifts \ {t} : shifts'[u] = shifts[u]
      BY <1>2, <1>4, <2>1, <2>2, UpdateRow DEF Insert
    <2>4. s = t /\ shifts'[s] = AfterPunch(shifts[s], KindOf(r))
      BY <1>2, <1>4, <2>1, <2>2, <2>3, UpdateRow DEF Insert
    <2>5. e \in Employees
      BY <1>2 DEF ShiftRow
    <2> HIDE DEF t
    <2>6. \A u \in DOMAIN shifts \ {s} : ~(shifts[u].employee = e /\ shifts[u].open)
      BY <2>5 DEF IInv, OneOpenShift, OpenShifts
    <2> QED
      BY <1>4, <2>3, <2>4, <2>6 DEF OpenShifts
  <1> QED
    BY <1>1, <1>3, <1>4, Writes

\* A request that does not move: the tables change under it.
LEMMA OthersStayExcused ==
  ASSUME AInv, Next, Remember, NEW r \in Requests, req'[r] = req[r]
  PROVE  Excused(r)'
  <1> USE DEF AInv
  <1> DEFINE k == req[r].key
             s == req[r].shift
  <1>1. Recorded(k) => Recorded(req[r].key)'
    <2>1. Recorded(k) => Recorded(k)'
      BY StaysRecorded
    <2> QED
      BY <2>1 DEF Recorded, EventOf
  <1>2. CASE req[r].pc = "lock"
    <2>1. /\ s \in DOMAIN shifts /\ shifts[s].employee = EmployeeOf(r)
          /\ KindOf(r) # "CLOCK_IN"
      BY <1>2 DEF IInv, RequestsFit, RowFits, TapFits, EmployeeOf, KindOf
    <2>2. due'[r] = due[r] \cup Refusals(req[r].key)'
      BY <1>2, Remembered
    <2>3. CASE shifts[s].open /\ ~shifts'[s].open
      <3>1. \A e : e = tap[k].employee => OpenShifts(e)' = {}
        BY <2>1, <2>3, ClosedIsOffDuty DEF EmployeeOf
      <3>2. UNCHANGED tap
        BY DEF Next, Arrive, WorkerDies, Step, CheckKey, ClockIn, ClockInRefused,
          SelectOpenShift, LockShift, Decide, Insert, InsertRefused, Recheck
      <3>3. /\ OpenShifts(tap[req[r].key].employee)' = {}
            /\ tap'[req'[r].key].kind # "CLOCK_IN"
        BY <2>1, <3>1, <3>2 DEF OpenShifts, KindOf
      <3>4. "NO_OPEN_SHIFT" \in Refusals(req[r].key)' \/ Recorded(req[r].key)'
        BY <3>3 DEF Refusals
      <3> QED
        BY <1>2, <2>2, <3>4 DEF Excused, IInv
    <2> QED
      BY <1>1, <1>2, <2>2, <2>3 DEF Excused
  <1>3. CASE req[r].pc = "recheck"
    BY <1>1, <1>3, Remembered DEF Excused
  <1>4. CASE req[r].pc \notin {"lock", "recheck"}
    BY <1>4, Remembered DEF Excused
  <1> QED
    BY <1>2, <1>3, <1>4

\* The request that moves.
LEMMA MoverIsExcused ==
  ASSUME AInv, NEW r \in Requests, Arrive(r) \/ Step(r) \/ WorkerDies(r), Remember
  PROVE  Excused(r)'
  <1> USE DEF AInv
  <1>1. ASSUME req'[r].pc \notin {"lock", "recheck"}, req'[r].reply \notin ErrorCode
        PROVE  Excused(r)'
    BY <1>1 DEF Excused
  <1>2. CASE Arrive(r) \/ WorkerDies(r)
    BY <1>1, <1>2 DEF Arrive, WorkerDies, RunningRequest, IdleRequest, IInv, TypeOK
  <1>3. ASSUME NEW code \in ErrorCode, NEW s \in Nat, req[r].pc # "idle",
               UNCHANGED <<shifts, events, tap>>, Continue(r, "recheck", s, code),
               Recorded(req[r].key) \/ code \in due[r] \cup Refusals(req[r].key)'
        PROVE  Excused(r)'
    <2>1. /\ req'[r].pc = "recheck" /\ req'[r].key = req[r].key
          /\ req'[r].error = code /\ req'[r].reply = "none"
      BY <1>3, Continued
    <2>2. Recorded(req[r].key)' <=> Recorded(req[r].key)
      BY <1>3, <2>1 DEF Recorded, EventOf
    <2> QED
      BY <1>3, <2>1, <2>2, Remembered DEF Excused
  <1>4. CASE CheckKey(r)
    <2>1. req[r].pc = "check" /\ req[r].shift \in Nat
      BY <1>4 DEF CheckKey, IInv, TypeOK
    <2> QED
      BY <1>1, <1>4, <2>1, AnsweredFound, Continued DEF CheckKey, Goto
  <1>5. CASE ClockIn(r) \/ Insert(r) \/ InsertRefused(r)
    <2>1. req[r].pc # "idle" /\ Len(events) + 1 \in Nat
      BY <1>5 DEF ClockIn, Insert, InsertRefused, IInv, TypeOK
    <2> QED
      BY <1>1, <1>5, <2>1, Answered DEF ClockIn, Insert, InsertRefused
  <1>6. CASE ClockInRefused(r)
    <2>1. /\ req[r].pc = "clock_in" /\ req[r].shift \in Nat /\ KindOf(r) = "CLOCK_IN"
          /\ UNCHANGED <<shifts, events, tap>>
          /\ Continue(r, "recheck", req[r].shift, "SHIFT_ALREADY_OPEN")
          /\ OpenShifts(EmployeeOf(r)) # {} \/ Recorded(req[r].key)
      BY <1>6 DEF ClockInRefused, Fail, OpenShiftIndexAllows, KeyIndexAllows, IInv, TypeOK,
        RequestsFit, TapFits, KindOf
    <2>2. req'[r].key = req[r].key
      BY <2>1, Continued
    <2> QED
      BY <1>3, <2>1, <2>2, DueNow
  <1>7. CASE SelectOpenShift(r)
    <2>1. /\ req[r].pc = "select" /\ req[r].shift \in Nat /\ KindOf(r) # "CLOCK_IN"
          /\ UNCHANGED <<shifts, events, tap>>
      BY <1>7 DEF SelectOpenShift, IInv, TypeOK, RequestsFit, TapFits, KindOf
    <2>2. ASSUME NEW s \in OpenShifts(EmployeeOf(r)), Continue(r, "lock", s, "none")
          PROVE  Excused(r)'
      <3>1. s \in Nat /\ shifts[s].open
        BY DEF OpenShifts, IInv, TypeOK
      <3>2. /\ req'[r].pc = "lock" /\ req'[r].shift = s /\ req'[r].reply = "none"
        BY <2>1, <2>2, <3>1, Continued
      <3> QED
        BY <2>1, <3>1, <3>2 DEF Excused
    <2>3. CASE OpenShifts(EmployeeOf(r)) = {} /\ Fail(r, "NO_OPEN_SHIFT")
      <3>1. req'[r].key = req[r].key
        BY <2>1, <2>3, Continued DEF Fail
      <3> QED
        BY <1>3, <2>1, <2>3, <3>1, DueNow DEF Fail
    <2> QED
      BY <1>7, <2>2, <2>3 DEF SelectOpenShift
  <1>8. CASE LockShift(r)
    <2>1. /\ req[r].pc = "lock" /\ req[r].shift \in Nat
          /\ UNCHANGED <<shifts, events, tap>>
      BY <1>8 DEF LockShift, IInv, TypeOK
    <2>2. CASE shifts[req[r].shift].open /\ Goto(r, "decide")
      BY <1>1, <2>1, <2>2, Continued DEF Goto
    <2>3. CASE ~shifts[req[r].shift].open /\ Continue(r, "recheck", 0, "NO_OPEN_SHIFT")
      BY <1>3, <2>1, <2>3 DEF Excused
    <2> QED
      BY <1>8, <2>2, <2>3 DEF LockShift
  <1>9. CASE Decide(r)
    <2>1. /\ req[r].pc = "decide" /\ req[r].shift \in Nat /\ KindOf(r) # "CLOCK_IN"
          /\ req[r].shift \in OpenShifts(EmployeeOf(r))
          /\ UNCHANGED <<shifts, events, tap>>
      BY <1>9 DEF Decide, IInv, TypeOK, RequestsFit, TapFits, RowFits, KindOf, EmployeeOf,
        OpenShifts
    <2>2. CASE Goto(r, "insert")
      BY <1>1, <2>1, <2>2, Continued DEF Goto
    <2>3. CASE /\ KindOf(r) \notin AllowedNext[ShiftState(req[r].shift)]
               /\ Fail(r, "ILLEGAL_TRANSITION")
      <3>1. req'[r].key = req[r].key
        BY <2>1, <2>3, Continued DEF Fail
      <3> QED
        BY <1>3, <2>1, <2>3, <3>1, DueNow DEF Fail
    <2> QED
      BY <1>9, <2>2, <2>3 DEF Decide
  <1>10. CASE Recheck(r)
    <2>1. req[r].pc = "recheck" /\ req[r].error \in ErrorCode
      BY <1>10 DEF Recheck, IInv, RequestsFit, TapFits
    <2>2. CASE AnswerOneOf(r, EventOf(req[r].key))
      BY <1>1, <2>1, <2>2, AnsweredFound
    <2>3. CASE EventOf(req[r].key) = {} /\ Answer(r, req[r].error, 0)
      <3>1. req'[r].pc = "replied" /\ req'[r].reply = req[r].error
        BY <2>1, <2>3, Answered
      <3> QED
        BY <2>1, <2>3, <3>1, Remembered DEF Excused, Recorded
    <2> QED
      BY <1>10, <2>2, <2>3 DEF Recheck, Existing
  <1> QED
    BY <1>2, <1>4, <1>5, <1>6, <1>7, <1>8, <1>9, <1>10 DEF Step

\* A step leaves the slots of the other requests alone.
LEMMA OneMoves ==
  ASSUME IInv, NEW r \in Requests, Arrive(r) \/ Step(r) \/ WorkerDies(r),
         NEW q \in Requests \ {r}
  PROVE  req'[q] = req[q]
  BY DEF Arrive, WorkerDies, Step, CheckKey, ClockIn, ClockInRefused, SelectOpenShift,
     LockShift, Decide, Insert, InsertRefused, Recheck, Goto, Fail, Continue, Answer,
     AnswerOneOf, IInv, TypeOK

\* A refused request was told what was true, while it ran, at an instant when its
\* tap was not recorded, however the look-ups of several requests interleave.
THEOREM RefusedAsDueHolds == AnswersSpec => []RefusedAsDue
  <1>1. AnswersInit => AInv
    <2> SUFFICES ASSUME AnswersInit PROVE AInv
      OBVIOUS
    <2>1. \A r \in Requests : req[r] = IdleRequest
      BY DEF AnswersInit, Init
    <2> QED
      BY <2>1, InitInv DEF AInv, AnswersInit, Excused, IdleRequest
  <1>2. AInv /\ [AnswersNext]_allVars => AInv'
    <2> SUFFICES ASSUME AInv, [AnswersNext]_allVars PROVE AInv'
      OBVIOUS
    <2>1. CASE UNCHANGED allVars
      <3>1. IInv'
        BY <2>1, NextInv DEF allVars, vars, AInv
      <3>2. \A r \in Requests : Excused(r)'
        BY <2>1 DEF allVars, AInv, Excused, Recorded, EventOf
      <3> QED
        BY <3>1, <3>2 DEF AInv
    <2>2. ASSUME NEW r \in Requests, Arrive(r) \/ Step(r) \/ WorkerDies(r), Remember
          PROVE  AInv'
      <3>1. Next
        BY <2>2 DEF Next
      <3>2. IInv'
        BY <3>1, NextInv DEF AInv
      <3>3. \A q \in Requests : Excused(q)'
        BY <2>2, <3>1, MoverIsExcused, OthersStayExcused, OneMoves DEF AInv
      <3> QED
        BY <3>2, <3>3 DEF AInv
    <2> QED
      BY <2>1, <2>2 DEF AnswersNext
  <1>3. AInv => RefusedAsDue
    BY DEF AInv, Excused, RefusedAsDue
  <1> QED
    BY <1>1, <1>2, <1>3, PTL DEF AnswersSpec

-----------------------------------------------------------------------------
(* The order of the punches: record_punch keeps the sequence of a shift     *)
(* legal as long as its punches are recorded in the order of their times.   *)

HasLast(s) == \E i \in EventsOfShift(s) : IsLast(i, s)
Sorted(s) == HasLast(s) /\ (InTimeOrder(s) => LegalSequence(s))

\* What Decide found still stands when the event is inserted.
Decided(r) ==
  req[r].pc = "insert" =>
    \E i \in EventsOfShift(req[r].shift) :
      /\ IsLast(i, req[r].shift)
      /\ tap[req[r].key].kind \in AllowedNext[StateAfter(events[i].kind)]

InOrder == /\ \A s \in DOMAIN shifts : Sorted(s)
           /\ \A r \in Requests : Decided(r)

OInv == IInv /\ InOrder

-----------------------------------------------------------------------------
(* Order of the events of a shift *)

LEMMA EventTypes ==
  ASSUME IInv
  PROVE  \A i \in DOMAIN events : /\ i \in Nat /\ events[i] \in EventRow
                                  /\ events[i].at \in Nat
  <1>1. events \in Seq(EventRow)
    BY DEF IInv, TypeOK, EventRow
  <1>2. \A i \in DOMAIN events : i \in Nat /\ events[i] \in EventRow
    BY <1>1
  <1> QED
    BY <1>2 DEF EventRow

LEMMA LastIsUnique ==
  ASSUME IInv, NEW s, NEW i \in EventsOfShift(s), NEW j \in EventsOfShift(s),
         IsLast(i, s), IsLast(j, s)
  PROVE  i = j
  <1> SUFFICES ASSUME i # j PROVE FALSE
    OBVIOUS
  <1>1. Later(i, j) /\ Later(j, i)
    BY DEF IsLast
  <1>2. i \in Nat /\ j \in Nat /\ events[i].at \in Nat /\ events[j].at \in Nat
    BY EventTypes DEF EventsOfShift
  <1> QED
    BY <1>1, <1>2 DEF Later

\* _state_of_open_shift is the state after the shift's last event.
LEMMA StateOfLast ==
  ASSUME IInv, NEW s, NEW i \in EventsOfShift(s), IsLast(i, s)
  PROVE  ShiftState(s) = StateAfter(events[i].kind)
  <1> DEFINE c == CHOOSE j \in EventsOfShift(s) : IsLast(j, s)
  <1>1. c \in EventsOfShift(s) /\ IsLast(c, s)
    OBVIOUS
  <1>2. c = i
    BY <1>1, LastIsUnique
  <1> QED
    BY <1>2 DEF ShiftState

\* A shift that gains no event keeps its order.
LEMMA Untouched ==
  ASSUME NEW s, EventsOfShift(s)' = EventsOfShift(s),
         \A i \in DOMAIN events : events'[i] = events[i]
  PROVE  /\ Sorted(s) => Sorted(s)'
         /\ \A i \in EventsOfShift(s) : IsLast(i, s) => IsLast(i, s)'
  <1>1. \A i, j \in EventsOfShift(s) : Later(i, j)' <=> Later(i, j)
    BY DEF EventsOfShift, Later
  <1>2. \A i \in EventsOfShift(s) : events'[i] = events[i]
    BY DEF EventsOfShift
  <1>3. \A i \in EventsOfShift(s) : IsLast(i, s) => IsLast(i, s)'
    BY <1>1 DEF IsLast
  <1>4. InTimeOrder(s)' => InTimeOrder(s)
    BY <1>2 DEF InTimeOrder
  <1>5. LegalSequence(s) => LegalSequence(s)'
    BY <1>1, <1>2 DEF LegalSequence
  <1> QED
    BY <1>3, <1>4, <1>5 DEF Sorted, HasLast

-----------------------------------------------------------------------------
(* Steps *)

\* A step that writes no table, and moves no request to "insert".
LEMMA NoWriteKeepsOrder ==
  ASSUME OInv, UNCHANGED <<shifts, events, tap>>,
         \A r \in Requests : req'[r].pc = "insert" => req'[r] = req[r] \/ Decided(r)'
  PROVE  InOrder'
  <1>1. \A s : EventsOfShift(s)' = EventsOfShift(s)
    BY DEF EventsOfShift
  <1>2. \A s \in DOMAIN shifts' : Sorted(s)'
    BY <1>1, Untouched DEF OInv, InOrder
  <1>3. ASSUME NEW r \in Requests PROVE Decided(r)'
    <2>1. CASE req'[r].pc = "insert" /\ req'[r] = req[r]
      <3>1. PICK i \in EventsOfShift(req[r].shift) :
              /\ IsLast(i, req[r].shift)
              /\ tap[req[r].key].kind \in AllowedNext[StateAfter(events[i].kind)]
        BY <2>1 DEF OInv, InOrder, Decided
      <3>2. i \in EventsOfShift(req[r].shift)' /\ IsLast(i, req[r].shift)'
        BY <1>1, <2>1, <3>1 DEF IsLast, Later, EventsOfShift
      <3> QED
        BY <2>1, <3>1, <3>2 DEF Decided
    <2>2. CASE req'[r].pc # "insert"
      BY <2>2 DEF Decided
    <2> QED
      BY <2>1, <2>2
  <1> QED
    BY <1>2, <1>3 DEF InOrder

LEMMA DecideDecides ==
  ASSUME OInv, NEW r \in Requests, Decide(r), req'[r].pc = "insert"
  PROVE  Decided(r)'
  <1>1. /\ req[r].pc = "decide" /\ UNCHANGED <<shifts, events, tap>>
        /\ req[r].shift \in DOMAIN shifts /\ req[r].shift \in Nat
    BY DEF Decide, OInv, InOrder, IInv, TypeOK, RequestsFit, RowFits
  <1>2. KindOf(r) \in AllowedNext[ShiftState(req[r].shift)] /\ Goto(r, "insert")
    <2>1. ~Fail(r, "ILLEGAL_TRANSITION")
      BY <1>1, Continued DEF Fail, OInv, InOrder
    <2> QED
      BY <2>1 DEF Decide
  <1>3. req'[r].key = req[r].key /\ req'[r].shift = req[r].shift
    BY <1>1, <1>2, Continued DEF Goto, OInv, InOrder
  <1>4. PICK i \in EventsOfShift(req[r].shift) : IsLast(i, req[r].shift)
    BY <1>1 DEF OInv, InOrder, Sorted, HasLast
  <1>5. tap[req[r].key].kind \in AllowedNext[StateAfter(events[i].kind)]
    BY <1>2, <1>4, StateOfLast DEF KindOf, OInv, InOrder
  <1>6. i \in EventsOfShift(req[r].shift)' /\ IsLast(i, req[r].shift)'
    BY <1>1, <1>3, <1>4 DEF IsLast, Later, EventsOfShift
  <1> QED
    BY <1>1, <1>3, <1>5, <1>6 DEF Decided

\* The first event of a new shift.
LEMMA ClockInKeepsOrder ==
  ASSUME OInv, NEW r \in Requests, ClockIn(r)
  PROVE  InOrder'
  <1> DEFINE n == Len(shifts) + 1
             m == Len(events) + 1
  <1>1. PICK row \in ShiftRow, ev \in EventRow :
          /\ shifts' = Append(shifts, row) /\ events' = Append(events, ev)
          /\ ev.shift = n /\ ev.kind = "CLOCK_IN"
          /\ Answer(r, "event", m) /\ UNCHANGED tap /\ req[r].pc = "clock_in"
    <2> DEFINE row == [employee |-> EmployeeOf(r), open |-> TRUE]
               ev == [shift |-> n, kind |-> "CLOCK_IN", at |-> req[r].now,
                      key |-> req[r].key]
    <2>1. req[r].key \in Keys
      BY DEF ClockIn, OInv, InOrder, IInv, RequestsFit, TapFits
    <2>2. row \in ShiftRow /\ ev \in EventRow
      BY <2>1 DEF OInv, InOrder, IInv, TypeOK, ShiftRow, EventRow, EmployeeOf
    <2> QED
      BY <2>2 DEF ClockIn
  <1>2. /\ shifts \in Seq(ShiftRow) /\ events \in Seq(EventRow) /\ m \in Nat
    <2>1. shifts \in Seq(ShiftRow) /\ events \in Seq(EventRow)
      BY DEF OInv, InOrder, IInv, TypeOK, ShiftRow, EventRow
    <2> QED
      BY <2>1
  <1>3. DOMAIN shifts' = DOMAIN shifts \cup {n} /\ n \notin DOMAIN shifts
    BY <1>1, <1>2, AppendRow
  <1>4. /\ DOMAIN events' = DOMAIN events \cup {m}
        /\ m \notin DOMAIN events /\ events'[m] = ev
        /\ \A i \in DOMAIN events : events'[i] = events[i]
    BY <1>1, <1>2, AppendRow
  <1>5. OnlySlot(r) /\ req'[r].pc = "replied"
    BY <1>1, <1>2, Answered DEF OInv, InOrder
  <1> HIDE DEF n, m
  <1>6. \A i \in DOMAIN events : events[i].shift \in DOMAIN shifts
    BY DEF OInv, InOrder, IInv, EventsOfTaps
  <1>7. \A s \in DOMAIN shifts : EventsOfShift(s)' = EventsOfShift(s)
    BY <1>1, <1>3, <1>4 DEF EventsOfShift
  <1>8. ASSUME NEW s \in DOMAIN shifts' PROVE Sorted(s)'
    <2>1. CASE s = n
      <3>1. EventsOfShift(s)' = {m} /\ events'[m].kind = "CLOCK_IN"
        BY <1>1, <1>3, <1>4, <1>6, <2>1 DEF EventsOfShift
      <3>2. HasLast(s)'
        BY <3>1 DEF HasLast, IsLast
      <3>3. LegalSequence(s)'
        BY <3>1 DEF LegalSequence
      <3> QED
        BY <3>2, <3>3 DEF Sorted
    <2>2. CASE s \in DOMAIN shifts
      BY <1>4, <1>7, <2>2, Untouched DEF OInv, InOrder
    <2> QED
      BY <1>3, <2>1, <2>2
  <1>9. ASSUME NEW q \in Requests PROVE Decided(q)'
    <2> SUFFICES ASSUME q # r, req'[q].pc = "insert" PROVE Decided(q)'
      BY <1>5 DEF Decided
    <2> DEFINE t == req[q].shift
    <2>1. req'[q] = req[q] /\ req[q].pc = "insert" /\ t \in DOMAIN shifts
      BY <1>5 DEF OnlySlot, OInv, InOrder, IInv, RequestsFit, RowFits
    <2>2. PICK i \in EventsOfShift(t) :
            /\ IsLast(i, t)
            /\ tap[req[q].key].kind \in AllowedNext[StateAfter(events[i].kind)]
      BY <2>1 DEF OInv, InOrder, Decided
    <2>3. i \in EventsOfShift(t)' /\ events'[i] = events[i]
      BY <1>4, <1>7, <2>1, <2>2 DEF EventsOfShift
    <2>4. \A p \in EventsOfShift(t) : IsLast(p, t) => p \in EventsOfShift(t)' /\ events'[p] = events[p]
      BY <1>4, <1>7, <2>1 DEF EventsOfShift
    <2>5. \A p, u \in EventsOfShift(t) : Later(p, u)' <=> Later(p, u)
      BY <1>4 DEF EventsOfShift, Later
    <2>6. /\ i \in EventsOfShift(req[q].shift)'
          /\ IsLast(i, req[q].shift)'
      BY <1>7, <2>1, <2>2, <2>3, <2>5 DEF IsLast
    <2> QED
      BY <1>1, <2>1, <2>2, <2>3, <2>6 DEF Decided
  <1> QED
    BY <1>8, <1>9 DEF InOrder

\* A further event of shift t, legal after its last one.  If its timestamp is
\* not below the others it becomes the last; if it is, the shift is no longer
\* in time order.
LEMMA NewEventKeepsOrder ==
  ASSUME NEW t, NEW m \in Nat, NEW l \in EventsOfShift(t),
         \A i \in DOMAIN events' : events'[i].at \in Nat,
         DOMAIN events' = DOMAIN events \cup {m},
         \A i \in DOMAIN events : i \in Nat /\ i < m /\ events'[i] = events[i],
         events'[m].shift = t,
         Sorted(t), IsLast(l, t),
         events'[m].kind \in AllowedNext[StateAfter(events[l].kind)]
  PROVE  Sorted(t)'
  <1> DEFINE E == EventsOfShift(t)
  <1>1. EventsOfShift(t)' = E \cup {m} /\ E \subseteq DOMAIN events
    BY DEF EventsOfShift
  <1>2. /\ \A i \in E \cup {m} : events'[i].at \in Nat
        /\ \A i \in E : i \in Nat /\ i < m /\ events'[i] = events[i]
    BY <1>1
  <1> HIDE DEF E
  <1>3. \A i, j \in E : Later(i, j)' <=> Later(i, j)
    BY <1>2 DEF Later
  <1>4. \A j \in E : events'[j].at <= events'[l].at /\ ~Later(j, l)'
    <2> TAKE j \in E
    <2>1. l \in E
      BY DEF E
    <2>2. CASE j = l
      BY <1>2, <2>1, <2>2 DEF Later
    <2>3. CASE j # l
      <3>1. Later(l, j)'
        BY <1>3, <2>1, <2>3 DEF IsLast, E
      <3> QED
        BY <1>2, <2>1, <3>1 DEF Later
    <2> QED
      BY <2>2, <2>3
  <1>5. l \in E
    BY DEF E
  <1>6. HasLast(t)'
    <2>1. CASE events'[m].at >= events'[l].at
      <3>1. \A j \in E : Later(m, j)'
        BY <1>2, <1>4, <1>5, <2>1 DEF Later
      <3>2. IsLast(m, t)'
        BY <1>1, <3>1 DEF IsLast
      <3> QED
        BY <1>1, <3>2 DEF HasLast
    <2>2. CASE events'[m].at < events'[l].at
      <3>1. Later(l, m)'
        BY <1>2, <1>5, <2>2 DEF Later
      <3>2. \A j \in E \ {l} : Later(l, j)'
        BY <1>3, <1>5 DEF IsLast, E
      <3>3. IsLast(l, t)'
        BY <1>1, <1>5, <3>1, <3>2 DEF IsLast
      <3> QED
        BY <1>1, <1>5, <3>3 DEF HasLast
    <2> QED
      BY <1>2, <1>5, <2>1, <2>2
  <1>7. ASSUME InTimeOrder(t)' PROVE LegalSequence(t)'
    <2>1. \A j \in E : Later(m, j)' /\ ~Later(j, m)'
      <3>1. \A j \in E : events'[j].at <= events'[m].at
        BY <1>1, <1>2, <1>7 DEF InTimeOrder
      <3> QED
        BY <1>2, <3>1 DEF Later
    <2>2. LegalSequence(t)
      <3>1. InTimeOrder(t)
        BY <1>1, <1>2, <1>7 DEF InTimeOrder, E
      <3> QED
        BY <3>1 DEF Sorted
    <2>3. ~Later(m, m)'
      BY <1>2 DEF Later
    <2> SUFFICES ASSUME NEW i \in E \cup {m}
                 PROVE  \/ /\ events'[i].kind = "CLOCK_IN"
                           /\ \A j \in (E \cup {m}) \ {i} : Later(j, i)'
                        \/ \E j \in E \cup {m} :
                             /\ Later(i, j)'
                             /\ \A p \in E \cup {m} : ~(Later(i, p)' /\ Later(p, j)')
                             /\ events'[i].kind \in AllowedNext[StateAfter(events'[j].kind)]
      BY <1>1 DEF LegalSequence
    <2>4. CASE i = m
      BY <1>2, <1>4, <1>5, <2>1, <2>3, <2>4
    <2>5. CASE i \in E
      <3>1. CASE /\ events[i].kind = "CLOCK_IN"
                 /\ \A j \in E \ {i} : Later(j, i)
        BY <1>2, <1>3, <2>1, <2>5, <3>1
      <3>2. ASSUME NEW j \in E, Later(i, j),
                   \A p \in E : ~(Later(i, p) /\ Later(p, j)),
                   events[i].kind \in AllowedNext[StateAfter(events[j].kind)]
            PROVE  /\ Later(i, j)'
                   /\ \A p \in E \cup {m} : ~(Later(i, p)' /\ Later(p, j)')
                   /\ events'[i].kind \in AllowedNext[StateAfter(events'[j].kind)]
        BY <1>2, <1>3, <2>1, <2>5, <3>2
      <3> QED
        BY <2>2, <2>5, <3>1, <3>2 DEF LegalSequence, E
    <2> QED
      BY <2>4, <2>5
  <1> QED
    BY <1>6, <1>7 DEF Sorted

LEMMA InsertKeepsOrder ==
  ASSUME OInv, NEW r \in Requests, Insert(r)
  PROVE  InOrder'
  <1> DEFINE m == Len(events) + 1
  <1>1. /\ req[r].pc = "insert" /\ req[r].key \in Keys
        /\ tap[req[r].key].kind \in PunchKind
        /\ Answer(r, "event", m) /\ UNCHANGED tap
    BY DEF Insert, OInv, InOrder, IInv, RequestsFit, TapFits
  <1>2. PICK t \in DOMAIN shifts : t = req[r].shift /\ t # 0 /\ Holds(r, t)
    BY <1>1 DEF OInv, InOrder, IInv, RequestsFit, RowFits, Holds
  <1>3. PICK ev \in EventRow :
          events' = Append(events, ev) /\ ev.shift = t /\ ev.kind = tap[req[r].key].kind
    <2> DEFINE e == [shift |-> req[r].shift, kind |-> KindOf(r), at |-> req[r].now,
                     key |-> req[r].key]
    <2>1. req[r].shift \in Nat /\ req[r].now \in Nat
      BY DEF OInv, InOrder, IInv, TypeOK
    <2>2. e \in EventRow
      BY <1>1, <2>1 DEF EventRow, KindOf
    <2>3. events' = Append(events, e)
      BY DEF Insert
    <2> QED
      BY <1>2, <2>2, <2>3 DEF KindOf
  <1>4. events \in Seq(EventRow) /\ m \in Nat
    <2>1. events \in Seq(EventRow)
      BY DEF OInv, InOrder, IInv, TypeOK, EventRow
    <2> QED
      BY <2>1
  <1>5. /\ DOMAIN events' = DOMAIN events \cup {m}
        /\ m \notin DOMAIN events /\ events'[m] = ev
        /\ \A i \in DOMAIN events : events'[i] = events[i]
        /\ \A i \in DOMAIN events : i \in Nat /\ i < m
    BY <1>3, <1>4, AppendRow
  <1>6. DOMAIN shifts' = DOMAIN shifts
    BY DEF Insert
  <1>7. OnlySlot(r) /\ req'[r].pc = "replied"
    BY <1>1, <1>4, Answered DEF OInv, InOrder
  <1> HIDE DEF m
  <1>8. \A s \in DOMAIN shifts \ {t} : EventsOfShift(s)' = EventsOfShift(s)
    BY <1>3, <1>5 DEF EventsOfShift
  <1>9. ASSUME NEW s \in DOMAIN shifts PROVE Sorted(s)'
    <2>1. CASE s = t
      <3>1. PICK l \in EventsOfShift(t) :
              IsLast(l, t) /\ tap[req[r].key].kind \in AllowedNext[StateAfter(events[l].kind)]
        BY <1>1, <1>2 DEF OInv, InOrder, Decided
      <3>2. \A i \in DOMAIN events' : events'[i].at \in Nat
        <4>1. ev.at \in Nat
          BY <1>3 DEF EventRow
        <4> QED
          BY <1>5, <4>1, EventTypes DEF OInv, InOrder
      <3>3. Sorted(t)
        BY DEF OInv, InOrder
      <3>4. events'[m].shift = t /\ events'[m].kind \in AllowedNext[StateAfter(events[l].kind)]
        BY <1>3, <1>5, <3>1
      <3>5. m \in Nat
        BY <1>4
      <3>6. Sorted(t)'
        BY <1>5, <3>1, <3>2, <3>3, <3>4, <3>5, NewEventKeepsOrder
      <3> QED
        BY <2>1, <3>6
    <2>2. CASE s # t
      BY <1>5, <1>8, <2>2, Untouched DEF OInv, InOrder
    <2> QED
      BY <2>1, <2>2
  <1>10. ASSUME NEW q \in Requests PROVE Decided(q)'
    <2> SUFFICES ASSUME q # r, req'[q].pc = "insert" PROVE Decided(q)'
      BY <1>7 DEF Decided
    <2> DEFINE u == req[q].shift
    <2>1. req'[q] = req[q] /\ req[q].pc = "insert" /\ u \in DOMAIN shifts
      BY <1>7 DEF OnlySlot, OInv, InOrder, IInv, RequestsFit, RowFits
    <2>2. u # t
      BY <1>2, <2>1 DEF OInv, InOrder, IInv, LockExclusive, Holds
    <2>3. PICK i \in EventsOfShift(u) :
            /\ IsLast(i, u)
            /\ tap[req[q].key].kind \in AllowedNext[StateAfter(events[i].kind)]
      BY <2>1 DEF OInv, InOrder, Decided
    <2>4. EventsOfShift(u)' = EventsOfShift(u)
      <3>1. \A s : s = u => EventsOfShift(s)' = EventsOfShift(s)
        BY <1>8, <2>1, <2>2
      <3>2. u' = u
        BY <2>1
      <3> QED
        BY <3>1, <3>2 DEF EventsOfShift
    <2>5. \A p, v \in EventsOfShift(u) : Later(p, v)' <=> Later(p, v)
      BY <1>5 DEF EventsOfShift, Later
    <2>6. events'[i] = events[i]
      BY <1>5, <2>3 DEF EventsOfShift
    <2>7. /\ i \in EventsOfShift(req[q].shift)'
          /\ IsLast(i, req[q].shift)'
      BY <2>1, <2>3, <2>4, <2>5 DEF IsLast
    <2> QED
      BY <1>1, <2>1, <2>3, <2>6, <2>7 DEF Decided
  <1> QED
    BY <1>6, <1>9, <1>10 DEF InOrder

-----------------------------------------------------------------------------
(* Theorem *)

LEMMA OrderInit == Init => OInv
  <1> SUFFICES ASSUME Init PROVE OInv
    OBVIOUS
  <1>1. DOMAIN shifts = {} /\ \A r \in Requests : req[r].pc = "idle"
    BY DEF Init, IdleRequest
  <1> QED
    BY <1>1, InitInv DEF OInv, InOrder, Decided

LEMMA OrderNext == OInv /\ [Next]_vars => OInv'
  <1> SUFFICES ASSUME OInv, [Next]_vars PROVE OInv'
    OBVIOUS
  <1>1. IInv'
    BY NextInv DEF OInv
  <1>2. req \in [Requests -> Request]
    BY DEF OInv, IInv, TypeOK
  <1>3. ASSUME NEW r \in Requests, Decide(r) PROVE InOrder'
    <2>1. UNCHANGED <<shifts, events, tap>> /\ \A q \in Requests \ {r} : req'[q] = req[q]
      BY <1>2, <1>3 DEF Decide, Goto, Fail, Continue
    <2> QED
      BY <1>3, <2>1, DecideDecides, NoWriteKeepsOrder
  <1>4. ASSUME NEW r \in Requests, Step(r), ~Decide(r), ~ClockIn(r), ~Insert(r)
        PROVE  InOrder'
    <2>1. UNCHANGED <<shifts, events, tap>> /\ \A q \in Requests \ {r} : req'[q] = req[q]
      BY <1>2, <1>4 DEF Step, CheckKey, ClockInRefused, SelectOpenShift, LockShift,
        InsertRefused, Recheck, Goto, Fail, Continue, Answer, AnswerOneOf
    <2>2. req'[r].pc # "insert"
      BY <1>2, <1>4 DEF Step, CheckKey, ClockInRefused, SelectOpenShift, LockShift,
        InsertRefused, Recheck, Goto, Fail, Continue, Answer, AnswerOneOf,
        RunningRequest, AnsweredRequest
    <2> QED
      BY <2>1, <2>2, NoWriteKeepsOrder
  <1>5. ASSUME NEW r \in Requests, Arrive(r) \/ WorkerDies(r) PROVE InOrder'
    <2>1. UNCHANGED <<shifts, events, tap>> /\ \A q \in Requests \ {r} : req'[q] = req[q]
      BY <1>2, <1>5 DEF Arrive, WorkerDies
    <2>2. req'[r].pc # "insert"
      BY <1>2, <1>5 DEF Arrive, WorkerDies, RunningRequest, IdleRequest
    <2> QED
      BY <2>1, <2>2, NoWriteKeepsOrder
  <1>6. ASSUME UNCHANGED vars PROVE InOrder'
    <2>1. UNCHANGED <<shifts, events, tap>> /\ req' = req
      BY <1>6 DEF vars
    <2> QED
      BY <2>1, NoWriteKeepsOrder
  <1>7. ASSUME NEW r \in Requests, ClockIn(r) \/ Insert(r) PROVE InOrder'
    BY <1>7, ClockInKeepsOrder, InsertKeepsOrder
  <1>8. InOrder'
    BY <1>3, <1>4, <1>5, <1>6, <1>7 DEF Next
  <1> QED
    BY <1>1, <1>8 DEF OInv, InOrder

\* Under every interleaving of requests, resends and killed workers, a shift
\* whose punches were recorded in the order of their timestamps is a legal one.
THEOREM OrderedShiftIsLegalHolds == Spec => []OrderedShiftIsLegal
  <1>1. OInv => OrderedShiftIsLegal
    BY DEF OInv, InOrder, Sorted, OrderedShiftIsLegal
  <1> QED
    BY OrderInit, OrderNext, <1>1, PTL DEF Spec
=============================================================================
