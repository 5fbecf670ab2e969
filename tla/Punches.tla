------------------------------- MODULE Punches -------------------------------
(***************************************************************************)
(* record_punch (apps/attendance/services/punches.py): the one way a kiosk *)
(* punch enters the database.  Several web workers run it at once, each in *)
(* a READ COMMITTED transaction of PostgreSQL, over two tables:            *)
(*                                                                         *)
(*   shifts  attendance_shift: at most one open row per employee (partial  *)
(*           unique index); a row's id is its place in the sequence        *)
(*   events  attendance_punchevent: idempotency_key is unique; a row's id  *)
(*           is its place in the sequence                                  *)
(*                                                                         *)
(* A request is a small program over these tables.  Each statement whose   *)
(* position among the statements of other requests can matter is an action *)
(* of its own; what a transaction writes appears in one step, its commit.  *)
(* The clock is the server's timezone.now().                               *)
(***************************************************************************)
EXTENDS Naturals, Sequences, FiniteSets

CONSTANTS
  Employees,   \* employees of the store
  Keys,        \* idempotency keys; the kiosk mints one per tap
  Requests,    \* in-flight request slots of the gunicorn workers
  MaxClock,    \* bound of the clock, which stands still once it is reached
  None         \* the key of an idle slot

PunchKind == {"CLOCK_IN", "BREAK_START", "BREAK_END", "CLOCK_OUT"}

\* The kiosk posts the kind as free text; every other text is one value.
PostedKind == PunchKind \cup {"OTHER"}
Tap == [employee : Employees, kind : PostedKind]

ASSUME PunchesAssumption ==
  /\ None \notin Keys
  /\ MaxClock \in Nat

ErrorCode == {"NO_OPEN_SHIFT", "ILLEGAL_TRANSITION", "SHIFT_ALREADY_OPEN"}

VARIABLES
  shifts,   \* Seq([employee, open])
  events,   \* Seq([shift, kind, at, key])
  tap,      \* the tap each key is minted for: [employee, kind]; never changes
  req,      \* the program state of each request slot
  clock     \* timezone.now()

vars == <<shifts, events, tap, req, clock>>

Pc == {"idle", "check", "clock_in", "select", "lock", "decide", "insert",
       "recheck", "replied"}

\* What a slot remembers: the key and the instant taken on arrival, the shift
\* row it waits for ("lock") or holds (later), the error to raise if no event
\* has the key, and the answer: the event's id, an error code, or a crash.
Request == [pc : Pc, key : Keys \cup {None}, now : Nat, shift : Nat,
            error : ErrorCode \cup {"none"},
            reply : ErrorCode \cup {"none", "event", "server_error"}, event : Nat]

IdleRequest == [pc |-> "idle", key |-> None, now |-> 0, shift |-> 0,
                error |-> "none", reply |-> "none", event |-> 0]
RunningRequest(pc, k, t, shift, error) ==
  [pc |-> pc, key |-> k, now |-> t, shift |-> shift,
   error |-> error, reply |-> "none", event |-> 0]
AnsweredRequest(k, reply, event) ==
  [pc |-> "replied", key |-> k, now |-> 0, shift |-> 0,
   error |-> "none", reply |-> reply, event |-> event]

TypeOK ==
  /\ shifts \in Seq([employee : Employees, open : BOOLEAN])
  /\ events \in Seq([shift : Nat, kind : PunchKind, at : Nat, key : Keys])
  /\ tap \in [Keys -> Tap]
  /\ req \in [Requests -> Request]
  /\ clock \in Nat

Init ==
  /\ shifts = <<>>
  /\ events = <<>>
  /\ tap \in [Keys -> Tap]
  /\ req = [r \in Requests |-> IdleRequest]
  /\ clock = 0

-----------------------------------------------------------------------------
(* What a query sees *)

EmployeeOf(r) == tap[req[r].key].employee
KindOf(r) == tap[req[r].key].kind

\* The event committed under key k, if any.
EventOf(k) == {i \in DOMAIN events : events[i].key = k}
Recorded(k) == EventOf(k) # {}

OpenShifts(e) == {s \in DOMAIN shifts : shifts[s].employee = e /\ shifts[s].open}
EventsOfShift(s) == {i \in DOMAIN events : events[i].shift = s}

\* order_by("-occurred_at", "-id").first()
Later(i, j) == \/ events[i].at > events[j].at
               \/ events[i].at = events[j].at /\ i > j
IsLast(i, s) == /\ i \in EventsOfShift(s)
                /\ \A j \in EventsOfShift(s) \ {i} : Later(i, j)

\* _state_of_open_shift of an open shift, and _ALLOWED_NEXT.
StateAfter(kind) == IF kind \in {"CLOCK_IN", "BREAK_END"} THEN "WORKING"
                    ELSE IF kind = "BREAK_START" THEN "ON_BREAK" ELSE "IDLE"
ShiftState(s) ==
  IF \E i \in EventsOfShift(s) : IsLast(i, s)
  THEN StateAfter(events[CHOOSE i \in EventsOfShift(s) : IsLast(i, s)].kind)
  ELSE "WORKING"
AllowedNext == [IDLE |-> {"CLOCK_IN"},
                WORKING |-> {"BREAK_START", "CLOCK_OUT"},
                ON_BREAK |-> {"BREAK_END"}]

\* The transaction of request r holds the row lock of shift s.
Holds(r, s) == req[r].shift = s /\ req[r].pc \in {"decide", "insert", "recheck"}

\* The indexes and the row lock, as the statements meet them.  Faulty variant:
\* no lock.
OpenShiftIndexAllows(e) == OpenShifts(e) = {}
KeyIndexAllows(k) == ~Recorded(k)
NoRowLock(s) == TRUE
RowLockFree(s) == \A q \in Requests : ~Holds(q, s)

\* What the second look-up of a key returns.  Faulty variant: it is
\* skipped.
NotLookedUp(k) == {}
Existing(k) == EventOf(k)

\* The row after a punch of this kind.  Faulty variant: closed_at not saved.
NotSaved(shift, kind) == shift
AfterPunch(shift, kind) ==
  [employee |-> shift.employee, open |-> shift.open /\ kind # "CLOCK_OUT"]

-----------------------------------------------------------------------------
(* Steps of one request *)

Continue(r, pc, shift, error) ==
  req' = [req EXCEPT ![r] = RunningRequest(pc, req[r].key, req[r].now, shift, error)]
Goto(r, pc) == Continue(r, pc, req[r].shift, "none")
Fail(r, code) == Continue(r, "recheck", req[r].shift, code)
\* Ends the transaction, so it also lets go of the row lock.
Answer(r, reply, event) ==
  req' = [req EXCEPT ![r] = AnsweredRequest(req[r].key, reply, event)]
AnswerOneOf(r, found) == \E i \in found : Answer(r, "event", i)

\* A tap reaches the server, or is sent again with its key.  `now` is taken
\* here, before the transaction starts.
Arrive(r) ==
  /\ req[r].pc \in {"idle", "replied"}
  /\ \E k \in Keys, t \in {clock, clock + 1} :
       /\ t <= MaxClock
       /\ clock' = t
       /\ req' = [req EXCEPT ![r] = RunningRequest("check", k, t, 0, "none")]
  /\ UNCHANGED <<shifts, events, tap>>

\* The first look-up of the key, and the branch on the kind.
CheckKey(r) ==
  /\ req[r].pc = "check"
  /\ \/ AnswerOneOf(r, EventOf(req[r].key))
     \/ /\ ~Recorded(req[r].key)
        /\ Goto(r, IF KindOf(r) = "CLOCK_IN" THEN "clock_in" ELSE "select")
  /\ UNCHANGED <<shifts, events, tap, clock>>

\* _clock_in: a shift and its CLOCK_IN event, or neither.  Either unique
\* index may refuse the insert; the savepoint is then rolled back.
ClockIn(r) ==
  /\ req[r].pc = "clock_in"
  /\ OpenShiftIndexAllows(EmployeeOf(r))
  /\ KeyIndexAllows(req[r].key)
  /\ shifts' = Append(shifts, [employee |-> EmployeeOf(r), open |-> TRUE])
  /\ events' = Append(events, [shift |-> Len(shifts) + 1, kind |-> "CLOCK_IN",
                               at |-> req[r].now, key |-> req[r].key])
  /\ Answer(r, "event", Len(events) + 1)
  /\ UNCHANGED <<tap, clock>>

\* Faulty variant: the insert is tried again and again.
RetriesClockIn(r) ==
  /\ req[r].pc = "clock_in"
  /\ ~(OpenShiftIndexAllows(EmployeeOf(r)) /\ KeyIndexAllows(req[r].key))
  /\ Goto(r, "clock_in")
  /\ UNCHANGED <<shifts, events, tap, clock>>
ClockInRefused(r) ==
  /\ req[r].pc = "clock_in"
  /\ ~(OpenShiftIndexAllows(EmployeeOf(r)) /\ KeyIndexAllows(req[r].key))
  /\ Fail(r, "SHIFT_ALREADY_OPEN")
  /\ UNCHANGED <<shifts, events, tap, clock>>

\* SELECT ... FOR UPDATE: the statement's snapshot decides which row it wants.
SelectOpenShift(r) ==
  /\ req[r].pc = "select"
  /\ \/ \E s \in OpenShifts(EmployeeOf(r)) :
          Continue(r, "lock", s, "none")
     \/ OpenShifts(EmployeeOf(r)) = {} /\ Fail(r, "NO_OPEN_SHIFT")
  /\ UNCHANGED <<shifts, events, tap, clock>>

\* The row lock is granted once no other transaction has it; a row that was
\* closed meanwhile no longer matches the query and is skipped, although the
\* employee may have opened another shift since.
LockShift(r) ==
  /\ req[r].pc = "lock"
  /\ RowLockFree(req[r].shift)
  /\ \/ shifts[req[r].shift].open /\ Goto(r, "decide")
     \/ /\ ~shifts[req[r].shift].open
        /\ Continue(r, "recheck", 0, "NO_OPEN_SHIFT")
  /\ UNCHANGED <<shifts, events, tap, clock>>

Decide(r) ==
  /\ req[r].pc = "decide"
  /\ \/ KindOf(r) \in AllowedNext[ShiftState(req[r].shift)] /\ Goto(r, "insert")
     \/ /\ KindOf(r) \notin AllowedNext[ShiftState(req[r].shift)]
        /\ Fail(r, "ILLEGAL_TRANSITION")
  /\ UNCHANGED <<shifts, events, tap, clock>>

\* The event, with the closing of the shift on a CLOCK_OUT, and the commit.
Insert(r) ==
  /\ req[r].pc = "insert"
  /\ KeyIndexAllows(req[r].key)
  /\ events' = Append(events, [shift |-> req[r].shift, kind |-> KindOf(r),
                               at |-> req[r].now, key |-> req[r].key])
  /\ shifts' = [shifts EXCEPT ![req[r].shift] = AfterPunch(@, KindOf(r))]
  /\ Answer(r, "event", Len(events) + 1)
  /\ UNCHANGED <<tap, clock>>

\* The unique index refuses the key.  The handler queries for the existing
\* event inside the same atomic block, which the error has already broken:
\* Django raises TransactionManagementError, the view answers 500.
InsertRefused(r) ==
  /\ req[r].pc = "insert"
  /\ ~KeyIndexAllows(req[r].key)
  /\ Answer(r, "server_error", 0)
  /\ UNCHANGED <<shifts, events, tap, clock>>

\* _existing_or, and the same look-up at the end of _clock_in.
Recheck(r) ==
  /\ req[r].pc = "recheck"
  /\ \/ AnswerOneOf(r, Existing(req[r].key))
     \/ Existing(req[r].key) = {} /\ Answer(r, req[r].error, 0)
  /\ UNCHANGED <<shifts, events, tap, clock>>

\* The worker is killed or loses its connection: the transaction is rolled
\* back and no answer is sent.
WorkerDies(r) ==
  /\ req[r].pc \notin {"idle", "replied"}
  /\ req' = [req EXCEPT ![r] = IdleRequest]
  /\ UNCHANGED <<shifts, events, tap, clock>>

Step(r) ==
  \/ CheckKey(r) \/ ClockIn(r) \/ ClockInRefused(r) \/ SelectOpenShift(r)
  \/ LockShift(r) \/ Decide(r) \/ Insert(r) \/ InsertRefused(r) \/ Recheck(r)

Next == \E r \in Requests : Arrive(r) \/ Step(r) \/ WorkerDies(r)

Spec == Init /\ [][Next]_vars

\* A worker runs its request on; PostgreSQL grants a row lock in the order it
\* was asked for, so no waiter is overtaken for ever.
Fairness == \A r \in Requests : WF_vars(Step(r)) /\ SF_vars(LockShift(r))

FairSpec == Spec /\ Fairness

-----------------------------------------------------------------------------
(* Properties *)

\* "One open shift per employee": two CLOCK_INs never both open a shift, and
\* a shift opened while the previous one was being closed is the only one.
OneOpenShift == \A e \in Employees : \A s, t \in OpenShifts(e) : s = t

\* A tap is recorded by at most one event, however often its key is sent and
\* whatever its copies race with.
RecordedOnce == \A i, j \in DOMAIN events : events[i].key = events[j].key => i = j

\* A request answered with an event was answered with the event of its own
\* tap: its key, its kind, in a shift of its employee.
AnswerIsTheTap ==
  \A r \in Requests : req[r].reply = "event" =>
    /\ req[r].event \in DOMAIN events
    /\ LET ev == events[req[r].event] IN
         /\ ev.key = req[r].key
         /\ ev.shift \in DOMAIN shifts
         /\ tap[ev.key] = [employee |-> shifts[ev.shift].employee, kind |-> ev.kind]

\* Every shift was opened by exactly one CLOCK_IN, its first event; it is
\* closed exactly when a CLOCK_OUT was recorded, and nothing is recorded in
\* it after that.
Bracketed(s) ==
  /\ \E i \in EventsOfShift(s) :
       /\ events[i].kind = "CLOCK_IN"
       /\ \A j \in EventsOfShift(s) \ {i} : i < j /\ events[j].kind # "CLOCK_IN"
  /\ \A i \in EventsOfShift(s) : events[i].kind = "CLOCK_OUT" =>
       ~shifts[s].open /\ \A j \in EventsOfShift(s) : j <= i
  /\ shifts[s].open \/ \E i \in EventsOfShift(s) : events[i].kind = "CLOCK_OUT"
ShiftBracketed == \A s \in DOMAIN shifts : Bracketed(s)

\* CLOCK_IN -> (BREAK_START <-> BREAK_END)* -> CLOCK_OUT, in the order in
\* which every reader sorts the events: by time, then by id.
LegalSequence(s) ==
  \A i \in EventsOfShift(s) :
    \/ /\ events[i].kind = "CLOCK_IN"
       /\ \A j \in EventsOfShift(s) \ {i} : Later(j, i)
    \/ \E j \in EventsOfShift(s) :
         /\ Later(i, j)
         /\ \A m \in EventsOfShift(s) : ~(Later(i, m) /\ Later(m, j))
         /\ events[i].kind \in AllowedNext[StateAfter(events[j].kind)]

InTimeOrder(s) ==
  \A i, j \in EventsOfShift(s) : i < j => events[i].at <= events[j].at

\* As long as the punches of a shift are recorded in the order of their
\* timestamps, the row lock keeps the shift's sequence legal under every
\* interleaving of requests.
OrderedShiftIsLegal ==
  \A s \in DOMAIN shifts : InTimeOrder(s) => LegalSequence(s)

\* The same without the condition: "under a row lock, so concurrent punches
\* cannot interleave illegally" (punches.py, module docstring).
ConcurrentPunchesLegal == \A s \in DOMAIN shifts : LegalSequence(s)

\* "The response is now idempotent for every punch kind" (docs/SELF-REVIEW.md):
\* no copy of a tap ends in a server error.
ResponseIsIdempotent == \A r \in Requests : req[r].reply # "server_error"

\* Every request that is not killed is answered: no request waits for a row
\* lock that nobody will release.
EveryRequestEnds ==
  \A r \in Requests : req[r].pc = "check" ~> req[r].pc \in {"idle", "replied"}

\* What the punch service promises, as an abstract specification.
Book == INSTANCE PunchBook
          WITH onDuty <- {e \in Employees : OpenShifts(e) # {}},
               recorded <- {k \in Keys : Recorded(k)}

\* Every step of record_punch records at most one tap, legally and once.
ImplementsBook == Book!Spec
=============================================================================
