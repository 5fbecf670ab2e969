------------------------------- MODULE Employees -------------------------------
(***************************************************************************)
(* An employee from being hired to being destroyed: the console's forms    *)
(* (identity/manager_views.py), the PIN that the kiosk verifies            *)
(* (identity/auth/services.py), and the purge of those who left long ago,  *)
(* with its audit entries (auditlog/retention.py, services.py, models.py). *)
(*                                                                         *)
(* No request locks a row.  One that reads a row, decides, and saves is    *)
(* two steps; a transaction whose outcome depends on nothing it read       *)
(* before is one.  save(update_fields=...) writes those columns, and fails *)
(* if the row is gone; what fails changes nothing.                         *)
(*                                                                         *)
(* The employee's code is the identity: codes are not used again.  Hire    *)
(* dates, names and wages are checked by the form and left out; an         *)
(* employee is hired on day 0.  DEBUG and its master PIN are left out.     *)
(***************************************************************************)
EXTENDS Integers, FiniteSets

CONSTANTS
  Codes,        \* of employees
  Slots,        \* requests that can be under way at a time
  MaxAttempts,  \* PIN_MAX_ATTEMPTS
  Lockout,      \* PIN_LOCKOUT
  DayLength,    \* instants per day
  Retain,       \* days: EMPLOYEE_PII_RETENTION and BACKUP_GRACE
  None,
  MaxTime,      \* bound: the clock
  MaxRequests   \* bound: requests sent

ASSUME EmployeesAssumption ==
  /\ MaxAttempts \in Nat \ {0} /\ DayLength \in Nat \ {0}
  /\ {Lockout, Retain, MaxTime, MaxRequests} \subseteq Nat

VARIABLES
  now,
  staff,       \* Employee: [Codes -> row, or Absent]
  pin,         \* EmployeePin: [Codes -> row, or Absent]
  holds,       \* codes with a LegalHold that is not released
  purges,      \* AuditLogEntry: how many PURGE entries a code has
  req,         \* what each slot's request is doing
  sent,        \* requests sent so far
  overlapped,  \* history: a request was sent while another was under way
  given,       \* history: the last PIN generated for a code
  raced,       \* history: codes whose last reset overlapped another
  destroyed,   \* history: codes whose row a purge has deleted
  crossed,     \* history: two purges have run at once
  misses,      \* history: wrong PINs since the last right one, reset or lockout
  lockedAt,    \* history: when the last lockout began
  lastTry      \* history: when a PIN was compared since

tables == <<staff, pin, holds, purges>>
attempts == <<misses, lockedAt, lastTry>>
pins == <<given, raced>>
vars == <<now, tables, req, sent, overlapped, pins, destroyed, crossed, attempts>>

Absent == [row |-> FALSE]
Free == [pc |-> "free"]
Today == now \div DayLength

\* PINs are numbered in the order they are generated, the first for who has one
\* before; pin_hash="" is of none.
NoPin == 0
FirstPin == 1
NewPin == sent + 2

\* referred: rows that PROTECT the employee exist.
Person(leave, referred) == [leave |-> leave, referred |-> referred]
Pin(hash, failed, until) == [hash |-> hash, failed |-> failed, until |-> until]

Days == 0..(MaxTime \div DayLength)
TypeOK ==
  /\ now \in 0..MaxTime
  /\ staff \in [Codes -> [leave : Days \cup {None}, referred : BOOLEAN] \cup {Absent}]
  /\ \A e \in Codes : pin[e] # Absent =>
       /\ staff[e] # Absent
       /\ pin[e] \in [hash : 0..(MaxRequests + 1), failed : 0..(MaxAttempts - 1),
                      until : 0..(MaxTime + Lockout)]
  /\ holds \subseteq Codes
  /\ purges \in [Codes -> 0..Cardinality(Slots)]

\* Employees entered without the console may lack what refers to them.
Init ==
  /\ now = 0
  /\ staff \in [Codes -> {Absent, Person(None, TRUE), Person(0, TRUE), Person(0, FALSE)}]
  /\ pin = [e \in Codes |-> IF staff[e] = Absent THEN Absent ELSE Pin(FirstPin, 0, 0)]
  /\ holds = {}
  /\ purges = [e \in Codes |-> 0]
  /\ req = [r \in Slots |-> Free]
  /\ sent = 0 /\ overlapped = FALSE /\ crossed = FALSE
  /\ given = [e \in Codes |-> IF staff[e] = Absent THEN NoPin ELSE FirstPin]
  /\ raced = {} /\ destroyed = {}
  /\ misses = [e \in Codes |-> 0]
  /\ lockedAt = [e \in Codes |-> None] /\ lastTry = [e \in Codes |-> None]

Tick ==
  /\ now < MaxTime
  /\ now' = now + 1
  /\ UNCHANGED <<tables, req, sent, overlapped, pins, destroyed, crossed, attempts>>

\* A request arrives; its clock is read first.
Send(r, request) ==
  /\ req[r] = Free
  /\ sent < MaxRequests
  /\ sent' = sent + 1
  /\ overlapped' = (overlapped \/ \E s \in Slots : req[s] # Free)
  /\ req' = [req EXCEPT ![r] = request]
End(r) == req' = [req EXCEPT ![r] = Free]

-----------------------------------------------------------------------------
(* The console *)

\* create_employee: one transaction, which always adds a wage.
Create(r, e, withPin) ==
  /\ req[r] = Free /\ sent < MaxRequests
  /\ staff[e] = Absent /\ e \notin destroyed
  /\ staff' = [staff EXCEPT ![e] = Person(None, TRUE)]
  /\ sent' = sent + 1
  /\ IF withPin
     THEN /\ pin' = [pin EXCEPT ![e] = Pin(NewPin, 0, 0)]
          /\ given' = [given EXCEPT ![e] = NewPin]
     ELSE UNCHANGED <<pin, given>>
  /\ UNCHANGED <<now, holds, purges, req, overlapped, raced, destroyed, crossed, attempts>>

Resetting(r, e) == req[r].pc = "reset" /\ req[r].code = e

\* issue_employee_pin and set_employee_pin: a PIN is generated, get_or_create,
\* then the save of the whole row.  If the row has gone meanwhile, so has the
\* employee it refers to.
Reset(r, e) ==
  /\ staff[e] # Absent
  /\ Send(r, [pc |-> "reset", code |-> e, hash |-> NewPin])
  /\ pin' = IF pin[e] = Absent THEN [pin EXCEPT ![e] = Pin(NoPin, 0, 0)] ELSE pin
  /\ given' = [given EXCEPT ![e] = NewPin]
  /\ raced' = IF \E s \in Slots : Resetting(s, e) THEN raced \cup {e} ELSE raced \ {e}
  /\ UNCHANGED <<now, staff, holds, purges, destroyed, crossed, attempts>>
SavePin(r) ==
  /\ req[r].pc = "reset"
  /\ LET e == req[r].code IN
     IF pin[e] = Absent THEN UNCHANGED <<pin, attempts>>
     ELSE /\ pin' = [pin EXCEPT ![e] = Pin(req[r].hash, 0, 0)]
          /\ misses' = [misses EXCEPT ![e] = 0]
          /\ lockedAt' = [lockedAt EXCEPT ![e] = None]
          /\ lastTry' = [lastTry EXCEPT ![e] = None]
  /\ End(r)
  /\ UNCHANGED <<now, staff, holds, purges, sent, overlapped, pins, destroyed, crossed>>

\* terminate_employee; the date may be moved later.
Terminate(r, e, day) ==
  /\ staff[e] # Absent
  /\ Send(r, [pc |-> "leave", code |-> e, day |-> day])
  /\ UNCHANGED <<now, tables, pins, destroyed, crossed, attempts>>
\* (A purge under way forgets that the code was due: see DestroyedOnlyIfDue.)
SaveLeave(r) ==
  /\ req[r].pc = "leave"
  /\ LET e == req[r].code IN
     /\ staff' = IF staff[e] = Absent THEN staff ELSE [staff EXCEPT ![e].leave = req[r].day]
     /\ req' = [s \in Slots |-> IF s = r THEN Free
                                ELSE IF req[s].pc \in {"held", "delete"}
                                THEN [req[s] EXCEPT !.moved = @ \cup {e}] ELSE req[s]]
  /\ UNCHANGED <<now, pin, holds, purges, sent, overlapped, pins, destroyed, crossed, attempts>>

\* External: a shift, terms or premiums of the employee are stored; a hold is
\* placed or released.
Refer(e) ==
  /\ staff[e] # Absent /\ ~staff[e].referred
  /\ staff' = [staff EXCEPT ![e].referred = TRUE]
  /\ UNCHANGED <<now, pin, holds, purges, req, sent, overlapped, pins, destroyed, crossed, attempts>>
PlaceHold(e) ==
  /\ e \notin holds
  /\ holds' = holds \cup {e}
  /\ UNCHANGED <<now, staff, pin, purges, req, sent, overlapped, pins, destroyed, crossed, attempts>>
ReleaseHold(e) ==
  /\ e \in holds
  /\ holds' = holds \ {e}
  /\ req' = [s \in Slots |-> IF req[s].pc \in {"held", "delete"}
                             THEN [req[s] EXCEPT !.heldSince = @ \ {e}] ELSE req[s]]
  /\ UNCHANGED <<now, staff, pin, purges, sent, overlapped, pins, destroyed, crossed, attempts>>

-----------------------------------------------------------------------------
(* verify_employee_pin *)

\* At the kiosk: somebody enters the PIN generated last, the one stored now, or
\* another one.
Entries(e) ==
  LET issued == {given[e]} \cup (IF pin[e] = Absent THEN {} ELSE {pin[e].hash})
  IN  (issued \ {NoPin}) \cup {None}
Unlock(r, e, entry) ==
  /\ Send(r, [pc |-> "verify", code |-> e, entry |-> entry, at |-> now])
  /\ UNCHANGED <<now, tables, pins, destroyed, crossed, attempts>>

Employed(e) == staff[e].leave = None \/ staff[e].leave >= Today

\* The read, and what is to be saved.  Faulty variant: one wrong PIN more
\* before it locks.
OneMoreAttempt(p, at) ==
  IF p.failed + 1 > MaxAttempts THEN Pin(p.hash, 0, at + Lockout)
  ELSE Pin(p.hash, p.failed + 1, p.until)
AfterMiss(p, at) ==
  IF p.failed + 1 >= MaxAttempts THEN Pin(p.hash, 0, at + Lockout)
  ELSE Pin(p.hash, p.failed + 1, p.until)

Verify(r) ==
  /\ req[r].pc = "verify"
  /\ LET e == req[r].code
         p == pin[e]
         at == req[r].at
         right == req[r].entry = p.hash
     IN  IF p = Absent \/ (p # Absent /\ p.until > at) \/ ~Employed(e)
         THEN End(r) /\ UNCHANGED attempts
         ELSE /\ req' = [req EXCEPT ![r] =
                   IF ~right THEN [pc |-> "save", code |-> e, row |-> AfterMiss(p, at)]
                   ELSE IF p.failed # 0 \/ p.until # 0
                   THEN [pc |-> "save", code |-> e, row |-> Pin(p.hash, 0, 0)]
                   ELSE Free]
              /\ LET locks == ~right /\ misses[e] + 1 >= MaxAttempts IN
                 /\ misses' = [misses EXCEPT ![e] = IF right \/ locks THEN 0 ELSE @ + 1]
                 /\ lockedAt' = [lockedAt EXCEPT ![e] = IF locks THEN at ELSE @]
                 /\ lastTry' = [lastTry EXCEPT ![e] =
                      IF locks \/ lockedAt[e] = None THEN None ELSE at]
  /\ UNCHANGED <<now, tables, sent, overlapped, pins, destroyed, crossed>>

\* save(update_fields=["failed_attempts", "locked_until"]).  Faulty variant:
\* the whole row.
SaveRow(r) ==
  /\ req[r].pc = "save"
  /\ LET e == req[r].code IN
     pin' = IF pin[e] = Absent THEN pin ELSE [pin EXCEPT ![e] = req[r].row]
  /\ End(r)
  /\ UNCHANGED <<now, staff, holds, purges, sent, overlapped, pins, destroyed, crossed, attempts>>
SaveAttempts(r) ==
  /\ req[r].pc = "save"
  /\ LET e == req[r].code
         row == req[r].row
     IN  pin' = IF pin[e] = Absent THEN pin
                ELSE [pin EXCEPT ![e] = Pin(@.hash, row.failed, row.until)]
  /\ End(r)
  /\ UNCHANGED <<now, staff, holds, purges, sent, overlapped, pins, destroyed, crossed, attempts>>

-----------------------------------------------------------------------------
(* purge_expired *)

\* Gone for the time that is to be kept.
Due(e) == staff[e] # Absent /\ staff[e].leave # None /\ staff[e].leave <= Today - Retain

\* find_candidates: the query for the departed ...
Purge(r) ==
  /\ Send(r, [pc |-> "held", todo |-> {e \in Codes : Due(e)}, due |-> {},
              heldSince |-> holds, moved |-> {}])
  /\ crossed' = (crossed \/ \E s \in Slots : req[s].pc \in {"held", "delete"})
  /\ UNCHANGED <<now, tables, pins, destroyed, attempts>>

\* ... and, one by one, that for their holds.  Faulty variant: a released hold
\* is asked for.
AnyHold(e) == FALSE
HasActiveHold(e) == e \in holds
CheckHold(r, e) ==
  /\ req[r].pc = "held" /\ e \in req[r].todo
  /\ req' = [req EXCEPT ![r].todo = @ \ {e},
                        ![r].due = IF HasActiveHold(e) THEN @ ELSE @ \cup {e}]
  /\ UNCHANGED <<now, tables, sent, overlapped, pins, destroyed, crossed, attempts>>
\* A dry run ends here.
Listed(r) ==
  /\ req[r].pc = "held" /\ req[r].todo = {}
  /\ \/ req' = [req EXCEPT ![r].pc = "delete"]
     \/ End(r)
  /\ UNCHANGED <<now, tables, sent, overlapped, pins, destroyed, crossed, attempts>>

\* One transaction per candidate: the row and its PIN go, and an entry is
\* added; ProtectedError ends the run.  A row that has gone is no error.
\* Faulty variant: the entry is added outside the transaction, and first.
Recorded(e) == purges' = [purges EXCEPT ![e] = @ + 1]
RecordedFirst(r, e) ==
  /\ req[r].pc = "delete" /\ e \in req[r].due
  /\ Recorded(e)
  /\ IF staff[e] # Absent /\ staff[e].referred
     THEN End(r) /\ UNCHANGED <<staff, pin, destroyed>>
     ELSE /\ staff' = [staff EXCEPT ![e] = Absent]
          /\ pin' = [pin EXCEPT ![e] = Absent]
          /\ destroyed' = destroyed \cup {e}
          /\ req' = [req EXCEPT ![r].due = @ \ {e}]
  /\ UNCHANGED <<now, holds, sent, overlapped, pins, crossed, attempts>>
Destroy(r, e) ==
  /\ req[r].pc = "delete" /\ e \in req[r].due
  /\ IF staff[e] # Absent /\ staff[e].referred
     THEN End(r) /\ UNCHANGED <<staff, pin, purges, destroyed>>
     ELSE /\ staff' = [staff EXCEPT ![e] = Absent]
          /\ pin' = [pin EXCEPT ![e] = Absent]
          /\ destroyed' = destroyed \cup {e}
          /\ Recorded(e)
          /\ req' = [req EXCEPT ![r].due = @ \ {e}]
  /\ UNCHANGED <<now, holds, sent, overlapped, pins, crossed, attempts>>
Purged(r) ==
  /\ req[r].pc = "delete" /\ req[r].due = {}
  /\ End(r)
  /\ UNCHANGED <<now, tables, sent, overlapped, pins, destroyed, crossed, attempts>>

Next ==
  \/ Tick
  \/ \E e \in Codes : Refer(e) \/ PlaceHold(e) \/ ReleaseHold(e)
  \/ \E r \in Slots :
       \/ \E e \in Codes :
            \/ \E withPin \in BOOLEAN : Create(r, e, withPin)
            \/ Reset(r, e)
            \/ \E day \in Days : Terminate(r, e, day)
            \/ \E entry \in Entries(e) : Unlock(r, e, entry)
            \/ CheckHold(r, e) \/ Destroy(r, e)
       \/ SavePin(r) \/ SaveLeave(r) \/ Verify(r) \/ SaveAttempts(r)
       \/ Purge(r) \/ Listed(r) \/ Purged(r)

Spec == Init /\ [][Next]_vars

-----------------------------------------------------------------------------
(* Properties *)

\* However unlocks with a wrong PIN, which save the counter they read earlier,
\* overlap a reset: once it has ended, the PIN that was generated last is the
\* one that is stored.  (Of two resets of one employee at once, either may be
\* stored last.)
LastPinIsStored ==
  \A e \in Codes \ raced :
    pin[e] # Absent /\ (\A r \in Slots : ~Resetting(r, e)) => pin[e].hash = given[e]

\* Without overlap, MaxAttempts wrong PINs in a row lock it: none is compared
\* until Lockout has passed, unless it was reset.  (Two at once may count as
\* one.)
LockedPinWaitsIfPatient ==
  ~overlapped => \A e \in Codes : lastTry[e] # None => lastTry[e] >= lockedAt[e] + Lockout

\* A purge destroys only who had left for longer than the retention period and
\* whom no hold protected, at least from the start of the run to the deletion:
\* one placed, or a leave date moved, while it runs may come too late.
DestroyedOnlyIfDue ==
  [][\A r \in Slots, e \in Codes :
       staff[e] # Absent /\ staff'[e] = Absent /\ req[r].pc = "delete" /\ req'[r] # req[r] =>
         /\ e \notin req[r].heldSince
         /\ e \notin req[r].moved => Due(e)]_vars

\* Whatever fails half-way: the data of a code is destroyed if and only if the
\* log has its PURGE entry; only one unless two purges ran at once.
PurgeRecorded ==
  \A e \in Codes :
    /\ e \in destroyed <=> purges[e] > 0
    /\ purges[e] > 1 => crossed
    /\ e \in destroyed => staff[e] = Absent
=============================================================================
