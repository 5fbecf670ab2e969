# PABA: a verification project for the attendance and payroll backend

PABA is a Django 5.2 application over PostgreSQL 18 for one store: employees
punch in and out at a shared kiosk tablet, managers correct and approve the
shifts, and the month's payroll is closed into immutable, versioned snapshots.
Several gunicorn workers and a daily scheduled command run against one database
in READ COMMITTED isolation with `ATOMIC_REQUESTS` off: outside an explicit
`transaction.atomic()` every statement is its own transaction.  What makes this
code hard is not its arithmetic but which statements of two requests may come
between each other, and that is what these modules model.

## The system

| Part (source under `src/apps`) | State it keeps | Operations | What makes it hard |
| --- | --- | --- | --- |
| Punch recording (`attendance/services/punches.py`, `models.py`) | shifts (at most one open per employee), append-only punch events with unique idempotency keys | `record_punch` | races of two taps, resends, a timestamp taken before a lock |
| Corrections and approvals (`attendance/services/corrections.py`, `approvals.py`, `manager_views.py`) | a chain of corrections per shift, one approval per shift pinned to a correction | `request_correction`, `correct_shift_times`, `approve_shift` | two managers at once, state read before a transaction and used in it |
| Manual shifts (`attendance/services/manual_shifts.py`, `manual_views.py`) | closed shifts with two events | `create_manual_shift`, `create_manual_week` | the key is checked before the lock; a batch is all or nothing; overlap with kiosk punches |
| Payable time (`attendance/services/time_calculation`, `month_scope.py`) | none (pure) | `calculate`, `effective_shift_window` | ties, breaks, midnight and month boundaries, time zones |
| Monthly close (`payroll/services/close.py`, `month_close.py`, `management/commands`) | the period's status, immutable snapshots, audit entries | close, reopen, `finalize_previous_payroll`, `prepare_payroll_periods` | payload and blockers are read outside the lock; a check-then-act against a reopen |
| Kiosk devices (`devices/`) | pairing codes, devices, the action token of a session | pair, activate, unlock, punch, revoke | one code activates one device; one unlock is one action |
| Manager and employee authentication (`identity/auth`) | PIN and MFA counters, TOTP seeds, recovery codes, the session and its two times | login, enrolment, second factor, logout, PIN check, reset | counters that are read, changed and written back; requests of one browser that each hold a copy of its session |
| Employees (`identity/manager_views.py`) | employee rows, leave dates | create, terminate, reset PIN | a row read, and saved after somebody else has changed or deleted it |
| Pay policies and wages (`payroll/models/policies.py`, `services/preview.py`) | effective-dated rows without overlap | `set_hourly_wage` | splitting a range while another request does |
| Insurance reconciliation (`payroll/services/deductions`) | one row per employee, month and insurance | estimate, reconcile, not applicable | a row read without a lock and saved whole |
| Earnings arithmetic (`payroll/services/earnings`, `core/money.py`) | none (pure) | base pay, weekly allowance, items by hand | decimals of limited precision that are rounded up at the end, weeks that end in the next month |
| Audit log and retention (`auditlog/`) | append-only entries, legal holds | record, `purge_expired` | a hold placed between the scan and the delete |
| Exports (`exports/`) | manifests | `create_export`, workbook rendering | a sheet with a fixed number of rows; four places that state one total |
| Health, settings, templates, assets, infrastructure | none | | not modelled: configuration, layout and pure I/O |

The parts interact only through the database.  The kiosk's `/kiosk/punch/` calls
`record_punch`; corrections and approvals change what the monthly close reads;
the close writes what the exports read; every part writes to the audit log.

## The modules

A component has one module; an abstract specification of what it promises, where
its docstrings promise something, is a module of its own; `MC*` modules hold
only model values.  A request, a command run or a tablet's tap is a *job*: a
small program whose `pc` stands between two of its statements.  Statements whose
position among the statements of other jobs cannot matter are one action.  What
a transaction writes appears to others in one step, its commit; a `WorkerDies`
action ends a job anywhere and rolls its transaction back.

| Module | Models | State and code |
| --- | --- | --- |
| `Punches` | `record_punch` and `_clock_in` | `shifts`, `events`: the tables, a row's id is its place; `tap`: what each idempotency key was minted for; `req`: each request between two of `CheckKey`, `ClockIn`, `SelectOpenShift`, `LockShift`, `Decide`, `Insert`, `Recheck`; `clock`: `timezone.now()` |
| `PunchAnswers` | the same, with a history | `due`: which refusals would have been right at some instant of each request; the steps are those of `Punches` |
| `PunchBook` | the docstring of `punches.py` | `onDuty`, `recorded`; one atomic `Record` per tap |
| `PayrollClose` | `close_period`, `reopen_period`, `close_month`, `reopen_month`, `finalize_previous_payroll` | `status`, `snapshots`, `audit`: the period and what hangs on it; `rows`: the attendance as the close's queries see it, changed by everybody else at any time; `lines`, `todo`, `seen`: local variables of a job |
| `PayrollLedger` | the docstrings of `models/close.py`, `close.py` | `status` and `snapshots`; atomic `Prepare`, `Close`, `Reopen` |
| `PayableTime` | `calculate`, `effective_shift_window`, the loop of `monthly_payroll_lines` | `events`: the effective events of one shift, built by `Punch` and `CorrectTimes`; everything else is an operator on them |
| `Corrections` | the views `approve_shift` and `correct_shift_times` with `create_correction`, `approve_shift`, `current_correction` | `corrections` in the order (created_at, id), `pinned`: the approval's row; `previous`, `own`, `latest`: local variables |
| `ShiftReview` | the docstring of `approvals.py` | `current`, `approval`; `PayrollClose` lets a shift's row change in exactly these steps (`ApproveShift`, `CorrectShift`, `OvertakenCorrection`) |
| `ManualShifts` | `create_manual_shift`, `create_manual_week`, `record_manual_shift` | `shifts`, `approved`: committed rows; `made`, `touched`: rows of a transaction in flight; `tap`: the kiosk's clock-in between `timezone.now()` and its insert |
| `KioskActions` | `kiosk.ts`, `kiosk_unlock`, `kiosk_punch`, the session middleware | `token`: what the stored session holds; `held`: a request's copy of it; `screen`: what the tablet shows; `log`: what was recorded |
| `Pairing` | `create_pairing_code`, `activate_device`, `revoke_device` | `device`: what each code paired; `live`, `todo`, `locked`: the rows a `SELECT ... FOR UPDATE` has found, has still to lock, holds |
| `Wages` | `set_hourly_wage`, the wage of `create_employee` | `upper`, `wage`: the rows by first date; `pc`, `row`: a request between its query, its lock, its update and its insert |
| `WageHistory` | the docstring of `set_hourly_wage` | `rate`: the wage of each date |
| `Earnings` | `core/money.py`, `earnings/`, `deductions/estimate.py`, `deductions/manual.py` | no state: decimals as coefficient and digits, base pay, weekly allowance, premiums, items by hand as operators |
| `Reconciliation` | `deductions/reconciliation.py`, `models/deductions.py` | `premiums`: the rows; `requests`: what each manager's `reconcile` has read and not yet saved |
| `Statements` | `apps/exports` | no state: statements, sheets, summary and manifest of a snapshot as operators |
| `Payslips` | `preview.py`, the payload of `month_close.py`, the payload's blockers in `close.py`, `download_statements` | `build`: the request between two queries of the preview, the checks and the locked transaction; `wages`, `snapshots`, `archive`; extends `Reconciliation` and `Statements` |
| `SignIn` | `identity/auth/views.py`, `middleware.py` and the manager's half of `services.py` | `rows`, `cookie`: the session table and the browser; `req`: each request with its copy of the session; `totp`, `throttle`, `unused`: the tables |
| `Employees` | `identity/manager_views.py`, the PIN half of `auth/services.py`, `auditlog/retention.py` | `staff`, `pin`, `holds`, `purges`: the tables; `req`: each request or purge between its read and its save |

Where a punch is not the subject, `KioskActions`, `ManualShifts` and `PayableTime`
use the outcome of `Punches` as one step: it is recorded whole, or refused, and
its timestamp may be older than its neighbour's.  `PayrollClose`
composes with attendance through `rows`: its environment actions are the
commits of `Punches`, `ManualShifts` and `Corrections`.  `Payslips` is the same
close seen from its data: the shifts are approved and their segments given (they
are what `PayableTime` computes), the locked transaction is one step as
`PayrollClose` shows it may be, and `set_hourly_wage` is one step as `Wages`
shows, while the preview reads on between them.  Names that begin with `MC`
instantiate these modules; `*Proofs` hold the theorems.

PostgreSQL and Django are outside the repository.  They are modelled from how
the code relies on them and marked external in the map: READ COMMITTED (a
statement sees what is committed when it starts), a row that a `FOR UPDATE`
waited for is looked at again, unique indexes and exclusion constraints wait
for a transaction in flight and then decide, a deadlock is broken by cancelling
one member, a lost connection rolls back, a session is read at the start of a
request and written as a whole at the end of one that changed it, but not with
a 500.

## What makes each component correct

* **Punch recording.** A shift has one CLOCK_IN, its first event, and is closed
  exactly by its CLOCK_OUT (`ShiftBracketed`); a shift whose events were recorded
  in the order of their timestamps is a legal sequence (`OrderedShiftIsLegal`); a
  request is refused with what was true, and its tap unrecorded, at one instant
  while it ran, although it looks at key, shift and lock one after the other
  (`RefusedAsDue`); all interleavings together look like `PunchBook`
  (`ImplementsBook`); every request is answered (`EveryRequestEnds`).
* **Monthly close.** Versions form one unbroken chain that is never rewritten
  (`ImplementsLedger`); one CLOSE entry per version and none without its snapshot
  (`OneCloseEntryPerVersion`); attendance that was never approved is paid only if
  it has been corrected since (`UnapprovedPayIsSuperseded`), which is as strong as
  a gate that is asked before the lock can be.
* **Payable time.** `calculate` pays exactly the instants at work, each once
  (`PaidTimeIsWork`), and blocks everything that is not a well-formed sequence
  (`BlockedUnlessWellFormed`); neighbouring months neither lose nor repeat a
  segment (`PaidOnce`); a month's close checks every shift somebody worked in it
  (`WorkedMonthIsChecked`); local times are paid in their month
  (`LocalTimesPaidInTheirMonth`).
* **Earnings, premiums, payslips.** Base pay is the exact pay rounded up, or one
  won more (`PayWithinOneWon`); whoever worked is paid for all of it, each segment
  at a wage that was its day's while the preview ran, or the month is not closed
  (`WorkIsPaid`); no labour week is settled before it is over, for
  terms that have not changed since (`AllowanceWeeksElapsed`); the sheets, the summary, the manifest and the payload
  of an archive state the same amounts (`ArchiveAddsUp`); a premium's status and
  its columns agree although rows are saved whole over newer ones
  (`RowConsistent`).
* **Corrections and approvals.** What is approved is payable although it is
  checked and approved by different queries (`ApprovedIsPayable`); links lead
  back to committed, older corrections (`SupersedesCommitted`); readers see
  `ShiftReview` (`ImplementsReview`): an approval that misses the current
  correction shows as stale, never as one of it.
* **Manual shifts.** What a manager's commit makes visible overlaps nothing
  visible then (`RecordedApart`); success means recorded and, for weeks,
  approved as a whole (`DoneIsRecorded`); a form fails with a server error only if its key names
  something else: its own copies never meet at the unique index
  (`ServerErrorIsEarned`).
* **Kiosk tablet.** A token that a punch was answered for is not found again
  (`AnsweredTokenConsumed`); while the tablet waits for its answers, and even
  if answers are lost, an unlock authorises one punch (`OneActionIfPatient`) and
  a punch is recorded for whoever tapped it (`OwnPunchIfPatient`).
* **Pairing.** A code pairs one tablet (`PairsOnce`); a live code is refused only
  if another tablet has used it (`RefusedOnlyIfUsed`), in whatever order the
  rows are locked.
* **Wages.** Each success is one step of `WageHistory`, so that earlier dates keep
  their wage and no concurrent change is lost (`ImplementsHistory`); a request that
  gets the row of its month succeeds, unless one that has got none cuts in
  (`FoundWageIsSet`).
* **Sign-in.** A session that was logged out or has expired never comes back,
  whatever copies of it requests still hold (`LoggedOutStaysOut`); nobody is let in
  beyond the absolute or the idle timeout, although requests overwrite each
  other's times (`SessionLifetime`); for a browser that waits for its answers, a
  row of refused codes locks the second factor for its time
  (`LockedOutWaitsIfPatient`) and nothing takes a confirmed authenticator away
  (`EnrolmentLastsIfPatient`).
* **Employees and retention.** After a reset that overlapped no other, the PIN it
  generated is the one stored, whatever unlocks were under way
  (`LastPinIsStored`); without overlap, wrong PINs lock it
  (`LockedPinWaitsIfPatient`); a purge destroys only whom it may
  (`DestroyedOnlyIfDue`); data are gone if and only if the log says so
  (`PurgeRecorded`).

Five more invariants are stated and no run lists them, because each is the code
of one constraint or follows from the properties above: `OneOpenShift`,
`RecordedOnce`, `AnswerIsTheTap` (`Punches`), `CloseNeverFails` (`PayrollClose`)
and `RowsApart` (`Wages`).  They are proved.  So is the type invariant of every
module but `SignIn` and `Employees`.

## The runs

Each component has one passing run with all its properties, so that they are
checked over the same states.  `punches`, which has a liveness property, uses no
symmetry: it starts from one of the initial states that differ only by the names
of the keys (`OneNamingSpec`).  Deadlock is checked for `Punches`, whose requests
arrive for ever; in the other modules every job runs once and the system may
really stop, so their configurations switch it off.

| Run | Instance | Distinct states | Why it is enough |
| --- | --- | --- | --- |
| `punches` | one employee, three keys of every kind, two requests that arrive again and again, clock 0..1 | 106 000 | employees share no row, so one suffices; two requests already race at every pair of statements, the third key lets a shift be closed and another opened behind a waiting request; the clock needs two values for order and timestamp to differ |
| `payroll_close` | four jobs of every kind, one shift in every initial state, one correction, jobs symmetric | 1 658 000 | two closes, a command and a reopen in any order; shifts are visited one by one and do not influence each other, one correction distinguishes paid from current |
| `payable_time` | seven instants around two UTC midnights and the local one that ends a month, six events | 71 000 | six events are a shift with two breaks; the instants include equal ones and all three kinds of boundary |
| `corrections` | four requests of either kind on one shift, symmetric | 42 000 | two corrections fork, a third builds on one of them while an approval is on its way |
| `manual_shifts` | two requests out of six forms, after a recorded week or none; two employees at the kiosk; clock 0..1 | 314 000 | the forms contain overlaps, a key edited, a key for another employee and one batch sent with other days, between which the deadlock needs a row that exists already |
| `kiosk_actions` | three requests of one tablet, two employees, tokens that lapse | 936 000 | unlock, punch, and a third request between them or after a lost answer |
| `pairing` | two codes, three activations | 192 000 | two activations of one code beside one of another; two rows to be locked in either order |
| `wages` | six dates in three months, three requests, every hire date and none | 45 000 | a month split twice and set again; hires on the first and on a later day |
| `payslips` | a store of every kind (`MCPayslips`): employees hired, leaving and with wages that change in a month of nine days, and payloads of the services; two managers and four requests about premiums, two versions, three closing dates, one wage set meanwhile | 203 000 | with six significant digits a third of an hour is rounded as visibly as with 28 in a large sum; sheets of three rows reach their last one; the dates are the month's last day, the day after, and one after its last week |
| `sign_in` | two requests at a time of one browser, five in all, time 0..3, two attempts, three secrets, symmetric | 3 032 000 | a login of two requests, and three more that overlap it, its page or its logout; both timeouts pass |
| `employees` | two employees, two requests or purges at a time, three in all, time 0..3, two attempts, symmetric | 1 030 000 | a wrong PIN between the reads and saves of a reset, a hold or a new date between those of a purge, two purges at once |
| `punches_order` | as `punches`, clock 0..2 | violation | see below |

Bounds are named where they stop something: `MaxClock` and `MaxTime` (the clock
stands still, requests still arrive), `MaxVersion` (corrections per shift),
`MaxVersions` (snapshots), `MaxRequests`, `MaxChanges`, `MaxSecrets`, `MaxCode`,
`LastDate` and `MaxEvents`.  Every property of a passing run was tried on a faulty
variant of a definition, kept in the module under "Faulty variant", and is
violated by it: an index left out, a lock not taken, a row not looked at again, a
token not dropped, an insert tried for ever.

**Fairness.** `WF` of a job's `Step` says that a worker runs its statements and
PostgreSQL answers them, which is what the process and the database do; nothing
obliges anybody to send a request, to tap, to clock out, to let time pass, or a
worker to die, so none of these is fair.  `Punches` needs `SF` of `LockShift`: a
row lock is free again and again while others take it, and PostgreSQL queues
its waiters in order, so none is overtaken for ever.  Only `punches` checks
liveness: a request loops back nowhere and comes to an answer.  In the other
components each job is a straight line that only the lock manager can hold up,
and that deadlocks end is PostgreSQL's doing, not this code's, so they state no
liveness.

## The proofs

TLAPS proves these theorems for every set of employees, keys, requests, jobs,
shifts, codes and dates, for every bound and every retention, lockout and
timeout.  They assume only the `ASSUME`s of the component's modules, which TLC
evaluates in the runs, and `KioskActions` needs none.  Most say that markers such
as `None` are no real value and that bounds are naturals.  The longer ones say
what the database guarantees of what is in it at the start:
`PayslipsAssumption` that the columns have their types, that amounts a manager
may set are not negative (`HourlyWage` checks it), that an employee's terms do
not overlap (an exclusion constraint) and that an hour's fractions fit into the
decimal context; `PrecisionSuffices` that the context has digits enough for the
work of a month, which 28 digits are for 1,600 segments of up to a day in
microseconds at wages below 2^31 (`HourlyWage.hourly_wage` is a
`PositiveIntegerField`); `PayableTimeAssumption` that a month is a whole number of days
and an offset shorter than one.

A recursive definition is not within the provers' reach as such, but what the
modules compute by recursion runs over the places of one given sequence.  The
lemma `CountedUp` of `PayProofs` says that a set of numbers that holds 0 and is
closed under the next place holds every place up to the last one; an induction
is then a set of the places for which a fact holds.  A module of proofs covers
the components that share a reader's question; where it speaks of several, their
names differ (`PayslipsInit`, `PairingNext`, `EventsTypeOK`).

| Module | Theorems | The inductive invariant, and why it is needed |
| --- | --- | --- |
| `PunchesProofs` | `TypeCorrect`, `OneOpenShiftHolds`, `RecordedOnceHolds`, `AnswerIsTheTapHolds`, `ShiftBracketedHolds`, `PunchesImplementBook` | a request about to write holds an open row of its employee, alone (`RowFits`, `LockExclusive`): without it a punch could land in a shift that was closed meanwhile; each event is the tap of its key (`EventsOfTaps`) |
| | `OrderedShiftIsLegalHolds` | what `Decide` found is still the last event when it is inserted (`Decided`), for which the lock is needed; sequences have a last event |
| | `RefusedAsDueHolds` | an error that a request carries to its second look-up of the key was due at some instant, or the key is recorded, and stays so (`Excused`): what it then finds decides between the two |
| `PayrollCloseProofs` | the invariants of the run and `ImplementsLedger` | a job in `write` has read the number of snapshots that is still the number (`PhaseFits`); what was paid after passing the gate was not pending, or has changed (`LineFits`); a version whose entry is owed has none (`Unrecorded`) |
| `CorrectionsProofs` | the invariants of the run and `ImplementsReview` | a job owns the row it inserted (`RowOwned`), what it read is committed or its own (`ReadsFit`), and a shift once payable stays so; there is a newest committed correction although the data are unbounded (`HasNewest`) |
| `ManualShiftsProofs` | `TypeCorrect`, `DoneIsRecordedHolds`, `ServerErrorIsEarnedHolds` | what a job has made so far are exactly the entries before its place, with their keys and, for a batch, their approval; what is committed stays; before an insert nothing recorded overlaps the entry, so that a row with its key is not a copy of it |
| | `RecordedApartHolds` | rows that two transactions in flight have made for one employee do not exist at once, because each holds the employee's lock from its first row to its commit; a row of a manager was checked against all visible then, and a tap that comes later was clocked after it ended |
| `TabletProofs`, of `Pairing` | `PairingTypeCorrect`, `OneDevicePerCode`, `RefusalIsDue` | a job that has found its code has it still to lock, holds it, or another has used it (`FoundFits`); rows are locked in any order |
| `TabletProofs`, of `KioskActions` | `TypeCorrect`, `AnsweredTokenConsumedHolds` | a token that an unlock has minted and not yet saved is in nobody else's copy of the session and not in the stored one (`MintFits`): otherwise its save could bring back a token that was answered for; requests are answered once (`ReplyFits`) |
| | `OneActionHolds`, `OwnPunchHolds` | while no request overlaps another (`Patient`), the stored token is that of whoever the screen shows, or of whoever tapped (`TurnFits`), also after an answer was lost; what is in the log has a token that was answered for (`LogFits`), so that it is not found again |
| `SignInProofs` | `LoggedOutStaysOutHolds`, `SessionLifetimeHolds` | the times in every row and in every request's copy are not later than its key's last login and last request (`RowFits`, `RequestFits`): an older copy that overwrites a newer one only shortens the session; keys are given out once (`EndedStayOut`) |
| | `LockedOutWaitsHolds`, `EnrolmentLastsHolds` | while no request overlaps another, the stored counter is the number of codes missed (`ThrottleFits`), and what the only request has read still stands (`StepFits`): the lock is open, no authenticator is confirmed |
| `EmployeesProofs` | `LastPinIsStoredHolds`, `PurgeRecordedHolds`, `DestroyedOnlyIfDueHolds` | who has no row was destroyed or never had one (`RowFits`); unless resets of the employee raced, the one reset under way carries the PIN given last, and without one that PIN is stored (`PinsFit`); whom a purge may still destroy had left long ago and was free of holds when it started, unless the date moved (`PurgeFits`); a purge that runs alone has destroyed nobody it still lists (`PurgesApart`), without which it would write a second entry |
| | `LockedPinWaitsHolds` | while no request overlaps another, the row of a PIN counts what has been missed, or the request that will save it does (`PinFits`, `StepFits`); the time a request read is late enough for the lockout to be over (`Reopens`) |
| `PayProofs`, of `Wages` | `TypeCorrect`, `OneWagePerDate`, `Refinement`, `FoundWageIsSetHolds` | rows are apart as an order on their ends (`Apart`), a holder's row contains its month (`HoldsFit`); the lemma `RateAfter` turns a change of rows into a change of wages; what a holder writes lies within its row (`WrittenWithin`), so that only a request without a row can be in its way |
| `PayProofs`, of `Payslips` and `Reconciliation` | `WorkIsPaidHolds`, `AllowanceWeeksElapsedHolds` | `PayInv`: the lines built so far are of the listed employees before the next one, the line in hand holds the segments of the month before the next one, each at a wage that `seen` has for its day (`LineFits`); a payload that passed the checks was checked on a day not later than today (`PayloadFits`, `SnapshotsFit`); the weeks only of employees whose terms have not changed since |
| | `RowConsistentHolds` | what a request has read was the estimate of the base it has read (`PremiumsFit`), so that a row saved whole agrees with itself whatever it overwrites |
| | `ArchiveAddsUpHolds` | net pay is earnings less deductions from the line to the snapshot, versions are their places, an archive is that of one snapshot that remains (`AmountsInv`); the rest is about any snapshot: sums of a concatenation, of a column with its gaps, of the rows of sheets |
| | `PayWithinOneWonHolds` | what is rated is the employee's work at wages the employee may have (`WonInv`), hence within `PrecisionSuffices`; the rest is about any sequence of segments: rounding changes an amount by at most five parts in 10^28 and a quotient by half of its last digit (`RoundedIsClose`, `DivideIsClose`), a segment may lose a share of a won, and the shares of all are less than one (`PayIsClose`) |
| `PayProofs`, of `PayableTime` | `EventsTypeCorrect`, `BlockedUnlessWellFormedHolds`, `PaidTimeIsWorkHolds`, `PaidOnceHolds`, `WorkedMonthIsCheckedHolds`, `LocalTimesPaidHolds` | the invariant is only that events have their type: these hold of every sequence of events.  Sorting is a permutation because the places in the sorted sequence (`Places`) are a bijection; the loop of `calculate` has a closed form (`WalkIs`); an instant is paid if and only if an odd number of ends precede it; cuts at midnights lose and repeat nothing |

Each proof has one lemma per action, which shows the invariant's conjuncts, and
`NextInv` splits `Next` into them; `Spec => []IInv` and the results follow by
temporal logic.  What holds only without overlap has a second invariant,
`Patient`, kept by every step after which no request has overlapped another
(`NextPatient`), on top of the one that always holds.  An action property is
shown of a single step from the invariant.  Refinements are shown step by step:
an action of the component is a step of the abstract specification or leaves its
variables alone.

Only model-checked are

* `EveryRequestEnds`, which rests on fairness and `ENABLED` and is beyond the
  prover;
* `TypeOK` of `SignIn` and `Employees`, whose bounds count secrets and slots and
  which no proof needs.

## Where the code and its documents disagree

One run ends in a counterexample to a sentence of the repository:

* `punches_order` (`ConcurrentPunchesLegal`).  `record_punch` takes `now` when the
  request arrives, before its transaction looks for the open shift.  A
  BREAK_START arrives, a CLOCK_IN arrives after it and commits, and then the
  BREAK_START finds the new shift open, locks it and is recorded with the older
  timestamp.  Every reader sorts by timestamp, so that the shift begins with a
  break; `punches.py:9` says that concurrent punches cannot interleave illegally.
  `OrderedShiftIsLegal` is what remains, and is proved.

More were met while modelling.  Their properties stand in the modules, and TLC
violates each when it replaces the properties of the component's configuration:

| Property | Module | What happens | What is said |
| --- | --- | --- | --- |
| `AutoNeverRecloses` | `PayrollClose` | the command asks for a snapshot once, before it builds the payload; a close and a reopen in between go unnoticed (`finalize_previous_payroll.py:43`) | `scheduler.tf:3` |
| `PaidInItsMonth` | `PayableTime` | midnights are those of the zone a datetime happens to have, and punches come back from the database in UTC (`core.py:72`) | `core.py:6` |
| `OneActionPerUnlock` | `KioskActions` | two requests that overlap hold the same copy of the session and with it the same token (`attendance/views.py:221`) | `attendance/views.py:5` |
| `ResponseIsIdempotent` | `Punches` | a copy of a tap meets the unique index; the handler queries inside the broken transaction and the answer is a 500 (`punches.py:104`) | `docs/SELF-REVIEW.md:17` |
| `ClosePaysCurrentAttendance` | `PayrollClose` | a correction between the payload and the lock is not in the snapshot (`close.py:139`) | the plan, line 166: a stale preview is rejected |
| `OrderIndependent` | `PayableTime` | events at one instant keep the order they came in (`core.py:82`) | `core.py:19` |
| `ChainNeverForks` | `Corrections` | two corrections supersede the same one (`corrections.py:73`) | `attendance/models.py:93` |
| `ApprovesCurrentState` | `Corrections` | an approval is written for a correction that is no longer current (`approvals.py:22`) | `approvals.py:21` |
| `ResendAccepted` | `ManualShifts` | the copy of a request that waited for the lock conflicts with its own interval (`manual_shifts.py:78`) | `test_manual_range_is_idempotent` |
| `PunchIsOfWhoTapped` | `KioskActions` | a punch that arrives late is recorded for whoever has unlocked since (`attendance/views.py:201`) | the plan, line 226 |
| `PaidMonthCanBeSet` | `Wages` | the month of a hire in mid-month cannot be given a wage: the open-ended row overlaps the first one (`preview.py:130`) | `preview.py:121` |

The last one needs a single request: the close of that month is blocked by a
missing wage that the console cannot set.  A punch that fails with a server
error keeps its token, because a session is not saved with a 500
(`attendance/views.py:220` says "regardless of outcome"); `AnsweredTokenConsumed`
therefore leaves this answer out.

The modules of pay, sign-in and employees state what holds; where their
properties are weaker than a reader of the documents would expect, this is why:

* `PayWithinOneWon`: amounts are said to accumulate exactly (`earnings/base.py:4`),
  but hours are a quotient of 28 digits, and three parts of ten minutes at 10,030
  won an hour are paid 5,016 won instead of 5,015.
* `WorkIsPaid`: the preview asks for one segment's wage after the other outside any
  transaction, so a wage set meanwhile may count for some of them.
* `AllowanceWeeksElapsed`: the rest weekday asked for is the one in force on the day
  of the close (`close.py`), not in the week; the property speaks of unchanged terms.
* A close is said to need every insurance final (`models/deductions.py:3`); the
  console's own payload has no premiums, so that gate is passed unasked.  `Payslips`
  has it where a caller builds the payload from the services.
* `LockedOutWaitsIfPatient`, `LockedPinWaitsIfPatient`: counters are read, raised and
  saved, with the end of the lockout that was read: of two refusals at once one
  may not count, or may undo the lockout the other has set, and one that was under way
  when a PIN was reset may lock the new one although a reset "clears any lockout"
  (`identity/auth/services.py:72`).
* `EnrolmentLastsIfPatient`: a second setup page, opened while the first is being
  confirmed, writes a new secret (`services.py:139`).
* `DestroyedOnlyIfDue`: what is placed or moved after the candidates were listed
  comes too late (`retention.py:53`).  `PurgeRecorded`: two purges at once may write
  two entries; and whoever was hired through the console has a wage that PROTECTs
  the row, so that the purge ends there and the candidates after it stay.

## Abstractions and what is not modelled

* Wording, formatting, templates, logging and the read-only pages; audit entries
  except those of the close; amounts of money (a wage is named by the request
  that set it, a payload by the versions it pays).
* `Punches`: a key belongs to one tap and is never sent with another kind, as
  the kiosk mints it per tap; employees do not share rows.
* `PayrollClose`: blockers that depend on the data of the payload only add reasons
  to refuse, and are in `Payslips`; one month at a time, since periods share no row.
* `Corrections`: the contents of a correction count only as accepted by
  `calculate`; one shift at a time, since nothing relates two.
  `request_correction` inserts a row that nothing reads.
* `ManualShifts`: each employee clocks in once at the kiosk, and corrections of
  times, which do not change `opened_at`, are left out.
* `PayableTime`: the optional arguments of `calculate` have no caller; seconds
  are not rounded anywhere before money is.
* `KioskActions`: one tablet; a wrong PIN changes no session and is left out.
* `Pairing`: the query has no ORDER BY, so rows are locked in any order and two
  activations may wait for each other.  PostgreSQL then cancels one, as it does
  with two batches of `ManualShifts` and two first wages of `Wages`: a 500 that no
  view catches, after which nothing of the job remains.
* `Payslips`: the console closes months with the payload of `month_close.py`.  The
  services for the allowance, premiums and items by hand have no production
  caller; the payload composed from them is an assumption about one, after the
  form that `scripts/e2e_smoke.py` shows with fewer items and a constant
  deduction.  The map marks it external, and that its net is the difference of
  its totals is assumed, not checked.
* `Payslips`: attendance is given, as approved segments; a day has no hours, since
  rates change at midnight only.  Labels, addresses and cell styles are left out.
* `Earnings`: the long-term care premium is rounded as the code does, but the rates
  are those of a small file; the context's exponent limits cannot be reached.
* `SignIn`: one manager, one browser; a wrong password changes nothing.  The branch
  of `manager_login` for `MANAGER_MFA_REQUIRED=False`, which only
  `settings/local.py` chooses and which logs in without a second factor, is left
  out.  A TOTP code
  is right or wrong: its time window and its reuse within it are left out.  Nothing
  calls `generate_recovery_codes`: the codes are there from the start.
* `Employees`: an employee's code identifies the row; forms that fail their checks
  change nothing; the entries of the console's own actions are left out.
* Not modelled: redaction, the authorization policy, the request id, health probes,
  settings, cryptography, Terraform, templates and style sheets, which keep no
  state of their own; `manager_console` (`attendance/views.py`), which only
  reads; the scripts under `scripts/`, which call what is modelled
  in one order.

## Plan

In the order of importance:

1. An abstract lockout that `SignIn` and `Employees` both implement while requests
   do not overlap; the invariants `ThrottleFits` and `PinFits` are its refinement
   mapping.
2. `PayrollClose` with two months, to relate the weekly allowance of a week that
   belongs to both to the order in which they are closed and reopened.
3. `Reconciliation` with a specification of its own, for any number of requests.
