---------------------------- MODULE EmployeesProofs ----------------------------
(***************************************************************************)
(* Proofs about Employees, for any number of employees and of requests     *)
(* under way at a time.                                                    *)
(***************************************************************************)
EXTENDS Employees, TLAPS

USE EmployeesAssumption DEF pins

-----------------------------------------------------------------------------
(* The inductive invariant *)

StaffRow == [leave : Nat \cup {None}, referred : BOOLEAN]
PinRow == [hash : Nat, failed : Nat, until : Nat]

\* What a request under way carries.
ResetRequest == [pc : {"reset"}, code : Codes, hash : Nat]
LeaveRequest == [pc : {"leave"}, code : Codes, day : Nat]
VerifyRequest == [pc : {"verify"}, code : Codes, entry : Nat \cup {None}, at : Nat]
SaveRequest == [pc : {"save"}, code : Codes, row : PinRow]
Purging == {"held", "delete"}
PurgeRequest == [pc : Purging, todo : SUBSET Codes, due : SUBSET Codes,
                 heldSince : SUBSET Codes, moved : SUBSET Codes]
Request == {Free} \cup ResetRequest \cup LeaveRequest \cup VerifyRequest \cup SaveRequest
                  \cup PurgeRequest

Typed ==
  /\ now \in Nat /\ sent \in Nat
  /\ staff \in [Codes -> StaffRow \cup {Absent}]
  /\ pin \in [Codes -> PinRow \cup {Absent}]
  /\ holds \subseteq Codes /\ destroyed \subseteq Codes
  /\ purges \in [Codes -> Nat]
  /\ req \in [Slots -> Request]
  /\ given \in [Codes -> Nat] /\ misses \in [Codes -> Nat]
  /\ lockedAt \in [Codes -> Nat \cup {None}] /\ lastTry \in [Codes -> Nat \cup {None}]

\* A PIN belongs to an employee; who never had one has not been asked for it.
Untried(e) == misses[e] = 0 /\ lockedAt[e] = None /\ lastTry[e] = None
RowFits(e) ==
  /\ staff[e] = Absent => pin[e] = Absent
  /\ pin[e] = Absent => e \in destroyed \/ Untried(e)

\* Whom a purge may still destroy has left long ago, unless the date has moved
\* since; whom it has found free of holds was free when the run started.
Listing(q) == q.due \cup (IF q.pc = "held" THEN q.todo ELSE {})
LeftLongAgo(e) == staff[e] = Absent \/ (staff[e].leave # None /\ staff[e].leave <= Today - Retain)
PurgeFits(q) ==
  q.pc \in Purging =>
    /\ q.heldSince \subseteq holds
    /\ q.heldSince \cap q.due = {}
    /\ \A e \in Listing(q) : /\ staff[e] # Absent \/ e \in destroyed
                             /\ e \in q.moved \/ LeftLongAgo(e)

\* A purge that runs alone has destroyed nobody it still lists.
PurgesApart ==
  /\ \A r, s \in Slots : req[r].pc \in Purging /\ req[s].pc \in Purging => r = s
  /\ \A r \in Slots : req[r].pc \in Purging => \A e \in Listing(req[r]) : e \notin destroyed

IInv ==
  /\ Typed
  /\ \A e \in Codes : RowFits(e)
  /\ \A r \in Slots : PurgeFits(req[r])
  /\ ~crossed => PurgesApart
  /\ PurgeRecorded

-----------------------------------------------------------------------------
(* Rows and requests *)

LEMMA AbsentIsNoRow ==
  /\ \A p \in PinRow : p # Absent
  /\ \A p \in StaffRow : p # Absent
  BY DEF PinRow, StaffRow, Absent

LEMMA PinTyped ==
  ASSUME NEW hash \in Nat, NEW failed \in Nat, NEW until \in Nat
  PROVE  /\ Pin(hash, failed, until) \in PinRow
         /\ Pin(hash, failed, until).hash = hash
         /\ Pin(hash, failed, until).failed = failed
         /\ Pin(hash, failed, until).until = until
  BY DEF Pin, PinRow

LEMMA NewPerson ==
  ASSUME NEW leave \in Nat \cup {None}, NEW referred \in BOOLEAN
  PROVE  /\ Person(leave, referred) \in StaffRow
         /\ Person(leave, referred).leave = leave
  BY DEF Person, StaffRow

\* What a request is doing tells what it carries.
LEMMA Shapes ==
  ASSUME NEW q \in Request
  PROVE  /\ q.pc = "reset" => q \in ResetRequest
         /\ q.pc = "leave" => q \in LeaveRequest
         /\ q.pc = "verify" => q \in VerifyRequest
         /\ q.pc = "save" => q \in SaveRequest
         /\ q.pc \in Purging => q \in PurgeRequest
         /\ q.pc = "free" <=> q = Free
  BY DEF Request, Free, ResetRequest, LeaveRequest, VerifyRequest, SaveRequest, PurgeRequest, Purging

\* Only the slot of request r changes.
Only(r, q) == req' \in [Slots -> Request] /\ \A s \in Slots : req'[s] = IF s = r THEN q ELSE req[s]
LEMMA SlotGets ==
  ASSUME Typed, NEW r \in Slots, NEW q \in Request, req' = [req EXCEPT ![r] = q]
  PROVE  Only(r, q)
  BY DEF Typed, Only

LEMMA FreeIsRequest == Free \in Request /\ Free.pc = "free"
  BY DEF Request, Free

\* The first state, whoever is employed and whatever refers to them, satisfies
\* the invariant.
THEOREM InitInv == Init => IInv
  <1> SUFFICES ASSUME Init PROVE IInv
    OBVIOUS
  <1>1. \A s \in Slots : req[s].pc = "free"
    BY FreeIsRequest DEF Init
  <1>2. Typed
    <2>1. staff \in [Codes -> StaffRow \cup {Absent}]
      <3>1. {Absent, Person(None, TRUE), Person(0, TRUE), Person(0, FALSE)} \subseteq StaffRow \cup {Absent}
        BY NewPerson
      <3> QED
        BY <3>1 DEF Init
    <2>2. pin \in [Codes -> PinRow \cup {Absent}] /\ given \in [Codes -> Nat]
      BY PinTyped DEF Init, FirstPin, NoPin
    <2>3. req \in [Slots -> Request]
      BY FreeIsRequest DEF Init
    <2> QED
      BY <2>1, <2>2, <2>3 DEF Init, Typed
  <1>3. ASSUME NEW e \in Codes PROVE RowFits(e)
    BY PinTyped, AbsentIsNoRow DEF Init, RowFits, Untried
  <1>4. \A r \in Slots : PurgeFits(req[r])
    BY <1>1 DEF PurgeFits, Purging
  <1>5. PurgesApart
    BY <1>1 DEF PurgesApart, Purging
  <1>6. PurgeRecorded
    BY DEF Init, PurgeRecorded
  <1> QED
    BY <1>2, <1>3, <1>4, <1>5, <1>6 DEF IInv

-----------------------------------------------------------------------------
(* What a step has to respect *)

\* A purge that goes on lists nobody new, and knows at least as much.
GoesOn(s) ==
  LET p == req'[s] IN
  p.pc \in Purging =>
    /\ req[s].pc \in Purging
    /\ Listing(p) \subseteq Listing(req[s])
    /\ p.heldSince \subseteq holds' /\ p.heldSince \cap p.due = {}
    /\ req[s].moved \subseteq p.moved
    /\ \A e \in Listing(p) :
         /\ staff[e] # Absent => staff'[e] # Absent \/ e \in destroyed'
         /\ LeftLongAgo(e) => LeftLongAgo(e)' \/ e \in p.moved

LEMMA PurgesGoOn ==
  ASSUME IInv, destroyed \subseteq destroyed', \A s \in Slots : GoesOn(s)
  PROVE  \A s \in Slots : PurgeFits(req[s])'
  <1> SUFFICES ASSUME NEW s \in Slots PROVE PurgeFits(req[s])'
    OBVIOUS
  <1>1. PurgeFits(req[s]) /\ GoesOn(s)
    BY DEF IInv
  <1> QED
    BY <1>1 DEF PurgeFits, GoesOn, Listing

LEMMA StillApart ==
  ASSUME IInv, ~crossed', ~crossed, destroyed' = destroyed, \A s \in Slots : GoesOn(s)
  PROVE  PurgesApart'
  BY DEF IInv, PurgesApart, GoesOn, Listing

\* A step that purges do not notice.
LEMMA Unpurged ==
  ASSUME IInv, UNCHANGED <<now, staff, holds, destroyed, crossed>>,
         \A s \in Slots : req'[s].pc \in Purging => req'[s] = req[s]
  PROVE  /\ \A s \in Slots : PurgeFits(req[s])'
         /\ ~crossed' => PurgesApart'
  <1>1. ASSUME NEW s \in Slots PROVE GoesOn(s)
    BY DEF IInv, PurgeFits, GoesOn, LeftLongAgo, Today
  <1> QED
    BY <1>1, PurgesGoOn, StillApart

LEMMA SameRows ==
  ASSUME IInv, UNCHANGED <<staff, pin, attempts, destroyed>>
  PROVE  \A e \in Codes : RowFits(e)'
  BY DEF IInv, RowFits, Untried, attempts

LEMMA SameRecords ==
  ASSUME IInv, UNCHANGED <<staff, purges, destroyed, crossed>>
  PROVE  PurgeRecorded'
  BY DEF IInv, PurgeRecorded

-----------------------------------------------------------------------------
(* Requests that arrive, and that end *)

\* A request that changes no table.
LEMMA QuietStep ==
  ASSUME IInv, UNCHANGED <<now, tables, given, destroyed, crossed, attempts>>, sent' \in Nat,
         NEW r \in Slots, NEW q \in Request, Only(r, q), q.pc \notin Purging
  PROVE  IInv'
  <1> USE DEF tables, attempts
  <1>1. Typed'
    BY DEF IInv, Typed, Only
  <1>2. \A s \in Slots : req'[s].pc \in Purging => req'[s] = req[s]
    BY DEF Only
  <1> QED
    BY <1>1, <1>2, Unpurged, SameRows, SameRecords DEF IInv

\* A request that comes in.
LEMMA Arrives ==
  ASSUME IInv, NEW r \in Slots, NEW q \in Request, Send(r, q)
  PROVE  Only(r, q) /\ sent' \in Nat /\ req[r] = Free
  <1>1. req' = [req EXCEPT ![r] = q] /\ sent' = sent + 1 /\ req[r] = Free
    BY DEF Send
  <1>2. Typed /\ sent \in Nat
    BY DEF IInv, Typed
  <1>3. Only(r, q)
    BY <1>1, <1>2, SlotGets
  <1> QED
    BY <1>1, <1>2, <1>3

LEMMA TerminateKeeps == ASSUME IInv, NEW r \in Slots, NEW e \in Codes, NEW day \in Days, Terminate(r, e, day) PROVE IInv'
  <1>1. PICK q : q = [pc |-> "leave", code |-> e, day |-> day]
    OBVIOUS
  <1>2. q \in Request /\ q.pc \notin Purging
    BY <1>1 DEF Request, LeaveRequest, Days, Purging
  <1> QED
    BY <1>1, <1>2, Arrives, QuietStep DEF Terminate

LEMMA EntryTyped ==
  ASSUME IInv, NEW e \in Codes, NEW entry \in Entries(e)
  PROVE  entry \in Nat \cup {None}
  <1>1. given[e] \in Nat /\ (pin[e] # Absent => pin[e].hash \in Nat)
    BY DEF IInv, Typed, PinRow
  <1> QED
    BY <1>1 DEF Entries

LEMMA UnlockKeeps ==
  ASSUME IInv, NEW r \in Slots, NEW e \in Codes, NEW entry \in Entries(e), Unlock(r, e, entry)
  PROVE  IInv'
  <1>1. PICK q : q = [pc |-> "verify", code |-> e, entry |-> entry, at |-> now]
    OBVIOUS
  <1>2. q \in Request /\ q.pc \notin Purging
    BY <1>1, EntryTyped DEF Request, VerifyRequest, Purging, IInv, Typed
  <1> QED
    BY <1>1, <1>2, Arrives, QuietStep DEF Unlock

LEMMA ResetKeeps == ASSUME IInv, NEW r \in Slots, NEW e \in Codes, Reset(r, e) PROVE IInv'
  <1> USE DEF attempts
  <1>1. PICK q : q = [pc |-> "reset", code |-> e, hash |-> NewPin]
    OBVIOUS
  <1>2. NewPin \in Nat /\ q \in Request /\ q.pc \notin Purging
    BY <1>1 DEF NewPin, Request, ResetRequest, Purging, IInv, Typed
  <1>3. Only(r, q) /\ sent' \in Nat
    BY <1>1, <1>2, Arrives DEF Reset
  <1>4. /\ staff[e] # Absent /\ UNCHANGED <<now, staff, holds, purges, destroyed, crossed, attempts>>
        /\ pin' = IF pin[e] = Absent THEN [pin EXCEPT ![e] = Pin(0, 0, 0)] ELSE pin
        /\ given' = [given EXCEPT ![e] = NewPin]
    BY DEF Reset, NoPin
  <1>5. Typed'
    BY <1>2, <1>3, <1>4, PinTyped DEF IInv, Typed, Only
  <1>6. ASSUME NEW c \in Codes PROVE RowFits(c)'
    <2>1. RowFits(c) /\ pin \in [Codes -> PinRow \cup {Absent}]
      BY DEF IInv, Typed
    <2>2. pin'[c] = pin[c] \/ (c = e /\ pin[c] = Absent /\ pin'[c] = Pin(0, 0, 0))
      BY <1>4, <2>1
    <2>3. e \notin destroyed
      BY <1>4 DEF IInv, PurgeRecorded
    <2> QED
      BY <1>4, <2>1, <2>2, <2>3, PinTyped, AbsentIsNoRow DEF RowFits, Untried
  <1>7. \A s \in Slots : req'[s].pc \in Purging => req'[s] = req[s]
    BY <1>2, <1>3 DEF Only
  <1> QED
    BY <1>4, <1>5, <1>6, <1>7, Unpurged, SameRecords DEF IInv

LEMMA SavePinKeeps == ASSUME IInv, NEW r \in Slots, SavePin(r) PROVE IInv'
  <1> USE DEF attempts
  <1>1. PICK e \in Codes, hash \in Nat : req[r].code = e /\ req[r].hash = hash
    BY Shapes DEF SavePin, ResetRequest, IInv, Typed
  <1>2. Only(r, Free)
    BY FreeIsRequest, SlotGets DEF SavePin, End, IInv
  <1>3. CASE pin[e] = Absent
    BY <1>1, <1>2, <1>3, FreeIsRequest, QuietStep DEF SavePin, tables, IInv, Typed, Purging
  <1>4. CASE pin[e] # Absent
    <2>1. /\ pin' = [pin EXCEPT ![e] = Pin(hash, 0, 0)]
          /\ misses' = [misses EXCEPT ![e] = 0]
          /\ lockedAt' = [lockedAt EXCEPT ![e] = None]
          /\ lastTry' = [lastTry EXCEPT ![e] = None]
          /\ UNCHANGED <<now, staff, holds, purges, sent, given, destroyed, crossed>>
      BY <1>1, <1>4 DEF SavePin
    <2>2. Typed'
      BY <1>1, <1>2, <2>1, PinTyped DEF IInv, Typed, Only
    <2>3. ASSUME NEW c \in Codes PROVE RowFits(c)'
      <3>1. RowFits(c) /\ RowFits(e)
        BY <1>1 DEF IInv
      <3>2. /\ pin'[c] = IF c = e THEN Pin(hash, 0, 0) ELSE pin[c]
            /\ misses'[c] = IF c = e THEN 0 ELSE misses[c]
            /\ lockedAt'[c] = IF c = e THEN None ELSE lockedAt[c]
            /\ lastTry'[c] = IF c = e THEN None ELSE lastTry[c]
        BY <2>1 DEF IInv, Typed
      <3>3. CASE c = e
        <4>1. pin'[c] # Absent /\ staff'[c] # Absent
          BY <1>1, <1>4, <2>1, <3>1, <3>2, <3>3, PinTyped, AbsentIsNoRow DEF RowFits
        <4> QED
          BY <4>1 DEF RowFits
      <3>4. CASE c # e
        BY <2>1, <3>1, <3>2, <3>4 DEF RowFits, Untried
      <3> QED
        BY <3>3, <3>4
    <2>4. \A s \in Slots : req'[s].pc \in Purging => req'[s] = req[s]
      BY <1>2, FreeIsRequest DEF Only, Purging
    <2> QED
      BY <2>1, <2>2, <2>3, <2>4, Unpurged, SameRecords DEF IInv
  <1> QED
    BY <1>3, <1>4

LEMMA SaveAttemptsKeeps == ASSUME IInv, NEW r \in Slots, SaveAttempts(r) PROVE IInv'
  <1> USE DEF attempts
  <1>1. PICK e \in Codes, row \in PinRow : req[r].code = e /\ req[r].row = row
    BY Shapes DEF SaveAttempts, SaveRequest, IInv, Typed
  <1> PICK new : new = Pin(pin[e].hash, row.failed, row.until)
    OBVIOUS
  <1>2. Only(r, Free)
    BY FreeIsRequest, SlotGets DEF SaveAttempts, End, IInv
  <1>3. CASE pin[e] = Absent
    BY <1>1, <1>2, <1>3, FreeIsRequest, QuietStep DEF SaveAttempts, tables, IInv, Typed, Purging
  <1>4. CASE pin[e] # Absent
    <2>1. /\ pin' = [pin EXCEPT ![e] = new]
          /\ UNCHANGED <<now, staff, holds, purges, sent, given, attempts, destroyed, crossed>>
      BY <1>1, <1>4 DEF SaveAttempts
    <2>2. pin[e] \in PinRow
      BY <1>1, <1>4 DEF IInv, Typed
    <2>3. new \in PinRow /\ new.hash = pin[e].hash
      <3>1. row.failed \in Nat /\ row.until \in Nat /\ pin[e].hash \in Nat
        BY <1>1, <2>2 DEF PinRow
      <3> QED
        BY <3>1 DEF Pin, PinRow
    <2>4. Typed'
      BY <1>1, <1>2, <2>1, <2>3 DEF IInv, Typed, Only
    <2>5. ASSUME NEW c \in Codes PROVE RowFits(c)'
      <3>1. RowFits(c) /\ pin'[c] = IF c = e THEN new ELSE pin[c]
        BY <2>1 DEF IInv, Typed
      <3> QED
        BY <1>4, <2>1, <2>3, <3>1, AbsentIsNoRow DEF RowFits, Untried
    <2>6. \A s \in Slots : req'[s].pc \in Purging => req'[s] = req[s]
      BY <1>2, FreeIsRequest DEF Only, Purging
    <2> QED
      BY <2>1, <2>4, <2>5, <2>6, Unpurged, SameRecords DEF IInv
  <1> QED
    BY <1>3, <1>4

\* Verify changes what is counted only for who has a PIN.
LEMMA VerifyKeeps == ASSUME IInv, NEW r \in Slots, Verify(r) PROVE IInv'
  <1>1. PICK e \in Codes, at \in Nat : req[r].code = e /\ req[r].at = at
    BY Shapes DEF Verify, VerifyRequest, IInv, Typed
  <1> PICK right : right = (req[r].entry = pin[e].hash)
    OBVIOUS
  <1>2. UNCHANGED <<now, tables, sent, overlapped, given, destroyed, crossed>>
    BY DEF Verify
  <1>3. CASE End(r) /\ UNCHANGED attempts
    <2>1. Only(r, Free)
      BY <1>3, FreeIsRequest, SlotGets DEF End, IInv
    <2> QED
      BY <1>2, <1>3, <2>1, FreeIsRequest, QuietStep DEF Purging, IInv, Typed
  <1>4. CASE pin[e] # Absent /\ ~(End(r) /\ UNCHANGED attempts)
    <2>1. pin[e] \in PinRow
      BY <1>1, <1>4 DEF IInv, Typed
    <2> PICK missed : missed = AfterMiss(pin[e], at)
      OBVIOUS
    <2>2. missed \in PinRow
      <3>1. pin[e].hash \in Nat /\ pin[e].failed \in Nat /\ pin[e].until \in Nat
        BY <2>1 DEF PinRow
      <3>2. pin[e].failed + 1 \in Nat /\ at + Lockout \in Nat /\ 0 \in Nat
        BY <1>1, <3>1
      <3> QED
        BY <3>1, <3>2, PinTyped DEF AfterMiss
    <2>3. PICK q : /\ req' = [req EXCEPT ![r] = q]
                   /\ \/ q = [pc |-> "save", code |-> e, row |-> missed]
                      \/ q = [pc |-> "save", code |-> e, row |-> Pin(pin[e].hash, 0, 0)]
                      \/ q = Free
      BY <1>1, <1>4 DEF Verify
    <2>4. q \in Request /\ q.pc \notin Purging
      <3>1. Pin(pin[e].hash, 0, 0) \in PinRow
        BY <2>1, PinTyped DEF PinRow
      <3> QED
        BY <1>1, <2>2, <2>3, <3>1, FreeIsRequest DEF Request, SaveRequest, Purging
    <2>5. Only(r, q)
      BY <2>3, <2>4, SlotGets DEF IInv
    <2>6. \E misses_e \in Nat, locked_e \in Nat \cup {None}, try_e \in Nat \cup {None} :
             /\ misses' = [misses EXCEPT ![e] = misses_e]
             /\ lockedAt' = [lockedAt EXCEPT ![e] = locked_e]
             /\ lastTry' = [lastTry EXCEPT ![e] = try_e]
      <3> PICK locks : locks = (~right /\ misses[e] + 1 >= MaxAttempts)
        OBVIOUS
      <3> PICK m : m = IF right \/ locks THEN 0 ELSE misses[e] + 1
        OBVIOUS
      <3> PICK l : l = IF locks THEN at ELSE lockedAt[e]
        OBVIOUS
      <3> PICK t : t = IF locks \/ lockedAt[e] = None THEN None ELSE at
        OBVIOUS
      <3>1. /\ misses' = [misses EXCEPT ![e] = m]
            /\ lockedAt' = [lockedAt EXCEPT ![e] = l]
            /\ lastTry' = [lastTry EXCEPT ![e] = t]
        BY <1>1, <1>4 DEF Verify
      <3>2. misses[e] \in Nat /\ lockedAt[e] \in Nat \cup {None}
        BY DEF IInv, Typed
      <3>3. m \in Nat /\ l \in Nat \cup {None} /\ t \in Nat \cup {None}
        BY <1>1, <3>2
      <3> QED
        BY <3>1, <3>3
    <2>7. Typed'
      BY <1>2, <2>5, <2>6 DEF tables, IInv, Typed, Only
    <2>8. ASSUME NEW c \in Codes PROVE RowFits(c)'
      <3>1. RowFits(c) /\ (c = e \/ (misses'[c] = misses[c] /\ lockedAt'[c] = lockedAt[c] /\ lastTry'[c] = lastTry[c]))
        BY <2>6 DEF IInv, Typed
      <3> QED
        BY <1>2, <1>4, <3>1 DEF tables, RowFits, Untried
    <2>9. \A s \in Slots : req'[s].pc \in Purging => req'[s] = req[s]
      BY <2>4, <2>5 DEF Only
    <2> QED
      BY <1>2, <2>7, <2>8, <2>9, Unpurged, SameRecords DEF tables, IInv
  <1> QED
    BY <1>1, <1>3, <1>4 DEF Verify

-----------------------------------------------------------------------------
(* The clock, the console and the holds *)

LEMMA DaysPass ==
  ASSUME NEW t \in Nat PROVE (t + 1) \div DayLength >= t \div DayLength
  OBVIOUS

LEMMA TickKeeps == ASSUME IInv, Tick PROVE IInv'
  <1> USE DEF tables, attempts
  <1>1. /\ UNCHANGED <<tables, req, sent, given, destroyed, crossed, attempts>>
        /\ now \in Nat /\ now' = now + 1
    BY DEF Tick, IInv, Typed
  <1>2. Typed'
    BY <1>1 DEF IInv, Typed
  <1>3. ASSUME NEW s \in Slots, req[s].pc \in Purging PROVE GoesOn(s)
    <2>1. req[s] \in PurgeRequest
      BY <1>3, Shapes DEF IInv, Typed
    <2>2. ASSUME NEW e \in Codes, LeftLongAgo(e) PROVE LeftLongAgo(e)'
      <3>1. CASE staff[e] = Absent
        BY <1>1, <3>1 DEF LeftLongAgo
      <3>2. CASE staff[e] # Absent
        <4>1. PICK leave \in Nat : staff[e].leave = leave /\ leave <= (now \div DayLength) - Retain /\ leave # None
          BY <2>2, <3>2 DEF LeftLongAgo, Today, IInv, Typed, StaffRow
        <4>2. (now + 1) \div DayLength >= now \div DayLength
          BY <1>1, DaysPass
        <4>3. leave <= ((now + 1) \div DayLength) - Retain
          BY <1>1, <4>1, <4>2
        <4> QED
          BY <1>1, <4>1, <4>3 DEF LeftLongAgo, Today
      <3> QED
        BY <3>1, <3>2
    <2>3. Listing(req[s]) \subseteq Codes
      BY <2>1 DEF PurgeRequest, Listing
    <2> QED
      BY <1>1, <1>3, <2>2, <2>3 DEF GoesOn, IInv, PurgeFits
  <1>4. \A s \in Slots : GoesOn(s)
    BY <1>1, <1>3 DEF GoesOn
  <1> QED
    BY <1>1, <1>2, <1>4, PurgesGoOn, StillApart, SameRows, SameRecords DEF IInv

LEMMA PlaceHoldKeeps == ASSUME IInv, NEW e \in Codes, PlaceHold(e) PROVE IInv'
  <1> USE DEF attempts
  <1>1. /\ UNCHANGED <<now, staff, pin, purges, req, sent, given, destroyed, crossed, attempts>>
        /\ holds' = holds \cup {e}
    BY DEF PlaceHold
  <1>2. Typed'
    BY <1>1 DEF IInv, Typed
  <1>3. \A s \in Slots : GoesOn(s)
    BY <1>1 DEF GoesOn, LeftLongAgo, Today, IInv, PurgeFits
  <1> QED
    BY <1>1, <1>2, <1>3, PurgesGoOn, StillApart, SameRows, SameRecords DEF IInv

\* What a run knows changes when a hold is released or a leave date moves.
LEMMA Learns ==
  ASSUME NEW q \in PurgeRequest, NEW e \in Codes
  PROVE  /\ [q EXCEPT !.heldSince = @ \ {e}] \in PurgeRequest
         /\ [q EXCEPT !.heldSince = @ \ {e}].pc = q.pc
         /\ Listing([q EXCEPT !.heldSince = @ \ {e}]) = Listing(q)
         /\ [q EXCEPT !.heldSince = @ \ {e}].due = q.due
         /\ [q EXCEPT !.heldSince = @ \ {e}].heldSince = q.heldSince \ {e}
         /\ [q EXCEPT !.heldSince = @ \ {e}].moved = q.moved
         /\ [q EXCEPT !.moved = @ \cup {e}] \in PurgeRequest
         /\ [q EXCEPT !.moved = @ \cup {e}].pc = q.pc
         /\ Listing([q EXCEPT !.moved = @ \cup {e}]) = Listing(q)
         /\ [q EXCEPT !.moved = @ \cup {e}].due = q.due
         /\ [q EXCEPT !.moved = @ \cup {e}].heldSince = q.heldSince
         /\ [q EXCEPT !.moved = @ \cup {e}].moved = q.moved \cup {e}
  BY DEF PurgeRequest, Listing

LEMMA ReleaseHoldKeeps == ASSUME IInv, NEW e \in Codes, ReleaseHold(e) PROVE IInv'
  <1> USE DEF attempts
  <1>1. /\ UNCHANGED <<now, staff, pin, purges, sent, given, destroyed, crossed, attempts>>
        /\ holds' = holds \ {e}
        /\ req' = [s \in Slots |-> IF req[s].pc \in Purging
                                   THEN [req[s] EXCEPT !.heldSince = @ \ {e}] ELSE req[s]]
    BY DEF ReleaseHold, Purging
  <1>2. ASSUME NEW s \in Slots
        PROVE  req'[s] \in Request /\ GoesOn(s)
    <2>1. req[s] \in Request /\ PurgeFits(req[s])
      BY DEF IInv, Typed
    <2>2. CASE req[s].pc \in Purging
      <3> PICK p : p = [req[s] EXCEPT !.heldSince = @ \ {e}]
        OBVIOUS
      <3>1. req[s] \in PurgeRequest
        BY <2>1, <2>2, Shapes
      <3>2. /\ p \in PurgeRequest /\ p.pc = req[s].pc /\ Listing(p) = Listing(req[s]) /\ p.due = req[s].due
            /\ p.heldSince = req[s].heldSince \ {e} /\ p.moved = req[s].moved
        BY <3>1, Learns
      <3>3. req'[s] = p
        BY <1>1, <2>2
      <3> QED
        BY <1>1, <2>1, <2>2, <3>2, <3>3 DEF Request, GoesOn, PurgeFits, LeftLongAgo, Today
    <2>3. CASE req[s].pc \notin Purging
      BY <1>1, <2>1, <2>3 DEF GoesOn
    <2> QED
      BY <2>2, <2>3
  <1>3. Typed'
    BY <1>1, <1>2 DEF IInv, Typed
  <1> QED
    BY <1>1, <1>2, <1>3, PurgesGoOn, StillApart, SameRows, SameRecords DEF IInv

LEMMA SaveLeaveKeeps == ASSUME IInv, NEW r \in Slots, SaveLeave(r) PROVE IInv'
  <1> USE DEF attempts
  <1>1. PICK e \in Codes, day \in Nat : req[r].code = e /\ req[r].day = day
    BY Shapes DEF SaveLeave, LeaveRequest, IInv, Typed
  <1> PICK row : row = [staff[e] EXCEPT !.leave = day]
    OBVIOUS
  <1>2. /\ UNCHANGED <<now, pin, holds, purges, sent, given, destroyed, crossed, attempts>>
        /\ req' = [s \in Slots |-> IF s = r THEN Free
                                   ELSE IF req[s].pc \in Purging
                                   THEN [req[s] EXCEPT !.moved = @ \cup {e}] ELSE req[s]]
        /\ staff' = IF staff[e] = Absent THEN staff ELSE [staff EXCEPT ![e] = row]
    BY <1>1 DEF SaveLeave, Purging
  <1>3. staff[e] # Absent => row \in StaffRow
    BY DEF IInv, Typed, StaffRow
  <1>4. ASSUME NEW c \in Codes
        PROVE  /\ staff'[c] \in StaffRow \cup {Absent}
               /\ staff'[c] = Absent <=> staff[c] = Absent
               /\ c # e => staff'[c] = staff[c]
    BY <1>2, <1>3, AbsentIsNoRow DEF IInv, Typed
  <1>5. ASSUME NEW s \in Slots
        PROVE  req'[s] \in Request /\ GoesOn(s)
    <2>1. req[s] \in Request /\ PurgeFits(req[s])
      BY DEF IInv, Typed
    <2>2. CASE req[s].pc \in Purging /\ s # r
      <3> PICK p : p = [req[s] EXCEPT !.moved = @ \cup {e}]
        OBVIOUS
      <3>1. req[s] \in PurgeRequest
        BY <2>1, <2>2, Shapes
      <3>2. /\ p \in PurgeRequest /\ p.pc = req[s].pc /\ Listing(p) = Listing(req[s]) /\ p.due = req[s].due
            /\ p.heldSince = req[s].heldSince /\ p.moved = req[s].moved \cup {e}
        BY <3>1, Learns
      <3>3. req'[s] = p /\ Listing(p) \subseteq Codes
        BY <1>2, <2>2, <3>2 DEF PurgeRequest, Listing
      <3>4. p \in Request
        BY <3>2 DEF Request
      <3>5. GoesOn(s)
        BY <1>2, <1>4, <2>1, <2>2, <3>2, <3>3 DEF GoesOn, PurgeFits, LeftLongAgo, Today
      <3> QED
        BY <3>3, <3>4, <3>5
    <2>3. CASE s = r
      BY <1>2, <2>3, FreeIsRequest DEF GoesOn, Purging
    <2>4. CASE req[s].pc \notin Purging /\ s # r
      BY <1>2, <2>1, <2>4 DEF GoesOn
    <2> QED
      BY <2>2, <2>3, <2>4
  <1>6. Typed'
    <2>1. staff' \in [Codes -> StaffRow \cup {Absent}]
      BY <1>2, <1>3 DEF IInv, Typed
    <2> QED
      BY <1>2, <1>5, <2>1 DEF IInv, Typed
  <1>7. \A c \in Codes : RowFits(c)'
    BY <1>2, <1>4 DEF IInv, RowFits, Untried
  <1>8. PurgeRecorded'
    BY <1>2, <1>4 DEF IInv, PurgeRecorded
  <1> QED
    BY <1>2, <1>5, <1>6, <1>7, <1>8, PurgesGoOn, StillApart DEF IInv

LEMMA ReferKeeps == ASSUME IInv, NEW e \in Codes, Refer(e) PROVE IInv'
  <1> USE DEF attempts
  <1> PICK row : row = [staff[e] EXCEPT !.referred = TRUE]
    OBVIOUS
  <1>1. /\ UNCHANGED <<now, pin, holds, purges, req, sent, given, destroyed, crossed, attempts>>
        /\ staff' = [staff EXCEPT ![e] = row] /\ staff[e] # Absent
    BY DEF Refer
  <1>2. row \in StaffRow /\ row.leave = staff[e].leave
    BY <1>1 DEF IInv, Typed, StaffRow
  <1>3. ASSUME NEW c \in Codes
        PROVE  /\ staff'[c] = Absent <=> staff[c] = Absent
               /\ LeftLongAgo(c) => LeftLongAgo(c)'
    BY <1>1, <1>2, AbsentIsNoRow DEF IInv, Typed, LeftLongAgo, Today
  <1>4. ASSUME NEW s \in Slots, req[s].pc \in Purging PROVE GoesOn(s)
    <2>1. Listing(req[s]) \subseteq Codes
      BY <1>4, Shapes DEF IInv, Typed, PurgeRequest, Listing
    <2> QED
      BY <1>1, <1>3, <1>4, <2>1 DEF GoesOn, IInv, PurgeFits
  <1>5. \A s \in Slots : GoesOn(s)
    BY <1>1, <1>4 DEF GoesOn
  <1>6. Typed'
    BY <1>1, <1>2 DEF IInv, Typed
  <1>7. \A c \in Codes : RowFits(c)'
    BY <1>1, <1>3 DEF IInv, RowFits, Untried
  <1>8. PurgeRecorded'
    BY <1>1, <1>3 DEF IInv, PurgeRecorded
  <1> QED
    BY <1>1, <1>5, <1>6, <1>7, <1>8, PurgesGoOn, StillApart DEF IInv

LEMMA CreateKeeps ==
  ASSUME IInv, NEW r \in Slots, NEW e \in Codes, NEW withPin \in BOOLEAN, Create(r, e, withPin)
  PROVE  IInv'
  <1> USE DEF attempts
  <1> PICK row : row = Person(None, TRUE)
    OBVIOUS
  <1> PICK new : new = Pin(NewPin, 0, 0)
    OBVIOUS
  <1>1. /\ UNCHANGED <<now, holds, purges, req, destroyed, crossed, attempts>>
        /\ staff' = [staff EXCEPT ![e] = row] /\ staff[e] = Absent /\ e \notin destroyed
        /\ sent' = sent + 1
        /\ \/ pin' = [pin EXCEPT ![e] = new] /\ given' = [given EXCEPT ![e] = NewPin]
           \/ UNCHANGED <<pin, given>>
    BY DEF Create
  <1>2. row \in StaffRow
    BY NewPerson
  <1>3. sent + 1 \in Nat /\ NewPin \in Nat /\ new \in PinRow
    <2>1. sent + 1 \in Nat /\ NewPin \in Nat
      BY DEF IInv, Typed, NewPin
    <2> QED
      BY <2>1 DEF Pin, PinRow
  <1>4. Typed'
    <2>1. staff' \in [Codes -> StaffRow \cup {Absent}]
      BY <1>1, <1>2 DEF IInv, Typed
    <2>2. pin' \in [Codes -> PinRow \cup {Absent}] /\ given' \in [Codes -> Nat]
      BY <1>1, <1>3 DEF IInv, Typed
    <2> QED
      BY <1>1, <1>3, <2>1, <2>2 DEF IInv, Typed
  <1>5. ASSUME NEW c \in Codes, c # e PROVE staff'[c] = staff[c]
    BY <1>1, <1>5 DEF IInv, Typed
  <1>6. staff'[e] # Absent
    BY <1>1, <1>2, AbsentIsNoRow DEF IInv, Typed
  <1>7. ASSUME NEW c \in Codes PROVE RowFits(c)'
    <2>1. /\ RowFits(c)
          /\ UNCHANGED <<misses[c], lockedAt[c], lastTry[c]>>
          /\ UNCHANGED pin[c] \/ (c = e /\ pin'[c] = new)
      BY <1>1 DEF IInv, Typed
    <2> QED
      BY <1>1, <1>3, <1>5, <1>6, <2>1, AbsentIsNoRow DEF RowFits, Untried
  <1>8. ASSUME NEW s \in Slots, req[s].pc \in Purging PROVE GoesOn(s)
    <2>1. Listing(req[s]) \subseteq Codes /\ PurgeFits(req[s])
      BY <1>8, Shapes DEF IInv, Typed, PurgeRequest, Listing
    <2>2. e \notin Listing(req[s])
      BY <1>1, <1>8, <2>1 DEF PurgeFits
    <2> QED
      BY <1>1, <1>5, <1>8, <2>1, <2>2 DEF GoesOn, PurgeFits, LeftLongAgo, Today
  <1>9. \A s \in Slots : GoesOn(s)
    BY <1>1, <1>8 DEF GoesOn
  <1>10. PurgeRecorded'
    BY <1>1, <1>5 DEF IInv, PurgeRecorded
  <1> QED
    BY <1>1, <1>4, <1>7, <1>9, <1>10, PurgesGoOn, StillApart DEF IInv

-----------------------------------------------------------------------------
(* purge_expired *)

\* One step of a run that lists nobody new.
LEMMA RunGoesOn ==
  ASSUME IInv, UNCHANGED <<now, tables, sent, given, destroyed, crossed, attempts>>,
         NEW r \in Slots, req[r].pc \in Purging, NEW q \in Request, Only(r, q),
         q.pc \in Purging => /\ Listing(q) \subseteq Listing(req[r])
                             /\ q.heldSince = req[r].heldSince /\ q.moved = req[r].moved
                             /\ q.heldSince \cap q.due = {}
  PROVE  IInv'
  <1> USE DEF tables, attempts
  <1>1. Typed'
    BY DEF IInv, Typed, Only
  <1>2. ASSUME NEW s \in Slots PROVE GoesOn(s)
    <2>1. PurgeFits(req[s]) /\ PurgeFits(req[r]) /\ req'[s] = IF s = r THEN q ELSE req[s]
      BY DEF IInv, Only
    <2> QED
      BY <2>1 DEF GoesOn, PurgeFits, LeftLongAgo, Today
  <1> QED
    BY <1>1, <1>2, PurgesGoOn, StillApart, SameRows, SameRecords DEF IInv

LEMMA CheckHoldKeeps == ASSUME IInv, NEW r \in Slots, NEW e \in Codes, CheckHold(r, e) PROVE IInv'
  <1>1. req[r] \in PurgeRequest /\ PurgeFits(req[r]) /\ req[r].pc = "held" /\ e \in req[r].todo
    BY Shapes DEF CheckHold, IInv, Typed, Purging
  <1> PICK due : due = IF HasActiveHold(e) THEN req[r].due ELSE req[r].due \cup {e}
    OBVIOUS
  <1> PICK todo : todo = req[r].todo \ {e}
    OBVIOUS
  <1> PICK q : q = [req[r] EXCEPT !.todo = todo, !.due = due]
    OBVIOUS
  <1>2. /\ q \in PurgeRequest /\ q.pc = "held" /\ q.todo = todo /\ q.due = due
        /\ q.heldSince = req[r].heldSince /\ q.moved = req[r].moved
    <2>1. todo \in SUBSET Codes /\ due \in SUBSET Codes
      BY <1>1 DEF PurgeRequest
    <2> QED
      BY <1>1, <2>1 DEF PurgeRequest
  <1>3. req' = [req EXCEPT ![r] = q]
    BY DEF CheckHold
  <1>4. q \in Request
    BY <1>2 DEF Request
  <1>5. Listing(q) \subseteq Listing(req[r]) /\ q.heldSince \cap q.due = {}
    BY <1>1, <1>2 DEF Listing, PurgeFits, Purging, HasActiveHold
  <1>6. Only(r, q)
    BY <1>3, <1>4, SlotGets DEF IInv
  <1> QED
    BY <1>1, <1>2, <1>4, <1>5, <1>6, RunGoesOn DEF CheckHold, Purging

LEMMA ListedKeeps == ASSUME IInv, NEW r \in Slots, Listed(r) \/ Purged(r) PROVE IInv'
  <1>1. req[r] \in PurgeRequest /\ PurgeFits(req[r]) /\ req[r].pc \in Purging
    BY Shapes DEF Listed, Purged, IInv, Typed, Purging
  <1>2. UNCHANGED <<now, tables, sent, given, destroyed, crossed, attempts>>
    BY DEF Listed, Purged
  <1>3. CASE End(r)
    <2>1. Only(r, Free)
      BY <1>3, FreeIsRequest, SlotGets DEF End, IInv
    <2> QED
      BY <1>1, <1>2, <2>1, FreeIsRequest, RunGoesOn DEF Purging
  <1>4. CASE Listed(r) /\ req' = [req EXCEPT ![r].pc = "delete"]
    <2> PICK q : q = [req[r] EXCEPT !.pc = "delete"]
      OBVIOUS
    <2>1. /\ q \in PurgeRequest /\ q.pc = "delete" /\ q.due = req[r].due
          /\ q.heldSince = req[r].heldSince /\ q.moved = req[r].moved
      BY <1>1 DEF PurgeRequest, Purging
    <2>2. req' = [req EXCEPT ![r] = q] /\ q \in Request
      BY <1>4, <2>1 DEF Request
    <2>3. Listing(q) \subseteq Listing(req[r]) /\ q.heldSince \cap q.due = {}
      BY <1>1, <2>1 DEF Listing, PurgeFits
    <2>4. Only(r, q)
      BY <2>2, SlotGets DEF IInv
    <2> QED
      BY <1>1, <1>2, <2>1, <2>2, <2>3, <2>4, RunGoesOn
  <1> QED
    BY <1>3, <1>4 DEF Listed, Purged

LEMMA PurgeKeeps == ASSUME IInv, NEW r \in Slots, Purge(r) PROVE IInv'
  <1> USE DEF tables, attempts
  <1> PICK todo : todo = {e \in Codes : Due(e)}
    OBVIOUS
  <1> PICK q : q = [pc |-> "held", todo |-> todo, due |-> {}, heldSince |-> holds, moved |-> {}]
    OBVIOUS
  <1>1. /\ q \in PurgeRequest /\ q.pc = "held" /\ q.todo = todo /\ q.due = {} /\ q.heldSince = holds
        /\ q \in Request
    BY DEF PurgeRequest, Purging, Request, IInv, Typed
  <1>2. /\ Only(r, q) /\ sent' \in Nat
        /\ crossed' = (crossed \/ \E s \in Slots : req[s].pc \in Purging)
        /\ UNCHANGED <<now, staff, pin, holds, purges, given, destroyed, attempts>>
    BY <1>1, Arrives DEF Purge, Purging
  <1>3. Typed'
    BY <1>2 DEF IInv, Typed, Only
  <1>4. ASSUME NEW e \in Codes, e \in todo PROVE e \notin destroyed /\ staff[e] # Absent /\ LeftLongAgo(e)
    BY <1>4 DEF Due, LeftLongAgo, IInv, PurgeRecorded
  <1>5. ASSUME NEW s \in Slots PROVE PurgeFits(req[s])'
    <2>1. CASE s = r
      <3>1. req'[s] = q /\ Listing(q) = todo /\ todo \subseteq Codes
        BY <1>1, <1>2, <2>1 DEF Only, Listing
      <3> QED
        BY <1>1, <1>2, <1>4, <3>1 DEF PurgeFits, LeftLongAgo, Today
    <2>2. CASE s # r
      <3>1. req'[s] = req[s] /\ PurgeFits(req[s])
        BY <1>2, <2>2 DEF Only, IInv
      <3> QED
        BY <1>2, <3>1 DEF PurgeFits, LeftLongAgo, Today
    <2> QED
      BY <2>1, <2>2
  <1>6. ASSUME ~crossed' PROVE PurgesApart'
    <2>1. \A s \in Slots : req[s].pc \notin Purging
      BY <1>2, <1>6
    <2>2. Listing(q) = todo /\ todo \subseteq Codes
      BY <1>1 DEF Listing
    <2> QED
      BY <1>2, <1>4, <2>1, <2>2 DEF PurgesApart, Only
  <1>7. PurgeRecorded'
    BY <1>2 DEF IInv, PurgeRecorded
  <1> QED
    BY <1>2, <1>3, <1>5, <1>6, <1>7, SameRows DEF IInv

LEMMA DestroyKeeps == ASSUME IInv, NEW r \in Slots, NEW e \in Codes, Destroy(r, e) PROVE IInv'
  <1> USE DEF tables, attempts
  <1>1. req[r] \in PurgeRequest /\ PurgeFits(req[r]) /\ req[r].pc = "delete" /\ e \in req[r].due
    BY Shapes DEF Destroy, IInv, Typed, Purging
  <1>2. UNCHANGED <<now, holds, sent, overlapped, given, crossed, attempts>>
    BY DEF Destroy
  <1>3. CASE End(r) /\ UNCHANGED <<staff, pin, purges, destroyed>>
    <2>1. Only(r, Free)
      BY <1>3, FreeIsRequest, SlotGets DEF End, IInv
    <2> QED
      BY <1>1, <1>2, <1>3, <2>1, FreeIsRequest, RunGoesOn DEF Purging
  <1>4. CASE /\ staff' = [staff EXCEPT ![e] = Absent]
             /\ pin' = [pin EXCEPT ![e] = Absent]
             /\ destroyed' = destroyed \cup {e}
             /\ Recorded(e)
             /\ req' = [req EXCEPT ![r].due = @ \ {e}]
    <2> PICK due : due = req[r].due \ {e}
      OBVIOUS
    <2> PICK q : q = [req[r] EXCEPT !.due = due]
      OBVIOUS
    <2>1. /\ q \in PurgeRequest /\ q.pc = "delete" /\ q.due = due
          /\ q.heldSince = req[r].heldSince /\ q.moved = req[r].moved
      <3>1. due \in SUBSET Codes
        BY <1>1 DEF PurgeRequest
      <3> QED
        BY <1>1, <3>1 DEF PurgeRequest
    <2>2. req' = [req EXCEPT ![r] = q] /\ q \in Request
      BY <1>4, <2>1 DEF Request
    <2>3. Only(r, q)
      BY <2>2, SlotGets DEF IInv
    <2>4. purges' = [purges EXCEPT ![e] = @ + 1]
      BY <1>4 DEF Recorded
    <2>5. Typed'
      BY <1>2, <1>4, <2>3, <2>4 DEF IInv, Typed, Only
    <2>6. ASSUME NEW c \in Codes
          PROVE  /\ staff'[c] = IF c = e THEN Absent ELSE staff[c]
                 /\ pin'[c] = IF c = e THEN Absent ELSE pin[c]
                 /\ purges'[c] = IF c = e THEN purges[e] + 1 ELSE purges[c]
      BY <1>4, <2>4 DEF IInv, Typed
    <2>7. ASSUME NEW c \in Codes PROVE RowFits(c)'
      BY <1>2, <1>4, <2>6 DEF IInv, RowFits, Untried
    <2>8. ASSUME NEW s \in Slots PROVE GoesOn(s)
      <3>1. PurgeFits(req[s]) /\ req'[s] = IF s = r THEN q ELSE req[s]
        BY <2>3 DEF IInv, Only
      <3>2. req[s].pc \in Purging => Listing(req[s]) \subseteq Codes
        BY Shapes DEF IInv, Typed, PurgeRequest, Listing
      <3>3. Listing(q) = req[r].due \ {e} /\ Listing(req[r]) = req[r].due
        BY <1>1, <2>1 DEF Listing
      <3>4. ASSUME NEW c \in Codes
            PROVE  /\ staff[c] # Absent => staff'[c] # Absent \/ c \in destroyed'
                   /\ LeftLongAgo(c) => LeftLongAgo(c)'
        BY <1>2, <1>4, <2>6 DEF LeftLongAgo, Today
      <3>5. CASE s = r
        BY <1>1, <1>2, <2>1, <3>1, <3>2, <3>3, <3>4, <3>5, SMTT(30) DEF GoesOn, PurgeFits, Purging
      <3>6. CASE s # r
        BY <1>2, <3>1, <3>2, <3>4, <3>6 DEF GoesOn, PurgeFits
      <3> QED
        BY <3>5, <3>6
    <2>9. ASSUME ~crossed'
          PROVE  e \notin destroyed /\ PurgesApart'
      <3>1. PurgesApart
        BY <1>2, <2>9 DEF IInv
      <3>2. e \notin destroyed
        BY <1>1, <3>1 DEF PurgesApart, Listing, Purging
      <3>3. \A s \in Slots : req'[s].pc \in Purging => s = r
        BY <1>1, <2>3, <3>1 DEF Only, PurgesApart, Purging
      <3>4. Listing(q) = req[r].due \ {e} /\ Listing(req[r]) = req[r].due
        BY <1>1, <2>1 DEF Listing
      <3>5. req'[r] = q
        BY <2>3 DEF Only
      <3>6. \A c \in Listing(q) : c \notin destroyed'
        BY <1>1, <1>4, <3>1, <3>4 DEF PurgesApart, Purging
      <3> QED
        BY <3>2, <3>3, <3>5, <3>6 DEF PurgesApart
    <2>10. PurgeRecorded'
      <3> SUFFICES ASSUME NEW c \in Codes
                   PROVE  /\ c \in destroyed' <=> purges'[c] > 0
                          /\ purges'[c] > 1 => crossed'
                          /\ c \in destroyed' => staff'[c] = Absent
        BY DEF PurgeRecorded
      <3>1. /\ c \in destroyed <=> purges[c] > 0
            /\ purges[c] > 1 => crossed
            /\ c \in destroyed => staff[c] = Absent
            /\ purges[c] \in Nat
        BY DEF IInv, PurgeRecorded, Typed
      <3> QED
        BY <1>2, <1>4, <2>6, <2>9, <3>1
    <2> QED
      BY <1>4, <2>5, <2>7, <2>8, <2>9, <2>10, PurgesGoOn DEF IInv
  <1> QED
    BY <1>3, <1>4 DEF Destroy

-----------------------------------------------------------------------------
(* Results *)

\* Every action keeps the invariant.
THEOREM NextInv == IInv /\ [Next]_vars => IInv'
  <1> SUFFICES ASSUME IInv, [Next]_vars PROVE IInv'
    OBVIOUS
  <1>1. CASE UNCHANGED vars
    BY <1>1 DEF vars, tables, attempts, IInv, Typed, RowFits, Untried, PurgeFits, LeftLongAgo, Today,
                PurgesApart, PurgeRecorded
  <1>2. ASSUME NEW e \in Codes, Refer(e) \/ PlaceHold(e) \/ ReleaseHold(e) PROVE IInv'
    BY <1>2, ReferKeeps, PlaceHoldKeeps, ReleaseHoldKeeps
  <1>3. ASSUME NEW r \in Slots, NEW e \in Codes, NEW withPin \in BOOLEAN, Create(r, e, withPin) PROVE IInv'
    BY <1>3, CreateKeeps
  <1>4. ASSUME NEW r \in Slots, NEW e \in Codes, NEW day \in Days, Terminate(r, e, day) PROVE IInv'
    BY <1>4, TerminateKeeps
  <1>5. ASSUME NEW r \in Slots, NEW e \in Codes, NEW entry \in Entries(e), Unlock(r, e, entry)
        PROVE  IInv'
    BY <1>5, UnlockKeeps
  <1>6. ASSUME NEW r \in Slots, NEW e \in Codes, Reset(r, e) \/ CheckHold(r, e) \/ Destroy(r, e)
        PROVE  IInv'
    BY <1>6, ResetKeeps, CheckHoldKeeps, DestroyKeeps
  <1>7. ASSUME NEW r \in Slots, SavePin(r) \/ SaveLeave(r) \/ Verify(r) \/ SaveAttempts(r) \/ Purge(r)
                                 \/ Listed(r) \/ Purged(r)
        PROVE  IInv'
    BY <1>7, SavePinKeeps, SaveLeaveKeeps, VerifyKeeps, SaveAttemptsKeeps, PurgeKeeps, ListedKeeps
  <1> QED
    BY <1>1, <1>2, <1>3, <1>4, <1>5, <1>6, <1>7, TickKeeps DEF Next

\* It holds in every behaviour.
THEOREM Invariant == Spec => []IInv
  BY InitInv, NextInv, PTL DEF Spec

\* However purges overlap or end half-way (retention.py): an employee's data is
\* gone if and only if the log says so, and says so once for each run at most.
THEOREM PurgeRecordedHolds == Spec => []PurgeRecorded
  <1>1. IInv => PurgeRecorded
    BY DEF IInv
  <1> QED
    BY <1>1, Invariant, PTL

\* Whatever the console does while a purge works through its list: it destroys
\* nobody whom a hold has protected since it started, nor anybody whose leave
\* date is not long past, unless the date has moved since.
THEOREM DestroyedOnlyIfDueHolds == Spec => DestroyedOnlyIfDue
  <1> DEFINE Fits == \A r \in Slots, e \in Codes :
               staff[e] # Absent /\ staff'[e] = Absent /\ req[r].pc = "delete" /\ req'[r] # req[r] =>
                 /\ e \notin req[r].heldSince
                 /\ e \notin req[r].moved => Due(e)
  <1>1. IInv /\ [Next]_vars => [Fits]_vars
    <2> SUFFICES ASSUME IInv, Next, NEW r \in Slots, NEW e \in Codes,
                        staff[e] # Absent, staff'[e] = Absent, req[r].pc = "delete", req'[r] # req[r]
                 PROVE  e \notin req[r].heldSince /\ (e \notin req[r].moved => Due(e))
      OBVIOUS
    <2>1. staff' # staff
      OBVIOUS
    <2>2. \E s \in Slots, c \in Codes : Destroy(s, c)
      <3>1. ASSUME NEW c \in Codes, Refer(c) PROVE FALSE
        <4>1. staff'[e] # Absent
          <5> PICK row : row = [staff[c] EXCEPT !.referred = TRUE]
            OBVIOUS
          <5>1. staff' = [staff EXCEPT ![c] = row] /\ row \in StaffRow
            BY <3>1 DEF Refer, IInv, Typed, StaffRow
          <5> QED
            BY <5>1, AbsentIsNoRow DEF IInv, Typed
        <4> QED
          BY <4>1
      <3>2. ASSUME NEW s \in Slots, SaveLeave(s) PROVE FALSE
        <4>1. PICK c \in Codes, day \in Nat : req[s].code = c /\ req[s].day = day
          BY <3>2, Shapes DEF SaveLeave, LeaveRequest, IInv, Typed
        <4> PICK row : row = [staff[c] EXCEPT !.leave = day]
          OBVIOUS
        <4>2. staff[c] # Absent /\ staff' = [staff EXCEPT ![c] = row]
          BY <2>1, <3>2, <4>1 DEF SaveLeave
        <4>3. row \in StaffRow
          BY <4>1, <4>2 DEF IInv, Typed, StaffRow
        <4> QED
          BY <4>2, <4>3, AbsentIsNoRow DEF IInv, Typed
      <3>3. ASSUME NEW s \in Slots, NEW c \in Codes, NEW withPin \in BOOLEAN, Create(s, c, withPin)
            PROVE  FALSE
        BY <3>3, NewPerson, AbsentIsNoRow DEF Create, IInv, Typed
      <3> USE <2>1 DEF tables
      <3>4. ~Tick
        BY DEF Tick
      <3>5. ASSUME NEW c \in Codes PROVE ~(PlaceHold(c) \/ ReleaseHold(c))
        BY DEF PlaceHold, ReleaseHold
      <3>6. ASSUME NEW s \in Slots, NEW c \in Codes PROVE ~(Reset(s, c) \/ CheckHold(s, c))
        BY DEF Reset, CheckHold
      <3>7. ASSUME NEW s \in Slots, NEW c \in Codes, NEW x PROVE ~(Terminate(s, c, x) \/ Unlock(s, c, x))
        BY DEF Terminate, Unlock
      <3>8. ASSUME NEW s \in Slots PROVE ~(SavePin(s) \/ Verify(s) \/ SaveAttempts(s))
        BY DEF SavePin, Verify, SaveAttempts
      <3>9. ASSUME NEW s \in Slots PROVE ~(Purge(s) \/ Listed(s) \/ Purged(s))
        BY DEF Purge, Listed, Purged
      <3> HIDE <2>1 DEF tables
      <3> QED
        BY <3>1, <3>2, <3>3, <3>4, <3>5, <3>6, <3>7, <3>8, <3>9, Zenon DEF Next
    <2>3. PICK s \in Slots, c \in Codes : Destroy(s, c)
      BY <2>2
    <2>4. staff' = [staff EXCEPT ![c] = Absent] /\ c \in req[s].due
      BY <2>1, <2>3 DEF Destroy
    <2>5. c = e
      BY <2>4 DEF IInv, Typed
    <2>6. s = r
      BY <2>3 DEF Destroy, End, IInv, Typed
    <2>7. PurgeFits(req[r]) /\ e \in Listing(req[r])
      BY <2>4, <2>5, <2>6 DEF IInv, Listing
    <2> QED
      BY <2>4, <2>5, <2>6, <2>7 DEF PurgeFits, Purging, LeftLongAgo, Due
  <1> QED
    BY <1>1, Invariant, PTL DEF Spec, DestroyedOnlyIfDue

-----------------------------------------------------------------------------
(* The PIN that is stored *)

\* While the resets of an employee do not overlap, the one under way saves the
\* PIN generated last, and if none is, it has been saved.
HashFits(e) ==
  /\ \A r \in Slots : Resetting(r, e) => staff[e] # Absent \/ e \in destroyed
  /\ e \notin raced =>
       /\ \A r, s \in Slots : Resetting(r, e) /\ Resetting(s, e) => r = s
       /\ \A r \in Slots : Resetting(r, e) => req[r].hash = given[e]
       /\ pin[e] # Absent /\ (\A r \in Slots : ~Resetting(r, e)) => pin[e].hash = given[e]

PinsFit == \A e \in Codes : HashFits(e)

LEMMA InitPins == Init => PinsFit
  <1> SUFFICES ASSUME Init, NEW e \in Codes PROVE HashFits(e)
    BY DEF PinsFit
  <1>1. \A r \in Slots : ~Resetting(r, e)
    BY DEF Init, Resetting, Free
  <1>2. pin[e] # Absent => pin[e].hash = given[e]
    BY DEF Init, Pin, FirstPin, NoPin
  <1> QED
    BY <1>1, <1>2 DEF HashFits

\* Steps that reset no PIN, and give and change none.
LEMMA PinStays ==
  ASSUME PinsFit, UNCHANGED <<given, raced>>,
         \A s \in Slots : req[s].pc = "reset" \/ req'[s].pc = "reset" => req'[s] = req[s],
         \A c \in Codes : staff[c] # Absent \/ c \in destroyed => staff'[c] # Absent \/ c \in destroyed',
         \A c \in Codes : pin'[c] # Absent => pin[c] # Absent /\ pin'[c].hash = pin[c].hash
  PROVE  PinsFit'
  <1> SUFFICES ASSUME NEW e \in Codes PROVE HashFits(e)'
    BY DEF PinsFit
  <1>1. HashFits(e)
    BY DEF PinsFit
  <1>2. \A s \in Slots : req'[s].pc = "reset" \/ req[s].pc = "reset" => req'[s] = req[s]
    OBVIOUS
  <1>3. /\ given'[e] = given[e] /\ (e \in raced' <=> e \in raced)
        /\ staff[e] # Absent \/ e \in destroyed => staff'[e] # Absent \/ e \in destroyed'
        /\ pin'[e] # Absent => pin[e] # Absent /\ pin'[e].hash = pin[e].hash
    OBVIOUS
  <1>4. \A s \in Slots : Resetting(s, e)' => staff'[e] # Absent \/ e \in destroyed'
    BY <1>1, <1>2, <1>3 DEF HashFits, Resetting
  <1>5. ASSUME e \notin raced'
        PROVE  /\ \A r, s \in Slots : Resetting(r, e)' /\ Resetting(s, e)' => r = s
               /\ \A r \in Slots : Resetting(r, e)' => req'[r].hash = given'[e]
    BY <1>1, <1>2, <1>3, <1>5 DEF HashFits, Resetting
  <1>6. ASSUME e \notin raced', pin'[e] # Absent, \A r \in Slots : ~Resetting(r, e)'
        PROVE  pin'[e].hash = given'[e]
    BY <1>1, <1>2, <1>3, <1>6 DEF HashFits, Resetting
  <1> QED
    BY <1>4, <1>5, <1>6 DEF HashFits

LEMMA ResetPins ==
  ASSUME IInv, PinsFit, NEW r \in Slots, NEW e \in Codes, Reset(r, e)
  PROVE  PinsFit'
  <1> PICK q : q = [pc |-> "reset", code |-> e, hash |-> NewPin]
    OBVIOUS
  <1>1. /\ q.pc = "reset" /\ q.code = e /\ q.hash = NewPin /\ NewPin \in Nat
        /\ q \in Request
    BY DEF Request, ResetRequest, NewPin, IInv, Typed
  <1>2. Only(r, q) /\ req[r] = Free
    BY <1>1, Arrives DEF Reset
  <1>3. /\ given' = [given EXCEPT ![e] = NewPin] /\ staff' = staff /\ destroyed' = destroyed
        /\ raced' = IF \E s \in Slots : Resetting(s, e) THEN raced \cup {e} ELSE raced \ {e}
        /\ pin' = IF pin[e] = Absent THEN [pin EXCEPT ![e] = Pin(NoPin, 0, 0)] ELSE pin
        /\ staff[e] # Absent
    BY DEF Reset
  <1>4. ASSUME NEW c \in Codes PROVE HashFits(c)'
    <2>1. HashFits(c) /\ given'[c] = IF c = e THEN NewPin ELSE given[c]
      BY <1>3 DEF PinsFit, IInv, Typed
    <2>2. ASSUME NEW s \in Slots
          PROVE  /\ s # r => (Resetting(s, c)' <=> Resetting(s, c)) /\ req'[s] = req[s]
                 /\ Resetting(r, c)' <=> c = e
                 /\ ~Resetting(r, c)
      BY <1>1, <1>2, FreeIsRequest DEF Resetting, Only
    <2>3. CASE c = e
      BY <1>1, <1>2, <1>3, <2>1, <2>2, <2>3 DEF HashFits, Only
    <2>4. CASE c # e
      <3>1. pin'[c] = pin[c] /\ (c \in raced' <=> c \in raced)
        BY <1>3, <2>4 DEF IInv, Typed
      <3> QED
        BY <1>3, <2>1, <2>2, <2>4, <3>1 DEF HashFits
    <2> QED
      BY <2>3, <2>4
  <1> QED
    BY <1>4 DEF PinsFit

LEMMA SavePinPins == ASSUME IInv, PinsFit, NEW r \in Slots, SavePin(r) PROVE PinsFit'
  <1>1. PICK e \in Codes, hash \in Nat : req[r].code = e /\ req[r].hash = hash
    BY Shapes DEF SavePin, ResetRequest, IInv, Typed
  <1>2. Only(r, Free)
    BY FreeIsRequest, SlotGets DEF SavePin, End, IInv
  <1>3. /\ pin' = IF pin[e] = Absent THEN pin ELSE [pin EXCEPT ![e] = Pin(hash, 0, 0)]
        /\ UNCHANGED <<staff, given, raced, destroyed>> /\ Resetting(r, e)
    BY <1>1 DEF SavePin, Resetting
  <1>4. ASSUME NEW c \in Codes PROVE HashFits(c)'
    <2>1. HashFits(c)
      BY DEF PinsFit
    <2>2. ASSUME NEW s \in Slots
          PROVE  /\ s # r => (Resetting(s, c)' <=> Resetting(s, c)) /\ req'[s] = req[s]
                 /\ ~Resetting(r, c)'
                 /\ Resetting(r, c) => c = e
      BY <1>1, <1>2, FreeIsRequest DEF Resetting, Only
    <2>3. pin'[c] = IF c = e /\ pin[c] # Absent THEN Pin(hash, 0, 0) ELSE pin[c]
      BY <1>3 DEF IInv, Typed
    <2>4. CASE c = e
      <3>1. pin'[c] # Absent /\ c \notin raced => pin'[c].hash = given[c]
        BY <1>1, <1>3, <2>1, <2>3, <2>4, PinTyped DEF HashFits
      <3> QED
        BY <1>3, <2>1, <2>2, <3>1 DEF HashFits
    <2>5. CASE c # e
      BY <1>3, <2>1, <2>2, <2>3, <2>5 DEF HashFits
    <2> QED
      BY <2>4, <2>5
  <1> QED
    BY <1>4 DEF PinsFit

\* An employee who is hired has no reset under way: codes are not used again.
LEMMA CreatePins ==
  ASSUME IInv, PinsFit, NEW r \in Slots, NEW e \in Codes, NEW withPin \in BOOLEAN, Create(r, e, withPin)
  PROVE  PinsFit'
  <1> PICK row : row = Person(None, TRUE)
    OBVIOUS
  <1> PICK new : new = Pin(NewPin, 0, 0)
    OBVIOUS
  <1>1. /\ UNCHANGED <<req, raced, destroyed>> /\ staff[e] = Absent /\ e \notin destroyed
        /\ staff' = [staff EXCEPT ![e] = row]
        /\ \/ pin' = [pin EXCEPT ![e] = new] /\ given' = [given EXCEPT ![e] = NewPin]
           \/ UNCHANGED <<pin, given>>
    BY DEF Create
  <1>2. NewPin \in Nat
    BY DEF NewPin, IInv, Typed
  <1>3. new.hash = NewPin
    BY DEF Pin
  <1>4. ASSUME NEW c \in Codes PROVE HashFits(c)'
    <2>1. HashFits(c) /\ HashFits(e)
      BY DEF PinsFit
    <2>2. \A s \in Slots : ~Resetting(s, e) /\ (Resetting(s, c)' <=> Resetting(s, c))
      BY <1>1, <2>1 DEF HashFits, Resetting
    <2>3. CASE c = e
      <3>1. pin'[c] # Absent => pin'[c].hash = given'[c]
        <4>1. pin[e] = Absent
          BY <1>1 DEF IInv, RowFits
        <4> QED
          BY <1>1, <1>3, <2>3, <4>1 DEF IInv, Typed
      <3> QED
        BY <2>2, <2>3, <3>1 DEF HashFits
    <2>4. CASE c # e
      <3>1. pin'[c] = pin[c] /\ given'[c] = given[c] /\ staff'[c] = staff[c]
        BY <1>1, <2>4 DEF IInv, Typed
      <3> QED
        BY <1>1, <2>1, <2>2, <3>1 DEF HashFits
    <2> QED
      BY <2>3, <2>4
  <1> QED
    BY <1>4 DEF PinsFit

\* Every other request leaves the PINs and their resets alone; an unlock saves
\* its counter over the hash that is there.
LEMMA OthersPins ==
  ASSUME IInv, PinsFit, NEW r \in Slots, NEW e \in Codes,
         \/ \E day \in Days : Terminate(r, e, day)
         \/ \E entry \in Entries(e) : Unlock(r, e, entry)
         \/ CheckHold(r, e) \/ Destroy(r, e)
  PROVE  PinsFit'
  <1> USE DEF tables, attempts
  <1>1. CASE \E day \in Days : Terminate(r, e, day)
    <2>1. PICK day \in Days : Terminate(r, e, day)
      BY <1>1
    <2> PICK q : q = [pc |-> "leave", code |-> e, day |-> day]
      OBVIOUS
    <2>2. q \in Request /\ q.pc = "leave"
      BY DEF Request, LeaveRequest, Days
    <2>3. Only(r, q) /\ req[r] = Free
      BY <2>1, <2>2, Arrives DEF Terminate
    <2> QED
      BY <2>1, <2>2, <2>3, FreeIsRequest, PinStays DEF Terminate, Only
  <1>2. CASE \E entry \in Entries(e) : Unlock(r, e, entry)
    <2>1. PICK entry \in Entries(e) : Unlock(r, e, entry)
      BY <1>2
    <2> PICK q : q = [pc |-> "verify", code |-> e, entry |-> entry, at |-> now]
      OBVIOUS
    <2>2. q \in Request /\ q.pc = "verify"
      BY EntryTyped DEF Request, VerifyRequest, IInv, Typed
    <2>3. Only(r, q) /\ req[r] = Free
      BY <2>1, <2>2, Arrives DEF Unlock
    <2> QED
      BY <2>1, <2>2, <2>3, FreeIsRequest, PinStays DEF Unlock, Only
  <1>3. CASE CheckHold(r, e) \/ Destroy(r, e)
    <2>1. req[r] \in PurgeRequest /\ req[r].pc \in Purging
      BY <1>3, Shapes DEF CheckHold, Destroy, IInv, Typed, Purging
    <2>2. PICK q : req' = [req EXCEPT ![r] = q] /\ q.pc # "reset"
      <3>1. CASE req' = [req EXCEPT ![r] = Free]
        BY <3>1, FreeIsRequest
      <3>2. ASSUME NEW todo, NEW due,
                   req' = [req EXCEPT ![r].todo = todo, ![r].due = due] \/ req' = [req EXCEPT ![r].due = due]
            PROVE  \E q : req' = [req EXCEPT ![r] = q] /\ q.pc # "reset"
        <4>1. \A q : q = [req[r] EXCEPT !.todo = todo, !.due = due] \/ q = [req[r] EXCEPT !.due = due]
                     => q.pc = req[r].pc
          BY <2>1 DEF PurgeRequest
        <4> QED
          BY <2>1, <3>2, <4>1 DEF Purging
      <3> QED
        BY <1>3, <3>1, <3>2 DEF CheckHold, Destroy, End
    <2>3. \A s \in Slots : req'[s] = IF s = r THEN q ELSE req[s]
      BY <2>2 DEF IInv, Typed
    <2>4. \A s \in Slots : req[s].pc = "reset" \/ req'[s].pc = "reset" => req'[s] = req[s]
      BY <2>1, <2>2, <2>3 DEF Purging
    <2>5. \/ UNCHANGED <<staff, pin, destroyed>>
          \/ /\ staff' = [staff EXCEPT ![e] = Absent] /\ pin' = [pin EXCEPT ![e] = Absent]
             /\ destroyed' = destroyed \cup {e}
      BY <1>3 DEF CheckHold, Destroy
    <2>6. /\ UNCHANGED <<given, raced>>
          /\ \A c \in Codes : /\ staff'[c] = staff[c] \/ (c = e /\ e \in destroyed')
                              /\ pin'[c] = pin[c] \/ pin'[c] = Absent
                              /\ c \in destroyed => c \in destroyed'
      BY <1>3, <2>5 DEF CheckHold, Destroy, IInv, Typed
    <2> QED
      BY <2>4, <2>6, PinStays
  <1> QED
    BY <1>1, <1>2, <1>3

\* Those that are not of one employee.
LEMMA RowsPins ==
  ASSUME IInv, PinsFit,
         \/ Tick
         \/ \E e \in Codes : Refer(e) \/ PlaceHold(e) \/ ReleaseHold(e)
         \/ \E r \in Slots : SaveLeave(r)
  PROVE  PinsFit'
  <1> USE DEF tables, attempts
  <1>1. UNCHANGED <<given, raced, pin, destroyed>>
    BY DEF Tick, Refer, PlaceHold, ReleaseHold, SaveLeave
  <1>2. ASSUME NEW c \in Codes, staff[c] # Absent PROVE staff'[c] # Absent
    <2>1. CASE staff' = staff
      BY <1>2, <2>1
    <2>2. ASSUME NEW e \in Codes, NEW row, row \in StaffRow, staff' = [staff EXCEPT ![e] = row]
          PROVE  staff'[c] # Absent
      BY <1>2, <2>2, AbsentIsNoRow DEF IInv, Typed
    <2>3. CASE \E e \in Codes : Refer(e)
      <3>1. PICK e \in Codes : Refer(e)
        BY <2>3
      <3> PICK row : row = [staff[e] EXCEPT !.referred = TRUE]
        OBVIOUS
      <3>2. row \in StaffRow /\ staff' = [staff EXCEPT ![e] = row]
        BY <3>1 DEF Refer, IInv, Typed, StaffRow
      <3> QED
        BY <2>2, <3>2
    <2>4. CASE \E r \in Slots : SaveLeave(r)
      <3>1. PICK r \in Slots : SaveLeave(r)
        BY <2>4
      <3>2. PICK e \in Codes, day \in Nat : req[r].code = e /\ req[r].day = day
        BY <3>1, Shapes DEF SaveLeave, LeaveRequest, IInv, Typed
      <3> PICK row : row = [staff[e] EXCEPT !.leave = day]
        OBVIOUS
      <3>3. staff[e] # Absent => row \in StaffRow /\ staff' = [staff EXCEPT ![e] = row]
        BY <3>1, <3>2 DEF SaveLeave, IInv, Typed, StaffRow
      <3>4. staff[e] = Absent => staff' = staff
        BY <3>1, <3>2 DEF SaveLeave
      <3> QED
        BY <2>1, <2>2, <3>2, <3>3, <3>4
    <2> QED
      BY <2>1, <2>3, <2>4 DEF Tick, PlaceHold, ReleaseHold
  <1>3. ASSUME NEW s \in Slots, req[s].pc = "reset" \/ req'[s].pc = "reset" PROVE req'[s] = req[s]
    <2>1. CASE \E e \in Codes : ReleaseHold(e)
      <3>1. PICK e \in Codes : ReleaseHold(e)
        BY <2>1
      <3>2. req'[s] = IF req[s].pc \in Purging THEN [req[s] EXCEPT !.heldSince = @ \ {e}] ELSE req[s]
        BY <3>1 DEF ReleaseHold, Purging
      <3>3. req[s].pc \in Purging => [req[s] EXCEPT !.heldSince = @ \ {e}].pc = req[s].pc
        BY Shapes DEF IInv, Typed, PurgeRequest
      <3> QED
        BY <1>3, <3>2, <3>3 DEF Purging
    <2>2. CASE \E r \in Slots : SaveLeave(r)
      <3>1. PICK r \in Slots : SaveLeave(r)
        BY <2>2
      <3> PICK e : e = req[r].code
        OBVIOUS
      <3>2. /\ req[r].pc = "leave"
            /\ req'[s] = IF s = r THEN Free ELSE IF req[s].pc \in Purging
                         THEN [req[s] EXCEPT !.moved = @ \cup {e}] ELSE req[s]
        BY <3>1 DEF SaveLeave, Purging
      <3>3. req[s].pc \in Purging => [req[s] EXCEPT !.moved = @ \cup {e}].pc = req[s].pc
        BY Shapes DEF IInv, Typed, PurgeRequest
      <3> QED
        BY <1>3, <3>2, <3>3, FreeIsRequest DEF Purging
    <2>3. CASE req' = req
      BY <2>3
    <2> QED
      BY <2>1, <2>2, <2>3 DEF Tick, Refer, PlaceHold
  <1> QED
    BY <1>1, <1>2, <1>3, PinStays

LEMMA VerifyPins ==
  ASSUME IInv, PinsFit, NEW r \in Slots, Verify(r) \/ SaveAttempts(r) \/ Purge(r) \/ Listed(r) \/ Purged(r)
  PROVE  PinsFit'
  <1> USE DEF tables, attempts
  <1>1. UNCHANGED <<given, raced, staff, destroyed>> /\ req[r].pc # "reset"
    BY FreeIsRequest DEF Verify, SaveAttempts, Purge, Send, Listed, Purged
  <1>2. PICK q : req' = [req EXCEPT ![r] = q] /\ q.pc # "reset"
    <2>1. CASE req' = [req EXCEPT ![r] = Free]
      BY <2>1, FreeIsRequest
    <2>2. CASE req' = [req EXCEPT ![r].pc = "delete"] /\ Listed(r)
      <3>1. [req[r] EXCEPT !.pc = "delete"].pc = "delete"
        BY <2>2, Shapes DEF Listed, IInv, Typed, Purging, PurgeRequest
      <3> QED
        BY <2>2, <3>1
    <2>3. CASE Verify(r) /\ ~End(r)
      <3>1. PICK row : req' = [req EXCEPT ![r] = [pc |-> "save", code |-> req[r].code, row |-> row]]
                       \/ req' = [req EXCEPT ![r] = Free]
        BY <2>3 DEF Verify
      <3>2. [pc |-> "save", code |-> req[r].code, row |-> row].pc = "save"
        OBVIOUS
      <3> QED
        BY <2>1, <3>1, <3>2
    <2>4. CASE Purge(r)
      <3>1. PICK todo, due, held, moved :
              req' = [req EXCEPT ![r] = [pc |-> "held", todo |-> todo, due |-> due, heldSince |-> held, moved |-> moved]]
        BY <2>4 DEF Purge, Send
      <3>2. [pc |-> "held", todo |-> todo, due |-> due, heldSince |-> held, moved |-> moved].pc = "held"
        OBVIOUS
      <3> QED
        BY <3>1, <3>2
    <2> QED
      BY <2>1, <2>2, <2>3, <2>4 DEF End, SaveAttempts, Listed, Purged
  <1>3. \A s \in Slots : req'[s] = IF s = r THEN q ELSE req[s]
    BY <1>2 DEF IInv, Typed
  <1>4. ASSUME NEW c \in Codes, pin'[c] # Absent PROVE pin[c] # Absent /\ pin'[c].hash = pin[c].hash
    <2>1. CASE pin' = pin
      BY <1>4, <2>1
    <2>2. CASE SaveAttempts(r)
      <3>1. PICK e \in Codes, row \in PinRow : req[r].code = e /\ req[r].row = row
        BY <2>2, Shapes DEF SaveAttempts, SaveRequest, IInv, Typed
      <3> PICK new : new = Pin(pin[e].hash, row.failed, row.until)
        OBVIOUS
      <3>2. pin' = IF pin[e] = Absent THEN pin ELSE [pin EXCEPT ![e] = new]
        BY <2>2, <3>1 DEF SaveAttempts
      <3>3. new.hash = pin[e].hash
        BY DEF Pin
      <3> QED
        BY <1>4, <3>2, <3>3 DEF IInv, Typed
    <2> QED
      BY <2>1, <2>2 DEF Verify, Purge, Listed, Purged
  <1> QED
    BY <1>1, <1>2, <1>3, <1>4, PinStays

\* So no step stores any other PIN.
LEMMA NextPins == IInv /\ PinsFit /\ [Next]_vars => PinsFit'
  <1> SUFFICES ASSUME IInv, PinsFit, [Next]_vars PROVE PinsFit'
    OBVIOUS
  <1>1. CASE UNCHANGED vars
    BY <1>1, PinStays DEF vars, tables
  <1> QED
    BY <1>1, ResetPins, SavePinPins, CreatePins, OthersPins, RowsPins, VerifyPins DEF Next

\* Unlocks save the counter they read before a reset (services.py,
\* save(update_fields=...)), and never bring the old PIN back: once a reset has
\* ended that overlapped no other, the PIN it generated is stored.
THEOREM LastPinIsStoredHolds == Spec => []LastPinIsStored
  <1>1. PinsFit => LastPinIsStored
    BY DEF PinsFit, HashFits, LastPinIsStored
  <1>2. Init => PinsFit
    BY InitPins
  <1>3. IInv /\ PinsFit /\ [Next]_vars => PinsFit'
    BY NextPins
  <1> QED
    BY <1>1, <1>2, <1>3, Invariant, PTL DEF Spec

-----------------------------------------------------------------------------
(* Without overlap *)

\* At t, e's PIN is closed to whoever should wait, or they have waited.
Reopens(e, until, t) ==
  lockedAt[e] # None => until = lockedAt[e] + Lockout \/ t >= lockedAt[e] + Lockout

\* A row counts what has been missed, and is locked as long as it should.
Counts(e, row) == row.failed = misses[e] /\ Reopens(e, row.until, now)

Single == \A r, s \in Slots : req[r] # Free /\ req[s] # Free => r = s
Saving(e) == \E r \in Slots : req[r].pc = "save" /\ req[r].code = e

\* The row of a PIN is up to date, unless a request has yet to save it.
PinFits(e) == pin[e] # Absent /\ ~Saving(e) => Counts(e, pin[e])
TryFits(e) == lastTry[e] # None => lockedAt[e] # None /\ lastTry[e] >= lockedAt[e] + Lockout
StepFits(q) ==
  /\ q.pc = "save" => Counts(q.code, q.row)
  /\ q.pc = "verify" => /\ q.at <= now
                        /\ pin[q.code] # Absent => Reopens(q.code, pin[q.code].until, q.at)

Patient ==
  /\ Single
  /\ \A e \in Codes : PinFits(e) /\ TryFits(e)
  /\ \A r \in Slots : StepFits(req[r])

LEMMA InitPatient == Init => Patient
  <1> SUFFICES ASSUME Init PROVE Patient
    OBVIOUS
  <1>1. \A s \in Slots : req[s] = Free /\ req[s].pc = "free"
    BY FreeIsRequest DEF Init
  <1>2. ASSUME NEW e \in Codes PROVE PinFits(e) /\ TryFits(e)
    BY PinTyped DEF FirstPin, Init, PinFits, TryFits, Counts, Reopens
  <1> QED
    BY <1>1, <1>2 DEF Patient, Single, StepFits

\* Steps that write no PIN, or take one away.
LEMMA PinsUnnoticed ==
  ASSUME Patient, UNCHANGED <<now, attempts>>,
         \A c \in Codes : pin'[c] = pin[c] \/ pin'[c] = Absent,
         \A s \in Slots : \/ req'[s] = req[s]
                          \/ req[s] # Free /\ req[s].pc # "save" /\ req'[s].pc \notin {"save", "verify"},
         \A s \in Slots : req[s].pc = "verify" => req[s].code \in Codes
  PROVE  Patient'
  <1> USE DEF attempts
  <1>1. Single'
    BY DEF Patient, Single
  <1>2. ASSUME NEW e \in Codes PROVE PinFits(e)' /\ TryFits(e)'
    <2>1. Saving(e) => Saving(e)'
      BY DEF Saving
    <2> QED
      BY <2>1 DEF Patient, PinFits, TryFits, Counts, Reopens
  <1>3. ASSUME NEW s \in Slots PROVE StepFits(req[s])'
    <2>1. StepFits(req[s])
      BY DEF Patient
    <2> QED
      BY <2>1 DEF StepFits, Counts, Reopens
  <1> QED
    BY <1>1, <1>2, <1>3 DEF Patient

\* The request that has just come in is the only one.
LEMMA FirstOne ==
  ASSUME IInv, ~overlapped => Patient, UNCHANGED <<now, attempts>>,
         NEW r \in Slots, NEW q \in Request, Send(r, q), ~overlapped', q.pc # "save"
  PROVE  /\ Patient
         /\ \A c \in Codes : pin[c] # Absent => Counts(c, pin[c])
         /\ \A c \in Codes : TryFits(c)'
         /\ Single'
         /\ \A s \in Slots \ {r} : req'[s] = Free
         /\ req'[r] = q
  <1> USE DEF attempts
  <1>1. Only(r, q)
    BY Arrives
  <1>2. ~overlapped /\ \A s \in Slots : req[s] = Free
    BY DEF Send
  <1>3. Patient
    BY <1>2
  <1>4. ASSUME NEW c \in Codes PROVE (pin[c] # Absent => Counts(c, pin[c])) /\ TryFits(c)'
    BY <1>2, <1>3, FreeIsRequest DEF Patient, PinFits, TryFits, Saving
  <1>5. \A s \in Slots \ {r} : req'[s] = Free
    BY <1>1, <1>2 DEF Only
  <1>6. req'[r] = q
    BY <1>1 DEF Only
  <1> QED
    BY <1>3, <1>4, <1>5, <1>6 DEF Single

LEMMA SendsPatient ==
  ASSUME IInv, ~overlapped => Patient, ~overlapped', NEW r \in Slots,
         Purge(r) \/ \E e \in Codes, day \in Days : Terminate(r, e, day)
  PROVE  Patient'
  <1> USE DEF attempts, tables
  <1>1. PICK q \in Request : Send(r, q) /\ q.pc \notin {"save", "verify"}
    <2>1. CASE Purge(r)
      <3> PICK todo : todo = {e \in Codes : Due(e)}
        OBVIOUS
      <3> PICK q : q = [pc |-> "held", todo |-> todo, due |-> {}, heldSince |-> holds, moved |-> {}]
        OBVIOUS
      <3>1. q \in Request /\ q.pc = "held"
        BY DEF PurgeRequest, Purging, Request, IInv, Typed
      <3> QED
        BY <2>1, <3>1 DEF Purge
    <2>2. ASSUME NEW e \in Codes, NEW day \in Days, Terminate(r, e, day)
          PROVE  \E q \in Request : Send(r, q) /\ q.pc \notin {"save", "verify"}
      <3> PICK q : q = [pc |-> "leave", code |-> e, day |-> day]
        OBVIOUS
      <3>1. q \in Request /\ q.pc = "leave"
        BY DEF Request, LeaveRequest, Days
      <3> QED
        BY <2>2, <3>1 DEF Terminate
    <2> QED
      BY <2>1, <2>2
  <1>2. UNCHANGED <<now, pin, attempts>>
    BY DEF Purge, Terminate
  <1>3. /\ \A c \in Codes : (pin[c] # Absent => Counts(c, pin[c])) /\ TryFits(c)'
        /\ Single'
        /\ \A s \in Slots \ {r} : req'[s] = Free
        /\ req'[r] = q
    BY <1>1, <1>2, FirstOne
  <1>4. \A c \in Codes : PinFits(c)'
    BY <1>2, <1>3 DEF PinFits, Counts, Reopens
  <1>5. \A s \in Slots : StepFits(req[s])'
    BY <1>1, <1>3, FreeIsRequest DEF StepFits
  <1> QED
    BY <1>3, <1>4, <1>5 DEF Patient

LEMMA UnlockPatient ==
  ASSUME IInv, ~overlapped => Patient, ~overlapped', NEW r \in Slots, NEW e \in Codes,
         NEW entry \in Entries(e), Unlock(r, e, entry)
  PROVE  Patient'
  <1> USE DEF attempts, tables
  <1> PICK q : q = [pc |-> "verify", code |-> e, entry |-> entry, at |-> now]
    OBVIOUS
  <1>1. q \in Request /\ q.pc = "verify" /\ q.code = e /\ q.at = now /\ now \in Nat
    BY EntryTyped DEF Request, VerifyRequest, IInv, Typed
  <1>2. Send(r, q) /\ UNCHANGED <<now, pin, attempts>>
    BY DEF Unlock
  <1>3. /\ \A c \in Codes : (pin[c] # Absent => Counts(c, pin[c])) /\ TryFits(c)'
        /\ Single'
        /\ \A s \in Slots \ {r} : req'[s] = Free
        /\ req'[r] = q
    BY <1>1, <1>2, FirstOne
  <1>4. \A c \in Codes : PinFits(c)'
    BY <1>2, <1>3 DEF PinFits, Counts, Reopens
  <1>5. \A s \in Slots : StepFits(req[s])'
    BY <1>1, <1>2, <1>3, FreeIsRequest DEF StepFits, Counts, Reopens
  <1> QED
    BY <1>3, <1>4, <1>5 DEF Patient

\* A PIN for who never had one.
LEMMA NewPinCounts ==
  ASSUME IInv, UNCHANGED <<now, attempts>>, NEW e \in Codes, pin[e] = Absent, e \notin destroyed,
         NEW hash \in Nat
  PROVE  Counts(e, Pin(hash, 0, 0))' /\ \A t : Reopens(e, Pin(hash, 0, 0).until, t)'
  <1>1. Untried(e) /\ misses' = misses /\ lockedAt' = lockedAt
    BY DEF IInv, RowFits, attempts
  <1>2. Pin(hash, 0, 0).failed = 0
    BY DEF Pin
  <1> QED
    BY <1>1, <1>2 DEF Untried, Counts, Reopens

LEMMA ResetPatient ==
  ASSUME IInv, ~overlapped => Patient, ~overlapped', NEW r \in Slots, NEW e \in Codes, Reset(r, e)
  PROVE  Patient'
  <1> PICK q : q = [pc |-> "reset", code |-> e, hash |-> NewPin]
    OBVIOUS
  <1>1. q \in Request /\ q.pc = "reset"
    BY DEF NewPin, Request, ResetRequest, IInv, Typed
  <1>2. /\ Send(r, q) /\ UNCHANGED <<now, attempts>> /\ staff[e] # Absent
        /\ pin' = IF pin[e] = Absent THEN [pin EXCEPT ![e] = Pin(0, 0, 0)] ELSE pin
    BY DEF Reset, NoPin
  <1>3. /\ \A c \in Codes : (pin[c] # Absent => Counts(c, pin[c])) /\ TryFits(c)'
        /\ Single'
        /\ \A s \in Slots \ {r} : req'[s] = Free
        /\ req'[r] = q
    BY <1>1, <1>2, FirstOne
  <1>4. e \notin destroyed
    BY <1>2 DEF IInv, PurgeRecorded
  <1>5. ASSUME NEW c \in Codes PROVE PinFits(c)'
    <2>1. pin'[c] = pin[c] \/ (c = e /\ pin[c] = Absent /\ pin'[c] = Pin(0, 0, 0))
      BY <1>2 DEF IInv, Typed
    <2>2. CASE pin'[c] = pin[c]
      BY <1>2, <1>3, <2>2 DEF attempts, PinFits, Counts, Reopens
    <2>3. CASE c = e /\ pin[c] = Absent /\ pin'[c] = Pin(0, 0, 0)
      <3>1. Counts(e, Pin(0, 0, 0))'
        BY <1>2, <1>4, <2>3, NewPinCounts
      <3> QED
        BY <2>3, <3>1 DEF PinFits, Counts, Pin
    <2> QED
      BY <2>1, <2>2, <2>3
  <1>6. \A s \in Slots : StepFits(req[s])'
    BY <1>1, <1>3, FreeIsRequest DEF StepFits
  <1> QED
    BY <1>3, <1>5, <1>6 DEF Patient

LEMMA CreatePatient ==
  ASSUME IInv, Patient, NEW r \in Slots, NEW e \in Codes, NEW withPin \in BOOLEAN, Create(r, e, withPin)
  PROVE  Patient'
  <1> PICK hash : hash = NewPin
    OBVIOUS
  <1>1. /\ UNCHANGED <<now, req, attempts>> /\ e \notin destroyed /\ pin[e] = Absent
        /\ pin' = [pin EXCEPT ![e] = Pin(hash, 0, 0)] \/ pin' = pin
    BY DEF Create, IInv, RowFits
  <1>2. hash \in Nat
    BY DEF IInv, Typed, NewPin
  <1>3. Counts(e, Pin(hash, 0, 0))' /\ \A t : Reopens(e, Pin(hash, 0, 0).until, t)'
    BY <1>1, <1>2, NewPinCounts
  <1>4. ASSUME NEW c \in Codes
        PROVE  pin'[c] = pin[c] \/ (c = e /\ pin'[c] = Pin(hash, 0, 0))
    BY <1>1 DEF IInv, Typed
  <1>5. ASSUME NEW c \in Codes PROVE PinFits(c)' /\ TryFits(c)'
    <2>1. PinFits(c) /\ TryFits(c)
      BY DEF Patient
    <2>2. CASE pin'[c] = pin[c]
      BY <1>1, <2>1, <2>2 DEF attempts, PinFits, TryFits, Counts, Reopens, Saving
    <2>3. CASE c = e /\ pin'[c] = Pin(hash, 0, 0)
      BY <1>1, <1>3, <2>1, <2>3 DEF attempts, PinFits, TryFits, Counts, Pin
    <2> QED
      BY <1>4, <2>2, <2>3
  <1>6. ASSUME NEW s \in Slots PROVE StepFits(req[s])'
    <2>1. StepFits(req[s])
      BY DEF Patient
    <2>2. req[s].pc = "save" => Counts(req[s].code, req[s].row)'
      BY <1>1, <2>1 DEF StepFits, Counts, Reopens, attempts
    <2>3. ASSUME req[s].pc = "verify", pin'[req[s].code] # Absent
          PROVE  Reopens(req[s].code, pin[req[s].code].until, req[s].at)'
      <3>1. PICK c \in Codes, at \in Nat : req[s].code = c /\ req[s].at = at
        BY <2>3, Shapes DEF VerifyRequest, IInv, Typed
      <3>2. CASE pin'[c] = pin[c]
        BY <1>1, <2>1, <2>3, <3>1, <3>2 DEF StepFits, Reopens, attempts
      <3>3. CASE c = e /\ pin'[c] = Pin(hash, 0, 0)
        <4>1. Reopens(e, Pin(hash, 0, 0).until, at)'
          BY <1>3
        <4> QED
          BY <1>1, <3>1, <3>3, <4>1 DEF Reopens
      <3> QED
        BY <1>4, <3>2, <3>3
    <2> QED
      BY <1>1, <2>1, <2>2, <2>3 DEF StepFits
  <1> QED
    BY <1>1, <1>5, <1>6 DEF Patient, Single

LEMMA TickPatient == ASSUME IInv, Patient, Tick PROVE Patient'
  <1> USE DEF attempts, tables
  <1>1. UNCHANGED <<pin, req, attempts>> /\ now \in Nat /\ now' = now + 1
    BY DEF Tick, IInv, Typed
  <1>2. ASSUME NEW c \in Codes, NEW row, Counts(c, row) PROVE Counts(c, row)'
    <2>1. lockedAt[c] \in Nat \cup {None}
      BY DEF IInv, Typed
    <2> QED
      BY <1>1, <1>2, <2>1 DEF Counts, Reopens
  <1>3. ASSUME NEW c \in Codes PROVE PinFits(c)' /\ TryFits(c)'
    <2>1. CASE pin[c] # Absent /\ ~Saving(c)
      <3> PICK row : row = pin[c]
        OBVIOUS
      <3>1. Counts(c, row)'
        BY <1>2, <2>1 DEF Patient, PinFits
      <3> QED
        BY <1>1, <3>1 DEF Patient, PinFits, TryFits, Counts
    <2>2. CASE ~(pin[c] # Absent /\ ~Saving(c))
      BY <1>1, <2>2 DEF Patient, PinFits, TryFits, Saving
    <2> QED
      BY <2>1, <2>2
  <1>4. ASSUME NEW s \in Slots PROVE StepFits(req[s])'
    <2>1. StepFits(req[s])
      BY DEF Patient
    <2>2. CASE req[s].pc = "save"
      <3>1. PICK c, row : c \in Codes /\ req[s].code = c /\ req[s].row = row
        BY <2>2, Shapes DEF SaveRequest, IInv, Typed
      <3>2. Counts(c, row)'
        BY <1>2, <2>1, <2>2, <3>1 DEF StepFits
      <3> QED
        BY <1>1, <2>2, <3>1, <3>2 DEF StepFits, Counts
    <2>3. CASE req[s].pc = "verify"
      <3>1. req[s].at \in Nat
        BY <2>3, Shapes DEF VerifyRequest, IInv, Typed
      <3> QED
        BY <1>1, <2>1, <2>3, <3>1 DEF StepFits, Reopens
    <2> QED
      BY <1>1, <2>2, <2>3 DEF StepFits
  <1> QED
    BY <1>1, <1>3, <1>4 DEF Patient, Single

\* A request that ends, while the others are idle.
LEMMA LastOne ==
  ASSUME Patient, NEW r \in Slots, req[r] # Free, Only(r, Free)
  PROVE  /\ Single'
         /\ \A c \in Codes : ~Saving(c)'
         /\ \A s \in Slots : StepFits(req[s])'
  <1>1. \A s \in Slots : req'[s] = Free
    BY DEF Patient, Single, Only
  <1> QED
    BY <1>1, FreeIsRequest DEF Single, Saving, StepFits

LEMMA SavePinPatient == ASSUME IInv, Patient, NEW r \in Slots, SavePin(r) PROVE Patient'
  <1> USE DEF attempts
  <1>1. PICK e \in Codes, hash \in Nat : req[r].code = e /\ req[r].hash = hash
    BY Shapes DEF SavePin, ResetRequest, IInv, Typed
  <1>2. Only(r, Free)
    BY FreeIsRequest, SlotGets DEF SavePin, End, IInv
  <1>3. CASE pin[e] = Absent
    BY <1>1, <1>2, <1>3, FreeIsRequest, PinsUnnoticed, Shapes
       DEF SavePin, Only, IInv, Typed, VerifyRequest
  <1>4. CASE pin[e] # Absent
    <2>1. /\ pin' = [pin EXCEPT ![e] = Pin(hash, 0, 0)]
          /\ misses' = [misses EXCEPT ![e] = 0]
          /\ lockedAt' = [lockedAt EXCEPT ![e] = None]
          /\ lastTry' = [lastTry EXCEPT ![e] = None]
          /\ now' = now
      BY <1>1, <1>4 DEF SavePin
    <2>2. req[r] # Free /\ req[r].pc = "reset"
      BY FreeIsRequest DEF SavePin
    <2>3. ASSUME NEW c \in Codes PROVE PinFits(c)' /\ TryFits(c)'
      <3>1. ~Saving(c)
        BY <2>2, FreeIsRequest DEF Patient, Single, Saving
      <3>2. /\ pin'[c] = IF c = e THEN Pin(hash, 0, 0) ELSE pin[c]
            /\ misses'[c] = IF c = e THEN 0 ELSE misses[c]
            /\ lockedAt'[c] = IF c = e THEN None ELSE lockedAt[c]
            /\ lastTry'[c] = IF c = e THEN None ELSE lastTry[c]
        BY <2>1 DEF IInv, Typed
      <3>3. PinFits(c) /\ TryFits(c)
        BY DEF Patient
      <3>4. CASE c = e
        BY <1>1, <3>2, <3>4, PinTyped DEF PinFits, TryFits, Counts, Reopens
      <3>5. CASE c # e
        BY <2>1, <3>1, <3>2, <3>3, <3>5 DEF PinFits, TryFits, Counts, Reopens
      <3> QED
        BY <3>4, <3>5
    <2> QED
      BY <1>2, <2>2, <2>3, LastOne DEF Patient
  <1> QED
    BY <1>3, <1>4

LEMMA SaveAttemptsPatient == ASSUME IInv, Patient, NEW r \in Slots, SaveAttempts(r) PROVE Patient'
  <1> USE DEF attempts
  <1>1. PICK e \in Codes, row \in PinRow : req[r].code = e /\ req[r].row = row
    BY Shapes DEF SaveAttempts, SaveRequest, IInv, Typed
  <1>2. Only(r, Free)
    BY FreeIsRequest, SlotGets DEF SaveAttempts, End, IInv
  <1>3. req[r] # Free /\ req[r].pc = "save" /\ UNCHANGED <<now, attempts>>
    BY FreeIsRequest DEF SaveAttempts
  <1>4. Counts(e, row)
    BY <1>1, <1>3 DEF Patient, StepFits
  <1> PICK new : new = Pin(pin[e].hash, row.failed, row.until)
    OBVIOUS
  <1>5. pin' = IF pin[e] = Absent THEN pin ELSE [pin EXCEPT ![e] = new]
    BY <1>1 DEF SaveAttempts
  <1>6. new.failed = row.failed /\ new.until = row.until
    BY DEF Pin
  <1>7. ASSUME NEW c \in Codes PROVE PinFits(c)' /\ TryFits(c)'
    <2>1. PinFits(c) /\ TryFits(c)
      BY DEF Patient
    <2>2. CASE c = e
      <3>1. pin'[c] = Absent \/ pin'[c] = new
        BY <1>5, <2>2 DEF IInv, Typed
      <3> QED
        BY <1>3, <1>4, <1>6, <2>1, <2>2, <3>1 DEF PinFits, TryFits, Counts, Reopens
    <2>3. CASE c # e
      <3>1. pin'[c] = pin[c]
        BY <1>5, <2>3 DEF IInv, Typed
      <3>2. ~Saving(c)
        BY <1>1, <1>3, <2>3, FreeIsRequest DEF Patient, Single, Saving
      <3> QED
        BY <1>3, <2>1, <3>1, <3>2 DEF PinFits, TryFits, Counts, Reopens
    <2> QED
      BY <2>2, <2>3
  <1> QED
    BY <1>2, <1>3, <1>7, LastOne DEF Patient

LEMMA VerifyPatient == ASSUME IInv, Patient, NEW r \in Slots, Verify(r) PROVE Patient'
  <1>1. PICK e \in Codes, at \in Nat : req[r].code = e /\ req[r].at = at
    BY Shapes DEF Verify, VerifyRequest, IInv, Typed
  <1> PICK right : right = (req[r].entry = pin[e].hash)
    OBVIOUS
  <1>2. UNCHANGED <<now, pin>> /\ req[r].pc = "verify" /\ req[r] # Free
    BY FreeIsRequest DEF Verify, tables
  <1>3. CASE End(r) /\ UNCHANGED attempts
    <2>1. Only(r, Free)
      BY <1>3, FreeIsRequest, SlotGets DEF End, IInv
    <2> QED
      BY <1>2, <1>3, <2>1, FreeIsRequest, PinsUnnoticed, Shapes DEF Only, IInv, Typed, VerifyRequest
  <1>4. CASE pin[e] # Absent /\ ~(End(r) /\ UNCHANGED attempts)
    <2> PICK row : row = pin[e]
      OBVIOUS
    <2>1. /\ row \in PinRow /\ row.hash \in Nat /\ row.failed \in Nat /\ row.until \in Nat
          /\ row.until <= at
      BY <1>1, <1>4 DEF Verify, IInv, Typed, PinRow
    <2>2. /\ now \in Nat /\ misses[e] \in Nat /\ lockedAt[e] \in Nat \cup {None}
      BY DEF IInv, Typed
    <2>3. at <= now /\ Reopens(e, row.until, at)
      BY <1>1, <1>2, <1>4 DEF Patient, StepFits
    <2>4. \A s \in Slots \ {r} : req[s] = Free
      BY <1>2 DEF Patient, Single
    <2>5. Counts(e, row)
      <3>1. ~Saving(e)
        BY <1>2, <2>4, FreeIsRequest DEF Saving
      <3> QED
        BY <1>4, <3>1 DEF Patient, PinFits
    <2>6. lockedAt[e] # None => at >= lockedAt[e] + Lockout
      BY <1>1, <2>1, <2>2, <2>3 DEF Reopens
    <2> PICK locks : locks = (~right /\ misses[e] + 1 >= MaxAttempts)
      OBVIOUS
    <2> PICK m : m = IF right \/ locks THEN 0 ELSE misses[e] + 1
      OBVIOUS
    <2> PICK l : l = IF locks THEN at ELSE lockedAt[e]
      OBVIOUS
    <2> PICK t : t = IF locks \/ lockedAt[e] = None THEN None ELSE at
      OBVIOUS
    <2>7. /\ misses' = [misses EXCEPT ![e] = m]
          /\ lockedAt' = [lockedAt EXCEPT ![e] = l]
          /\ lastTry' = [lastTry EXCEPT ![e] = t]
      BY <1>1, <1>4 DEF Verify
    <2> PICK missed : missed = AfterMiss(row, at)
      OBVIOUS
    <2> PICK cleared : cleared = Pin(row.hash, 0, 0)
      OBVIOUS
    <2>8. /\ missed \in PinRow /\ cleared \in PinRow
          /\ cleared.failed = 0 /\ cleared.until = 0
          /\ missed.failed = IF row.failed + 1 >= MaxAttempts THEN 0 ELSE row.failed + 1
          /\ missed.until = IF row.failed + 1 >= MaxAttempts THEN at + Lockout ELSE row.until
      <3>1. cleared \in PinRow /\ cleared.failed = 0 /\ cleared.until = 0
        BY <2>1 DEF Pin, PinRow
      <3>2. CASE row.failed + 1 >= MaxAttempts
        <4>1. missed = Pin(row.hash, 0, at + Lockout)
          BY <3>2 DEF AfterMiss
        <4>2. at + Lockout \in Nat
          BY <1>1
        <4> QED
          BY <2>1, <3>1, <3>2, <4>1, <4>2 DEF Pin, PinRow
      <3>3. CASE ~(row.failed + 1 >= MaxAttempts)
        <4>1. missed = Pin(row.hash, row.failed + 1, row.until)
          BY <3>3 DEF AfterMiss
        <4>2. row.failed + 1 \in Nat
          BY <2>1
        <4> QED
          BY <2>1, <3>1, <3>3, <4>1, <4>2 DEF Pin, PinRow
      <3> QED
        BY <3>2, <3>3
    <2>9. PICK q : /\ req' = [req EXCEPT ![r] = q]
                   /\ \/ ~right /\ q = [pc |-> "save", code |-> e, row |-> missed]
                      \/ right /\ q = [pc |-> "save", code |-> e, row |-> cleared]
                      \/ right /\ row.failed = 0 /\ row.until = 0 /\ q = Free
      <3>1. req' = [req EXCEPT ![r] =
                      IF ~right THEN [pc |-> "save", code |-> e, row |-> missed]
                      ELSE IF row.failed # 0 \/ row.until # 0
                      THEN [pc |-> "save", code |-> e, row |-> cleared]
                      ELSE Free]
        BY <1>1, <1>4 DEF Verify
      <3> QED
        BY <3>1
    <2>10. q \in Request /\ Only(r, q)
      <3>1. q \in Request
        BY <1>1, <2>8, <2>9, FreeIsRequest DEF Request, SaveRequest
      <3> QED
        BY <2>9, <3>1, SlotGets DEF IInv
    <2>11. ASSUME NEW c \in Codes, c # e PROVE PinFits(c)' /\ TryFits(c)'
      <3>1. misses'[c] = misses[c] /\ lockedAt'[c] = lockedAt[c] /\ lastTry'[c] = lastTry[c]
        BY <2>7, <2>11 DEF IInv, Typed
      <3>2. ~Saving(c)
        BY <1>2, <2>4, FreeIsRequest DEF Saving
      <3> QED
        BY <1>2, <3>1, <3>2 DEF Patient, PinFits, TryFits, Counts, Reopens
    <2>12. misses'[e] = m /\ lockedAt'[e] = l /\ lastTry'[e] = t
      BY <2>7 DEF IInv, Typed
    <2>13. TryFits(e)'
      BY <1>1, <2>6, <2>12 DEF TryFits
    <2>14. ~right => Counts(e, missed)'
      <3> SUFFICES ASSUME ~right
                   PROVE  missed.failed = m /\ (l # None => missed.until = l + Lockout \/ now >= l + Lockout)
        BY <1>2, <2>12 DEF Counts, Reopens
      <3>1. row.failed = misses[e] /\ Reopens(e, row.until, now)
        BY <2>5 DEF Counts
      <3> QED
        BY <2>8, <3>1 DEF Reopens
    <2>15. right => \A p : p.failed = 0 => Counts(e, p)'
      <3> SUFFICES ASSUME right
                   PROVE  m = 0 /\ (l # None => now >= l + Lockout)
        BY <1>2, <2>12 DEF Counts, Reopens
      <3>1. now \in Nat /\ at \in Nat /\ at <= now
        BY <1>1, <2>2, <2>3
      <3>2. l = lockedAt[e] /\ l \in Nat \cup {None}
        BY <2>2
      <3> QED
        BY <2>6, <3>1, <3>2
    <2>16. \A s \in Slots \ {r} : req'[s] = Free
      BY <2>4, <2>10 DEF Only
    <2>17. req'[r] = q
      BY <2>10 DEF Only
    <2>18. PinFits(e)'
      <3>1. CASE q = Free
        <4>1. right /\ row.failed = 0
          BY <2>9, <3>1, FreeIsRequest
        <4>2. Counts(e, row)'
          BY <2>15, <4>1
        <4>3. pin'[e] = row
          BY <1>2
        <4> QED
          BY <4>2, <4>3 DEF PinFits, Counts, Reopens
      <3>2. CASE q.pc = "save" /\ q.code = e
        BY <2>17, <3>2 DEF PinFits, Saving
      <3> QED
        BY <2>9, <3>1, <3>2
    <2>19. StepFits(q)'
      BY <2>8, <2>9, <2>14, <2>15, FreeIsRequest DEF StepFits
    <2>20. \A s \in Slots : StepFits(req[s])'
      BY <2>16, <2>17, <2>19, FreeIsRequest DEF StepFits, Counts, Reopens
    <2> QED
      BY <2>11, <2>13, <2>16, <2>18, <2>20 DEF Patient, Single
  <1> QED
    BY <1>1, <1>3, <1>4 DEF Verify

\* The rest touches no PIN, or destroys it.
LEMMA HoldPatient ==
  ASSUME IInv, Patient, NEW e \in Codes, Refer(e) \/ PlaceHold(e) \/ ReleaseHold(e)
  PROVE  Patient'
  <1>1. UNCHANGED <<now, attempts>> /\ pin' = pin
    BY DEF Refer, PlaceHold, ReleaseHold
  <1>2. \A s \in Slots : req[s].pc = "verify" => req[s].code \in Codes
    BY Shapes DEF IInv, Typed, VerifyRequest
  <1>3. ASSUME NEW s \in Slots
        PROVE  \/ req'[s] = req[s]
               \/ req[s] # Free /\ req[s].pc # "save" /\ req'[s].pc \notin {"save", "verify"}
    <2>1. CASE Refer(e) \/ PlaceHold(e)
      BY <2>1 DEF Refer, PlaceHold
    <2>2. CASE ReleaseHold(e)
      BY <2>2, FreeIsRequest, Shapes, Learns DEF ReleaseHold, Purging, IInv, Typed
    <2> QED
      BY <2>1, <2>2
  <1> QED
    BY <1>1, <1>2, <1>3, PinsUnnoticed

LEMMA SaveLeavePatient == ASSUME IInv, Patient, NEW r \in Slots, SaveLeave(r) PROVE Patient'
  <1>1. UNCHANGED <<now, attempts>> /\ pin' = pin
    BY DEF SaveLeave
  <1>2. \A s \in Slots : req[s].pc = "verify" => req[s].code \in Codes
    BY Shapes DEF IInv, Typed, VerifyRequest
  <1>3. PICK c \in Codes : req[r].code = c
    BY Shapes DEF SaveLeave, LeaveRequest, IInv, Typed
  <1>4. \A s \in Slots : \/ req'[s] = req[s]
                          \/ /\ req[s] # Free /\ req[s].pc # "save"
                             /\ req'[s].pc \notin {"save", "verify"}
    BY <1>3, FreeIsRequest, Shapes, Learns DEF SaveLeave, Purging, IInv, Typed
  <1> QED
    BY <1>1, <1>2, <1>4, PinsUnnoticed

LEMMA PurgePatient ==
  ASSUME IInv, Patient, NEW r \in Slots,
         Listed(r) \/ Purged(r) \/ \E e \in Codes : CheckHold(r, e) \/ Destroy(r, e)
  PROVE  Patient'
  <1> USE DEF tables
  <1>1. UNCHANGED <<now, attempts>>
    BY DEF CheckHold, Listed, Destroy, Purged
  <1>2. \A c \in Codes : pin'[c] = pin[c] \/ pin'[c] = Absent
    BY DEF CheckHold, Listed, Destroy, Purged, IInv, Typed
  <1>3. \A s \in Slots : req[s].pc = "verify" => req[s].code \in Codes
    BY Shapes DEF IInv, Typed, VerifyRequest
  <1>4. req[r] \in PurgeRequest /\ req[r].pc \in Purging
    BY Shapes DEF CheckHold, Listed, Destroy, Purged, IInv, Typed, Purging
  <1>5. \A s \in Slots \ {r} : req'[s] = req[s]
    BY DEF CheckHold, Listed, Destroy, Purged, End, IInv, Typed
  <1>6. req'[r].pc \notin {"save", "verify"}
    <2>1. CASE End(r)
      BY <2>1, FreeIsRequest DEF End, IInv, Typed
    <2>2. ASSUME NEW e \in Codes, CheckHold(r, e) PROVE req'[r].pc \notin {"save", "verify"}
      <3> PICK due : due = IF HasActiveHold(e) THEN req[r].due ELSE req[r].due \cup {e}
        OBVIOUS
      <3> PICK todo : todo = req[r].todo \ {e}
        OBVIOUS
      <3> PICK q : q = [req[r] EXCEPT !.todo = todo, !.due = due]
        OBVIOUS
      <3>1. req' = [req EXCEPT ![r] = q]
        BY <2>2 DEF CheckHold
      <3>2. q.pc = req[r].pc
        BY <1>4 DEF PurgeRequest
      <3> QED
        BY <1>4, <3>1, <3>2 DEF Purging, IInv, Typed
    <2>3. CASE req' = [req EXCEPT ![r].pc = "delete"]
      <3> PICK q : q = [req[r] EXCEPT !.pc = "delete"]
        OBVIOUS
      <3>1. req' = [req EXCEPT ![r] = q]
        BY <2>3
      <3>2. q.pc = "delete"
        BY <1>4 DEF PurgeRequest
      <3> QED
        BY <3>1, <3>2 DEF IInv, Typed
    <2>4. ASSUME NEW e \in Codes, req' = [req EXCEPT ![r].due = @ \ {e}]
          PROVE  req'[r].pc \notin {"save", "verify"}
      <3> PICK due : due = req[r].due \ {e}
        OBVIOUS
      <3> PICK q : q = [req[r] EXCEPT !.due = due]
        OBVIOUS
      <3>1. req' = [req EXCEPT ![r] = q]
        BY <2>4
      <3>2. q.pc = req[r].pc
        BY <1>4 DEF PurgeRequest
      <3> QED
        BY <1>4, <3>1, <3>2 DEF Purging, IInv, Typed
    <2> QED
      BY <2>1, <2>2, <2>3, <2>4 DEF Listed, Destroy, Purged
  <1>7. ASSUME NEW s \in Slots
        PROVE  \/ req'[s] = req[s]
               \/ req[s] # Free /\ req[s].pc # "save" /\ req'[s].pc \notin {"save", "verify"}
    BY <1>4, <1>5, <1>6, FreeIsRequest DEF Purging
  <1> QED
    BY <1>1, <1>2, <1>3, <1>7, PinsUnnoticed

\* As long as no request overlaps another, every step keeps the counters, the
\* rows of the PINs and what the requests are about to save in agreement.
THEOREM NextPatient ==
  IInv /\ (~overlapped => Patient) /\ [Next]_vars => (~overlapped' => Patient')
  <1> SUFFICES ASSUME IInv, ~overlapped => Patient, [Next]_vars, ~overlapped' PROVE Patient'
    OBVIOUS
  <1>1. CASE UNCHANGED vars
    BY <1>1 DEF vars, tables, attempts, Patient, Single, PinFits, TryFits, StepFits, Counts, Reopens, Saving
  <1>2. CASE Tick
    <2>1. Patient
      BY <1>2 DEF Tick
    <2> QED
      BY <1>2, <2>1, TickPatient
  <1>3. ASSUME NEW e \in Codes, Refer(e) \/ PlaceHold(e) \/ ReleaseHold(e) PROVE Patient'
    <2>1. Patient
      BY <1>3 DEF Refer, PlaceHold, ReleaseHold
    <2> QED
      BY <1>3, <2>1, HoldPatient
  <1>4. ASSUME NEW r \in Slots, NEW e \in Codes, NEW withPin \in BOOLEAN, Create(r, e, withPin)
        PROVE  Patient'
    <2>1. Patient
      BY <1>4 DEF Create
    <2> QED
      BY <1>4, <2>1, CreatePatient
  <1>5. ASSUME NEW r \in Slots,
               SavePin(r) \/ SaveLeave(r) \/ Verify(r) \/ SaveAttempts(r)
        PROVE  Patient'
    <2>1. Patient
      BY <1>5 DEF SavePin, SaveLeave, Verify, SaveAttempts
    <2> QED
      BY <1>5, <2>1, SavePinPatient, SaveLeavePatient, VerifyPatient, SaveAttemptsPatient
  <1>6. ASSUME NEW r \in Slots,
               Listed(r) \/ Purged(r) \/ \E e \in Codes : CheckHold(r, e) \/ Destroy(r, e)
        PROVE  Patient'
    <2>1. Patient
      BY <1>6 DEF Listed, Purged, CheckHold, Destroy
    <2> QED
      BY <1>6, <2>1, PurgePatient
  <1> QED
    BY <1>1, <1>2, <1>3, <1>4, <1>5, <1>6, SendsPatient, UnlockPatient, ResetPatient DEF Next

\* Unless requests have overlapped, Patient holds.
THEOREM PatientInvariant == Spec => [](~overlapped => Patient)
  <1>1. Init => (~overlapped => Patient)
    BY InitPatient
  <1>2. IInv /\ (~overlapped => Patient) /\ [Next]_vars => (~overlapped => Patient)'
    BY NextPatient
  <1> QED
    BY <1>1, <1>2, Invariant, PTL DEF Spec

\* Wrong PINs lock it: while no request overlaps another, no PIN is compared
\* until Lockout has passed since the last lockout, unless it was reset
\* (verify_employee_pin, apps/identity/auth/services.py).
THEOREM LockedPinWaitsHolds == Spec => []LockedPinWaitsIfPatient
  <1>1. (~overlapped => Patient) => LockedPinWaitsIfPatient
    BY DEF Patient, TryFits, LockedPinWaitsIfPatient
  <1> QED
    BY <1>1, PatientInvariant, PTL
=============================================================================
