----------------------------- MODULE PayableTime -----------------------------
(***************************************************************************)
(* From the events of one shift to the time that is paid in each month     *)
(* (apps/attendance/services/time_calculation/core.py, month_scope.py and  *)
(* the loop of payroll/services/preview.py).                               *)
(*                                                                         *)
(* An instant is a natural number on the clock of Asia/Seoul; a day has    *)
(* Day instants and begins at a multiple of it.  A datetime also has a     *)
(* zone, which decides where calculate sees midnight: PostgreSQL returns   *)
(* punches in UTC, the manager's corrections are local.                    *)
(*                                                                         *)
(* The state is the shift's effective event sequence, built by punches and *)
(* then by corrections; everything else is computed from it.  The optional *)
(* arguments of calculate (rate changes, scheduled breaks, employment) are *)
(* left out: no caller passes them.                                        *)
(*                                                                         *)
(* PayProofs speaks of this module, of Payslips and of Wages, so that no   *)
(* two of them share a name.                                               *)
(***************************************************************************)
EXTENDS Integers, Sequences, FiniteSets, SequencesExt

CONSTANTS
  Day,          \* instants per day
  Offset,       \* of Asia/Seoul from UTC
  MonthLength,  \* instants per month
  Times,        \* instants at which events may lie
  MaxEvents     \* bound: punches per shift

ASSUME PayableTimeAssumption ==
  /\ Day \in Nat \ {0}
  /\ Offset \in 0..(Day - 1)
  /\ MonthLength \in Nat \ {0} /\ MonthLength % Day = 0
  /\ Times \subseteq Nat /\ Times # {} /\ IsFiniteSet(Times)
  /\ MaxEvents \in Nat

VARIABLE events   \* effective_events(shift), in the order it is supplied

PunchKind == {"CLOCK_IN", "BREAK_START", "BREAK_END", "CLOCK_OUT"}
Event == [kind : PunchKind, at : Times, zone : {"UTC", "KST"}]

EventsTypeOK == events \in Seq(Event)

TimeInit == events = <<>>

-----------------------------------------------------------------------------
(* calculate *)

\* sorted(key=at) is stable: equal instants keep the order they came in.
NoLater(evs, i, j) == evs[i].at < evs[j].at \/ (evs[i].at = evs[j].at /\ i <= j)
Places(evs) ==
  [j \in DOMAIN evs |-> Cardinality({i \in DOMAIN evs : NoLater(evs, i, j)})]
InOrder(evs) ==
  LET place == Places(evs)
  IN  [k \in DOMAIN evs |-> evs[CHOOSE j \in DOMAIN evs : place[j] = k]]

\* One round of the loop over the events after the first.
Walked(state, since, done) == [state |-> state, since |-> since, done |-> done]
Interval(from, to) == [start |-> from.at, end |-> to.at, zone |-> from.zone]
Stopped(acc, ev) ==
  Walked(IF ev.kind = "BREAK_START" THEN "ON_BREAK" ELSE "DONE",
         acc.since, acc.done \cup {Interval(acc.since, ev)})
\* Faulty variant: a CLOCK_OUT that ends a break is accepted.
OutFromBreak(acc, ev) ==
  CASE acc.state = "WORKING" /\ ev.kind \in {"BREAK_START", "CLOCK_OUT"} -> Stopped(acc, ev)
    [] acc.state = "ON_BREAK" /\ ev.kind = "BREAK_END" -> Walked("WORKING", ev, acc.done)
    [] acc.state = "ON_BREAK" /\ ev.kind = "CLOCK_OUT" -> Walked("DONE", acc.since, acc.done)
    [] OTHER -> Walked("ILLEGAL", acc.since, acc.done)
Advance(acc, ev) ==
  CASE acc.state = "WORKING" /\ ev.kind \in {"BREAK_START", "CLOCK_OUT"} -> Stopped(acc, ev)
    [] acc.state = "ON_BREAK" /\ ev.kind = "BREAK_END" -> Walked("WORKING", ev, acc.done)
    [] acc.state = "ON_BREAK" /\ ev.kind # "BREAK_END" ->
         Walked("ILLEGAL_ON_BREAK", acc.since, acc.done)
    [] acc.state = "ILLEGAL_ON_BREAK" -> acc
    [] OTHER -> Walked("ILLEGAL", acc.since, acc.done)

Walk(evs) ==
  LET acc[k \in 1..Len(evs)] ==
        IF k = 1 THEN Walked("WORKING", evs[1], {}) ELSE Advance(acc[k - 1], evs[k])
  IN  acc[Len(evs)]

Blocked(codes) == [intervals |-> {}, blockers |-> codes]
WorkIntervals(evs) ==
  LET parsed == InOrder(evs)
      last == Walk(parsed)
  IN  IF parsed = <<>> \/ parsed[1].kind # "CLOCK_IN" THEN Blocked({"ILLEGAL_SEQUENCE"})
      ELSE IF parsed[Len(parsed)].kind # "CLOCK_OUT" THEN Blocked({"OPEN_SHIFT"})
      ELSE IF last.state = "ILLEGAL" THEN Blocked({"ILLEGAL_SEQUENCE"})
      ELSE IF last.state = "ILLEGAL_ON_BREAK"
        THEN Blocked({"ILLEGAL_SEQUENCE", "UNPAIRED_BREAK"})
      ELSE [intervals |-> {i \in last.done : i.start < i.end}, blockers |-> {}]

\* The midnights strictly inside an interval, in the zone of its start.
\* Faulty variant: always in UTC.
UtcMidnights(i) == {t \in (i.start + 1)..(i.end - 1) : t % Day = Offset}
Midnights(i) ==
  {t \in (i.start + 1)..(i.end - 1) :
     t % Day = IF i.zone = "UTC" THEN Offset ELSE 0}

\* _split: consecutive cuts of one interval.  Faulty variant: what follows the
\* last midnight is forgotten.
Cuts(i) == {i.start, i.end} \cup Midnights(i)
NextCut(i, a) == CHOOSE b \in Cuts(i) : a < b /\ \A c \in Cuts(i) : a < c => b <= c
RemainderLost(i) ==
  {[start |-> a, end |-> NextCut(i, a)] : a \in {c \in Cuts(i) : c < i.end /\ NextCut(i, c) < i.end}}
Split(i) == {[start |-> a, end |-> NextCut(i, a)] : a \in Cuts(i) \ {i.end}}

Calculate(evs) ==
  LET work == WorkIntervals(evs)
  IN  [segments |-> UNION {Split(i) : i \in work.intervals},
       blockers |-> work.blockers]

-----------------------------------------------------------------------------
(* Months *)

\* month_start <= t < month_end.  Faulty variant: the end is included.
WithinOrEnd(t, m) == m * MonthLength <= t /\ t <= (m + 1) * MonthLength
Within(t, m) == m * MonthLength <= t /\ t < (m + 1) * MonthLength

\* effective_shift_window(...).touches.  Faulty variant: payable segments only.
SegmentsTouch(evs, m) == \E s \in Calculate(evs).segments : Within(s.start, m)
Touches(evs, m) ==
  \/ \E s \in Calculate(evs).segments : Within(s.start, m)
  \/ \E i \in DOMAIN evs : Within(evs[i].at, m)
  \/ /\ "OPEN_SHIFT" \in Calculate(evs).blockers
     /\ \E i \in DOMAIN evs :
          evs[i].kind = "CLOCK_IN" /\ evs[i].at < (m + 1) * MonthLength

\* What monthly_payroll_lines pays for the shift in month m.
PaidSegments(evs, m) ==
  IF Touches(evs, m)
  THEN {s \in Calculate(evs).segments : Within(s.start, m)} ELSE {}

-----------------------------------------------------------------------------
(* How an effective sequence comes about *)

Kinds(evs) == {evs[i].kind : i \in DOMAIN evs}

\* The transitions record_punch allows, from the last event in time order.
Allowed(evs) ==
  IF evs = <<>> THEN {"CLOCK_IN"}
  ELSE CASE InOrder(evs)[Len(evs)].kind \in {"CLOCK_IN", "BREAK_END"} ->
              {"BREAK_START", "CLOCK_OUT"}
         [] InOrder(evs)[Len(evs)].kind = "BREAK_START" -> {"BREAK_END"}
         [] OTHER -> {}

\* A punch of the open shift.  Its timestamp was taken before it had to wait
\* for the row lock, so it need not be the latest.
Punch(kind, at) ==
  /\ Len(events) < MaxEvents
  /\ "CLOCK_OUT" \notin Kinds(events)
  /\ kind \in Allowed(events)
  /\ events' = InOrder(Append(events, [kind |-> kind, at |-> at, zone |-> "UTC"]))

\* The loop of correct_shift_times: the first CLOCK_IN and every CLOCK_OUT get
\* the times of the form, breaks stay as they are.
Corrected(evs, start, end) ==
  [i \in DOMAIN evs |->
     IF evs[i].kind = "CLOCK_OUT" THEN [kind |-> "CLOCK_OUT", at |-> end, zone |-> "KST"]
     ELSE IF /\ evs[i].kind = "CLOCK_IN"
             /\ \A j \in 1..(i - 1) : evs[j].kind # "CLOCK_IN"
          THEN [kind |-> "CLOCK_IN", at |-> start, zone |-> "KST"]
          ELSE evs[i]]

CorrectTimes(start, end) ==
  /\ {"CLOCK_IN", "CLOCK_OUT"} \subseteq Kinds(events)
  /\ start < end
  /\ Calculate(Corrected(events, start, end)).blockers = {}
  /\ events' = Corrected(events, start, end)

TimeNext ==
  \/ \E kind \in PunchKind, at \in Times : Punch(kind, at)
  \/ \E start, end \in Times : CorrectTimes(start, end)

TimeSpec == TimeInit /\ [][TimeNext]_events

-----------------------------------------------------------------------------
(* Properties *)

Result == Calculate(events)
Instants == 0..((CHOOSE t \in Times : \A u \in Times : u <= t) - 1)
Months == {t \div MonthLength : t \in Instants}

\* The reference: at work from t to t + 1 when one more event has started work
\* than has stopped it.
CountBy(kinds, t) ==
  Cardinality({i \in DOMAIN events : events[i].kind \in kinds /\ events[i].at <= t})
AtWork(t) ==
  CountBy({"CLOCK_IN", "BREAK_END"}, t) = CountBy({"BREAK_START", "CLOCK_OUT"}, t) + 1
Includes(s, t) == s.start <= t /\ t < s.end

\* calculate pays exactly the time at work, and no instant twice, wherever the
\* breaks, the midnights and the punches that share an instant lie.
PaidTimeIsWork ==
  Result.blockers = {} =>
    \A t \in Instants :
      Cardinality({s \in Result.segments : Includes(s, t)}) = IF AtWork(t) THEN 1 ELSE 0

\* A sequence is paid only if it is CLOCK_IN, breaks that are paired, then
\* CLOCK_OUT; anything else is blocked and pays nothing, never a guess.
WellFormed(evs) ==
  /\ Len(evs) >= 2 /\ Len(evs) % 2 = 0
  /\ \A i \in DOMAIN evs :
       evs[i].kind = IF i = 1 THEN "CLOCK_IN" ELSE IF i = Len(evs) THEN "CLOCK_OUT"
                     ELSE IF i % 2 = 0 THEN "BREAK_START" ELSE "BREAK_END"
BlockedUnlessWellFormed ==
  /\ Result.blockers = {} <=> WellFormed(InOrder(events))
  /\ Result.blockers # {} => Result.segments = {}

\* No time is lost or paid twice between the closes of neighbouring months.
PaidOnce ==
  \A s \in Result.segments :
    Cardinality({m \in Months : s \in PaidSegments(events, m)}) = 1

\* Every month in which somebody is at work, or has left a shift open, finds
\* the shift among those whose approval and blockers its close checks, unless
\* the events are out of order.
WorkedMonthIsChecked ==
  "ILLEGAL_SEQUENCE" \notin Result.blockers =>
    \A t \in Instants : \A m \in Months :
      AtWork(t) /\ Within(t, m) => Touches(events, m)

\* "midnight boundaries (which also cover calendar-month [...] boundaries - the
\* pay period is the Asia/Seoul calendar month)" (core.py): time at work is
\* paid in the month it was worked in.
PaidInItsMonth ==
  \A m \in Months : \A s \in PaidSegments(events, m) :
    \A t \in s.start..(s.end - 1) : Within(t, m)

\* The same, for events that all have local times: corrected shifts without a
\* break.
LocalTimesPaidInTheirMonth ==
  (\A i \in DOMAIN events : events[i].zone = "KST") => PaidInItsMonth

\* "The result is independent of the order events are supplied in" (core.py).
OrderIndependent == Calculate(Reverse(events)) = Result
=============================================================================
