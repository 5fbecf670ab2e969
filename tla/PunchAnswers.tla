----------------------------- MODULE PunchAnswers -----------------------------
(***************************************************************************)
(* Punches with a history: what each request might rightly have been       *)
(* refused with.  A request looks at the tables several times while others *)
(* change them, and the code it is answered with (InvalidPunch, in         *)
(* apps/attendance/services/punches.py) is chosen from what it has seen in *)
(* pieces.  The steps are those of Punches.                                *)
(***************************************************************************)
EXTENDS Punches

VARIABLE due   \* errors that were the right answer at an instant of the request

allVars == <<shifts, events, tap, req, clock, due>>

\* What a service that decided in one step would refuse the tap of key k with.
Refusals(k) ==
  LET open == OpenShifts(tap[k].employee) IN
  IF Recorded(k) THEN {}
  ELSE IF tap[k].kind = "CLOCK_IN" THEN {"SHIFT_ALREADY_OPEN" : s \in open}
  ELSE IF open = {} THEN {"NO_OPEN_SHIFT"}
  ELSE {"ILLEGAL_TRANSITION" :
          s \in {o \in open : tap[k].kind \notin AllowedNext[ShiftState(o)]}}

\* From its arrival to its answer; of an answered request only that remains.
Remember ==
  due' = [r \in Requests |->
            CASE req'[r].pc = "idle" -> {}
              [] req'[r].pc = "check" -> Refusals(req[r].key)'
              [] req'[r].pc = "replied" -> due[r] \cap {req'[r].reply}
              [] OTHER -> due[r] \cup Refusals(req[r].key)']

AnswersInit == Init /\ due = [r \in Requests |-> {}]
AnswersNext ==
  \E r \in Requests :
    \/ Arrive(r) /\ Remember
    \/ Step(r) /\ Remember
    \/ WorkerDies(r) /\ Remember

AnswersSpec == AnswersInit /\ [][AnswersNext]_allVars

\* A request that is turned away (409) is told what was true at one instant
\* while it ran, at which nothing had recorded its tap: a copy of a recorded
\* tap is never told that its punch was illegal, nobody who was on duty all
\* along that there was no open shift, nor somebody off duty that there was one,
\* although the look-ups of key, shift and lock are apart.
RefusedAsDue ==
  \A r \in Requests : req[r].reply \in ErrorCode => req[r].reply \in due[r]
=============================================================================
