----------------------------- MODULE KioskActions -----------------------------
(***************************************************************************)
(* One paired tablet at the shop's counter (assets/ts/kiosk.ts) and the two*)
(* views it calls: kiosk_unlock (apps/devices/views.py) and kiosk_punch    *)
(* (apps/attendance/views.py).                                             *)
(*                                                                         *)
(* An unlock leaves an action token in the tablet's session; a punch takes *)
(* the employee from the token it finds and drops the token.  The session  *)
(* is a row that every request reads when it starts (the CSRF token is in  *)
(* it) and writes as a whole when it ends, if it changed it, unless the    *)
(* answer is a server error.  The tablet does not wait for an answer       *)
(* before it sends the next request.                                       *)
(*                                                                         *)
(* record_punch is taken as one step: Punches is about its inside.  Wrong  *)
(* PINs, which change no session, and keys sent twice, which the tablet    *)
(* never does, are left out.  Tokens are numbered; 0 stands for none.      *)
(***************************************************************************)
EXTENDS Naturals, Sequences

CONSTANTS
  Employees,
  Jobs         \* requests, each sent at most once

VARIABLES
  shift,       \* current_shift_state of each employee
  unlocks,     \* Seq(Employees): who unlocked with the n-th token
  lapsed,      \* tokens up to this one have outlived KIOSK_ACTION_TTL
  token,       \* the one stored in the session
  screen,      \* what the tablet shows
  kind, who,   \* of a request: what it is for, and who sent it
  pc, held, reply,   \* how far it is, the token in its copy of the session, its answer
  log,         \* what has been recorded
  overlapped   \* history: a request has been sent while another was on its way

server == <<shift, unlocks, lapsed, token, log>>
vars == <<server, screen, kind, who, pc, held, reply, overlapped>>

State == {"IDLE", "WORKING", "ON_BREAK"}
PunchKind == {"CLOCK_IN", "BREAK_START", "BREAK_END", "CLOCK_OUT"}
Nobody == [name |-> "pin"]
ActionScreen == [name : {"action"}, employee : Employees, state : State]
Reply == {"none", "locked", "expired", "invalid", "recorded", "server_error"} \cup State
Recorded == [employee : Employees, kind : PunchKind, token : Nat, job : Jobs]

TypeOK ==
  /\ shift \in [Employees -> State]
  /\ unlocks \in Seq(Employees) /\ lapsed \in 0..Len(unlocks) /\ token \in 0..Len(unlocks)
  /\ screen \in ActionScreen \cup {Nobody}
  /\ kind \in [Jobs -> PunchKind \cup {"unlock"}]
  /\ who \in [Jobs -> Employees]
  /\ pc \in [Jobs -> {"idle", "sent", "act", "save", "answered", "ended"}]
  /\ held \in [Jobs -> 0..Len(unlocks)]
  /\ reply \in [Jobs -> Reply]
  /\ log \in Seq(Recorded)
  /\ overlapped \in BOOLEAN

Init ==
  /\ shift \in [Employees -> State]
  /\ unlocks = <<>> /\ lapsed = 0 /\ token = 0
  /\ screen = Nobody
  /\ kind = [j \in Jobs |-> "unlock"]
  /\ \E e \in Employees : who = [j \in Jobs |-> e]
  /\ pc = [j \in Jobs |-> "idle"]
  /\ held = [j \in Jobs |-> 0]
  /\ reply = [j \in Jobs |-> "none"]
  /\ log = <<>>
  /\ overlapped = FALSE

-----------------------------------------------------------------------------
(* The tablet *)

\* syncActions, and _ALLOWED_NEXT.
Allowed(state) == CASE state = "IDLE" -> {"CLOCK_IN"}
                    [] state = "WORKING" -> {"BREAK_START", "CLOCK_OUT"}
                    [] state = "ON_BREAK" -> {"BREAK_END"}
After(k) == CASE k \in {"CLOCK_IN", "BREAK_END"} -> "WORKING"
              [] k = "BREAK_START" -> "ON_BREAK"
              [] k = "CLOCK_OUT" -> "IDLE"

Send(j, k, e) ==
  /\ pc[j] = "idle"
  /\ overlapped' = (overlapped \/ \E i \in Jobs : pc[i] \notin {"idle", "ended"})
  /\ kind' = [kind EXCEPT ![j] = k]
  /\ who' = [who EXCEPT ![j] = e]
  /\ pc' = [pc EXCEPT ![j] = "sent"]
  /\ UNCHANGED <<server, screen, held, reply>>

\* An employee enters code and PIN ...
Unlock(j) == screen = Nobody /\ \E e \in Employees : Send(j, "unlock", e)

\* ... and taps one of the buttons, which stay until an answer comes.
Tap(j) ==
  /\ screen # Nobody
  /\ \E k \in Allowed(screen.state) : Send(j, k, screen.employee)

\* Cancelled, or locked by the timer.
Lock == screen # Nobody /\ screen' = Nobody
        /\ UNCHANGED <<server, kind, who, pc, held, reply, overlapped>>

\* The answer: an unlock shows the buttons, a punch ends at the PIN; what is
\* not JSON throws, and the screen stays.
Buttons(j) == [name |-> "action", employee |-> who[j], state |-> reply[j]]
Shown(j) == IF kind[j] = "unlock" THEN Buttons(j)
            ELSE IF reply[j] = "server_error" THEN screen ELSE Nobody

Receive(j) ==
  /\ pc[j] = "answered"
  /\ pc' = [pc EXCEPT ![j] = "ended"]
  /\ screen' = Shown(j)
  /\ UNCHANGED <<server, kind, who, held, reply, overlapped>>

\* The request never arrives, or its answer does not: fetch throws, and the
\* screen stays as it is.
Lose(j) ==
  /\ pc[j] \in {"sent", "answered"}
  /\ pc' = [pc EXCEPT ![j] = "ended"]
  /\ UNCHANGED <<server, screen, kind, who, held, reply, overlapped>>

-----------------------------------------------------------------------------
(* The server *)

\* The middlewares load the session.
LoadSession(j) ==
  /\ pc[j] = "sent"
  /\ held' = [held EXCEPT ![j] = token]
  /\ pc' = [pc EXCEPT ![j] = "act"]
  /\ UNCHANGED <<server, screen, kind, who, reply, overlapped>>

Answer(j, r, label) == reply' = [reply EXCEPT ![j] = r] /\ pc' = [pc EXCEPT ![j] = label]

\* kiosk_unlock mints a token and answers with the state of the shift.
MintToken(j) ==
  /\ pc[j] = "act" /\ kind[j] = "unlock"
  /\ unlocks' = Append(unlocks, who[j])
  /\ held' = [held EXCEPT ![j] = Len(unlocks) + 1]
  /\ Answer(j, shift[who[j]], "save")
  /\ UNCHANGED <<shift, lapsed, token, log, screen, kind, who, overlapped>>

\* No token: nothing to save.
Refuse(j) ==
  /\ pc[j] = "act" /\ kind[j] # "unlock"
  /\ held[j] = 0
  /\ Answer(j, "locked", "answered")
  /\ UNCHANGED <<server, screen, kind, who, held, overlapped>>

Expired(n) == n <= lapsed

Expire(j) ==
  /\ pc[j] = "act" /\ kind[j] # "unlock"
  /\ held[j] # 0 /\ Expired(held[j])
  /\ Answer(j, "expired", "save")
  /\ UNCHANGED <<server, screen, kind, who, held, overlapped>>

\* record_punch, for the employee of the token; a failure is rolled back and
\* leaves the view as an exception.
Punch(j) ==
  /\ pc[j] = "act" /\ kind[j] # "unlock"
  /\ held[j] # 0 /\ ~Expired(held[j])
  /\ LET e == unlocks[held[j]] IN
     \/ /\ kind[j] \in Allowed(shift[e])
        /\ shift' = [shift EXCEPT ![e] = After(kind[j])]
        /\ log' = Append(log, [employee |-> e, kind |-> kind[j], token |-> held[j], job |-> j])
        /\ Answer(j, "recorded", "save")
     \/ /\ kind[j] \notin Allowed(shift[e])
        /\ Answer(j, "invalid", "save")
        /\ UNCHANGED <<shift, log>>
     \/ Answer(j, "server_error", "answered") /\ UNCHANGED <<shift, log>>
  /\ UNCHANGED <<unlocks, lapsed, token, screen, kind, who, held, overlapped>>

\* What the middleware writes back.  Faulty variants: the token is dropped only
\* if the punch was recorded; only if it was not; an unlock keeps one that is there.
PoppedIfRecorded(j) == IF kind[j] = "unlock" \/ reply[j] # "recorded" THEN held[j] ELSE 0
PoppedIfRefused(j) == IF kind[j] = "unlock" \/ reply[j] = "recorded" THEN held[j] ELSE 0
FirstKept(j) == IF kind[j] # "unlock" THEN 0 ELSE IF token # 0 THEN token ELSE held[j]
Written(j) == IF kind[j] = "unlock" THEN held[j] ELSE 0

SaveSession(j) ==
  /\ pc[j] = "save"
  /\ token' = Written(j)
  /\ pc' = [pc EXCEPT ![j] = "answered"]
  /\ UNCHANGED <<shift, unlocks, lapsed, log, screen, kind, who, held, reply, overlapped>>

\* Two minutes pass.
Lapse ==
  /\ lapsed < Len(unlocks)
  /\ lapsed' = lapsed + 1
  /\ UNCHANGED <<shift, unlocks, token, log, screen, kind, who, pc, held, reply, overlapped>>

\* The employee punches at another tablet.
PunchElsewhere(e) ==
  /\ \E k \in Allowed(shift[e]) : shift' = [shift EXCEPT ![e] = After(k)]
  /\ UNCHANGED <<unlocks, lapsed, token, log, screen, kind, who, pc, held, reply, overlapped>>

Serve(j) == \/ LoadSession(j) \/ MintToken(j) \/ Refuse(j)
            \/ Expire(j) \/ Punch(j) \/ SaveSession(j)
Next ==
  \/ \E j \in Jobs : Unlock(j) \/ Tap(j) \/ Receive(j) \/ Lose(j) \/ Serve(j)
  \/ \E e \in Employees : PunchElsewhere(e)
  \/ Lock
  \/ Lapse

Spec == Init /\ [][Next]_vars

-----------------------------------------------------------------------------
(* Properties *)

\* "Each unlock authorizes exactly one action" (attendance/views.py).
OneActionPerUnlock ==
  \A m, n \in DOMAIN log : log[m].token = log[n].token => m = n

\* It does as long as the tablet waits for each answer before it sends the
\* next request, also when answers are lost.
OneActionIfPatient == overlapped \/ OneActionPerUnlock

\* The employees record their own punches, by their own PIN (the plan): what
\* is recorded is recorded for whoever tapped it.
PunchIsOfWhoTapped == \A n \in DOMAIN log : log[n].employee = who[log[n].job]

\* So it is, too, as long as the tablet waits.
OwnPunchIfPatient == overlapped \/ PunchIsOfWhoTapped

\* "Consume the token regardless of outcome" (attendance/views.py): once a
\* punch that found a token is answered, no later request finds it, unless the
\* answer is a server error, with which the session is not saved.
AnsweredTokenConsumed ==
  \A j \in Jobs :
    pc[j] \in {"answered", "ended"} /\ reply[j] \in {"recorded", "invalid", "expired"}
    => token # held[j]
=============================================================================
