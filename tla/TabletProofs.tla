---------------------------- MODULE TabletProofs ----------------------------
(***************************************************************************)
(* Proofs about a tablet, for every number of requests, employees and      *)
(* codes.  KioskActions: the token of an answered punch is gone, and a     *)
(* tablet that waits for each answer spends an unlock on one action, of    *)
(* whoever unlocked it.  Pairing: a code pairs one tablet, and is refused  *)
(* to another only for that.                                               *)
(***************************************************************************)
EXTENDS KioskActions, Pairing, TLAPS

-----------------------------------------------------------------------------
(* KioskActions: the inductive invariant *)

\* Answers to a punch that found a token and consumed it.
Spent == {"recorded", "invalid", "expired"}

\* A request is answered once, and the answer is one to what was asked.
ReplyFits(j) ==
  /\ pc[j] \in {"idle", "sent", "act"} => reply[j] = "none"
  /\ reply[j] \in Spent => kind[j] # "unlock" /\ held[j] # 0
  /\ kind[j] = "unlock" /\ pc[j] \in {"save", "answered"} => reply[j] \in State

\* Until an unlock is saved, nobody else has its token.
MintFits(j) ==
  kind[j] = "unlock" /\ pc[j] = "save" =>
    /\ held[j] # 0 /\ token # held[j]
    /\ \A i \in Jobs \ {j} : held[i] # held[j]

Consumed(j) == pc[j] \in {"answered", "ended"} /\ reply[j] \in Spent => token # held[j]

\* What is recorded is recorded by a request with that answer and that token.
LogFits ==
  \A n \in DOMAIN log : reply[log[n].job] = "recorded" /\ held[log[n].job] = log[n].token

JobsFit == \A j \in Jobs : ReplyFits(j) /\ MintFits(j) /\ Consumed(j)

IInv == TypeOK /\ JobsFit /\ LogFits

-----------------------------------------------------------------------------
(* Sequences, screens and buttons *)

LEMMA AppendRow ==
  ASSUME NEW S, NEW t \in Seq(S), NEW x \in S
  PROVE  /\ Append(t, x) \in Seq(S)
         /\ Len(t) \in Nat /\ Len(Append(t, x)) = Len(t) + 1
         /\ DOMAIN t = 1..Len(t)
         /\ DOMAIN Append(t, x) = DOMAIN t \cup {Len(t) + 1}
         /\ Append(t, x)[Len(t) + 1] = x
         /\ \A n \in DOMAIN t : Append(t, x)[n] = t[n] /\ n # Len(t) + 1
  OBVIOUS

LEMMA LogRow == ASSUME TypeOK, NEW n \in DOMAIN log PROVE log[n] \in Recorded /\ log[n].job \in Jobs
  <1>1. log[n] \in Recorded
    BY DEF TypeOK
  <1> QED
    BY <1>1 DEF Recorded

LEMMA NobodyIsNoEmployee ==
  \A s \in ActionScreen : s # Nobody /\ s.employee \in Employees /\ s.state \in State
  BY DEF ActionScreen, Nobody

\* The buttons of a screen are for punches.
LEMMA AllowedKinds == \A s \in State : Allowed(s) \subseteq PunchKind
  <1>1. Allowed("IDLE") \subseteq PunchKind
    BY DEF Allowed, PunchKind
  <1>2. Allowed("WORKING") \subseteq PunchKind
    BY DEF Allowed, PunchKind
  <1>3. Allowed("ON_BREAK") \subseteq PunchKind
    BY DEF Allowed, PunchKind
  <1> QED
    BY <1>1, <1>2, <1>3 DEF State

\* Every punch leads to a state.
LEMMA AfterState == \A k \in PunchKind : After(k) \in State
  BY DEF After, PunchKind, State

-----------------------------------------------------------------------------
(* Steps of one request *)

Only(j) ==
  \A i \in Jobs \ {j} :
    /\ pc'[i] = pc[i] /\ kind'[i] = kind[i] /\ who'[i] = who[i]
    /\ held'[i] = held[i] /\ reply'[i] = reply[i]

LEMMA Answered ==
  ASSUME TypeOK, NEW j \in Jobs, NEW r, NEW label, Answer(j, r, label)
  PROVE  /\ reply'[j] = r /\ pc'[j] = label
         /\ \A i \in Jobs \ {j} : reply'[i] = reply[i] /\ pc'[i] = pc[i]
  BY DEF Answer, TypeOK

\* A request that leaves the stored token alone.
LEMMA JobKeeps ==
  ASSUME TypeOK, JobsFit, NEW j \in Jobs, Only(j), token' = token,
         held'[j] \in {held[j], token} \/ \A i \in Jobs : held[i] # held'[j],
         ReplyFits(j)', MintFits(j)', Consumed(j)'
  PROVE  JobsFit'
  <1> SUFFICES ASSUME NEW i \in Jobs, i # j PROVE ReplyFits(i)' /\ MintFits(i)' /\ Consumed(i)'
    BY DEF JobsFit
  <1>1. ReplyFits(i) /\ MintFits(i) /\ Consumed(i)
    BY DEF JobsFit
  <1>2. ReplyFits(i)' /\ Consumed(i)'
    BY <1>1 DEF Only, ReplyFits, Consumed
  <1>3. MintFits(i)'
    <2> SUFFICES ASSUME kind[i] = "unlock", pc[i] = "save"
                 PROVE  /\ held[i] # 0 /\ token # held[i]
                        /\ \A k \in Jobs \ {i} : held'[k] # held[i]
      BY DEF Only, MintFits
    <2> QED
      BY <1>1 DEF Only, MintFits
  <1> QED
    BY <1>2, <1>3

LEMMA LogKeeps ==
  ASSUME TypeOK, LogFits, NEW j \in Jobs, Only(j), log' = log,
         reply[j] = "recorded" => reply'[j] = reply[j] /\ held'[j] = held[j]
  PROVE  LogFits'
  BY LogRow DEF LogFits, Only

-----------------------------------------------------------------------------
(* The invariant *)

\* A tablet that has sent nothing satisfies it.
THEOREM InitInv == Init => IInv
  <1> SUFFICES ASSUME Init PROVE IInv
    OBVIOUS
  <1>1. TypeOK
    <2>1. unlocks \in Seq(Employees) /\ Len(unlocks) = 0 /\ log \in Seq(Recorded)
      BY DEF Init
    <2>2. lapsed \in 0..Len(unlocks) /\ token \in 0..Len(unlocks) /\ held \in [Jobs -> 0..Len(unlocks)]
      BY <2>1 DEF Init
    <2>3. shift \in [Employees -> State] /\ who \in [Jobs -> Employees] /\ reply \in [Jobs -> Reply]
      BY DEF Init, Reply
    <2> QED
      BY <2>1, <2>2, <2>3 DEF Init, TypeOK
  <1>2. JobsFit /\ LogFits
    BY DEF Init, JobsFit, LogFits, ReplyFits, MintFits, Consumed, Spent
  <1> QED
    BY <1>1, <1>2 DEF IInv

LEMMA SendKeeps ==
  ASSUME IInv, NEW j \in Jobs, NEW k \in PunchKind \cup {"unlock"}, NEW e \in Employees, Send(j, k, e)
  PROVE  IInv'
  <1> USE DEF IInv, server
  <1>1. TypeOK'
    BY DEF Send, TypeOK
  <1>2. /\ Only(j) /\ pc[j] = "idle" /\ pc'[j] = "sent"
        /\ UNCHANGED <<token, log, held, reply>>
    BY DEF Send, Only, TypeOK
  <1>3. ReplyFits(j)
    BY DEF JobsFit
  <1>4. ReplyFits(j)' /\ MintFits(j)' /\ Consumed(j)'
    BY <1>2, <1>3 DEF ReplyFits, MintFits, Consumed, Spent
  <1> QED
    BY <1>1, <1>2, <1>4, JobKeeps, LogKeeps

\* The tablet and the requests it sends.
LEMMA TabletKeeps ==
  ASSUME IInv, NEW j \in Jobs, Unlock(j) \/ Tap(j) \/ Receive(j) \/ Lose(j)
  PROVE  IInv'
  <1> USE DEF server
  <1>1. CASE Unlock(j)
    BY <1>1, SendKeeps DEF Unlock
  <1>2. CASE Tap(j)
    <2>1. screen \in ActionScreen
      BY <1>2 DEF Tap, IInv, TypeOK
    <2>2. screen.employee \in Employees /\ Allowed(screen.state) \subseteq PunchKind
      BY <2>1, NobodyIsNoEmployee, AllowedKinds
    <2> QED
      BY <1>2, <2>2, SendKeeps DEF Tap
  <1>3. CASE Receive(j) \/ Lose(j)
    <2>1. ReplyFits(j) /\ MintFits(j) /\ Consumed(j) /\ pc[j] \in {"sent", "answered"}
      BY <1>3 DEF IInv, JobsFit, Receive, Lose
    <2>2. screen' \in ActionScreen \cup {Nobody}
      <3>1. CASE screen' = screen \/ screen' = Nobody
        BY <3>1 DEF IInv, TypeOK
      <3>2. CASE screen' = Buttons(j) /\ kind[j] = "unlock" /\ pc[j] = "answered"
        BY <2>1, <3>2 DEF ReplyFits, Buttons, ActionScreen, IInv, TypeOK
      <3> QED
        BY <1>3, <3>1, <3>2 DEF Receive, Lose, Shown
    <2>3. TypeOK'
      BY <1>3, <2>2 DEF Receive, Lose, IInv, TypeOK
    <2>4. /\ Only(j) /\ pc'[j] = "ended"
          /\ UNCHANGED <<token, log, held, reply, kind>>
      BY <1>3 DEF Receive, Lose, Only, IInv, TypeOK
    <2>5. ReplyFits(j)' /\ MintFits(j)' /\ Consumed(j)'
      BY <2>1, <2>4 DEF ReplyFits, MintFits, Consumed, Spent
    <2> QED
      BY <2>3, <2>4, <2>5, JobKeeps, LogKeeps DEF IInv
  <1> QED
    BY <1>1, <1>2, <1>3

LEMMA LoadKeeps == ASSUME IInv, NEW j \in Jobs, LoadSession(j) PROVE IInv'
  <1> USE DEF IInv, server
  <1>1. TypeOK'
    BY DEF LoadSession, TypeOK
  <1>2. /\ Only(j) /\ pc[j] = "sent" /\ pc'[j] = "act" /\ held'[j] = token
        /\ UNCHANGED <<token, log, reply, kind>>
    BY DEF LoadSession, Only, TypeOK
  <1>3. reply[j] = "none"
    BY <1>2 DEF JobsFit, ReplyFits
  <1>4. ReplyFits(j)' /\ MintFits(j)' /\ Consumed(j)'
    BY <1>2, <1>3 DEF ReplyFits, MintFits, Consumed, Spent
  <1> QED
    BY <1>1, <1>2, <1>3, <1>4, JobKeeps, LogKeeps

LEMMA MintKeeps == ASSUME IInv, NEW j \in Jobs, MintToken(j) PROVE IInv'
  <1> USE DEF IInv, server
  <1> PICK n : n = Len(unlocks) + 1
    OBVIOUS
  <1>1. /\ unlocks' \in Seq(Employees) /\ Len(unlocks') = n
        /\ n \in Nat /\ \A m \in 0..Len(unlocks) : m # n /\ m \in 0..n
    BY AppendRow DEF MintToken, TypeOK
  <1>2. /\ held' = [held EXCEPT ![j] = n]
        /\ reply' = [reply EXCEPT ![j] = shift[who[j]]]
        /\ pc' = [pc EXCEPT ![j] = "save"]
        /\ pc[j] = "act" /\ kind[j] = "unlock"
        /\ UNCHANGED <<shift, lapsed, token, log, screen, kind, who, overlapped>>
    BY DEF MintToken, Answer
  <1>3. /\ Only(j) /\ pc'[j] = "save" /\ held'[j] = n
        /\ shift[who[j]] \in State /\ reply'[j] = shift[who[j]]
    BY <1>2 DEF Only, TypeOK
  <1>4. TypeOK'
    <2>1. held' \in [Jobs -> 0..Len(unlocks')]
      BY <1>1, <1>2 DEF TypeOK
    <2>2. reply' \in [Jobs -> Reply] /\ pc' \in [Jobs -> {"idle", "sent", "act", "save", "answered", "ended"}]
      BY <1>2, <1>3 DEF TypeOK, Reply
    <2> QED
      BY <1>1, <1>2, <2>1, <2>2 DEF TypeOK
  <1>5. \A i \in Jobs : held[i] # n
    BY <1>1 DEF TypeOK
  <1>6. token # n /\ n # 0
    BY <1>1 DEF TypeOK
  <1>7. reply[j] = "none"
    BY <1>2 DEF JobsFit, ReplyFits
  <1>8. ReplyFits(j)' /\ MintFits(j)' /\ Consumed(j)'
    BY <1>2, <1>3, <1>5, <1>6 DEF ReplyFits, MintFits, Consumed, Spent, State, Only
  <1> QED
    BY <1>2, <1>3, <1>4, <1>5, <1>7, <1>8, JobKeeps, LogKeeps

LEMMA PunchKeeps ==
  ASSUME IInv, NEW j \in Jobs, Refuse(j) \/ Expire(j) \/ Punch(j)
  PROVE  IInv'
  <1> USE DEF IInv, server
  <1>1. PICK r \in Reply, label \in {"save", "answered"} :
          /\ Answer(j, r, label)
          /\ r \in Spent => label = "save" /\ held[j] # 0
          /\ \/ UNCHANGED <<shift, log>>
             \/ /\ r = "recorded"
                /\ kind[j] \in PunchKind /\ held[j] \in DOMAIN unlocks
                /\ shift' = [shift EXCEPT ![unlocks[held[j]]] = After(kind[j])]
                /\ log' = Append(log, [employee |-> unlocks[held[j]], kind |-> kind[j],
                                       token |-> held[j], job |-> j])
    <2>1. kind[j] # "unlock" => kind[j] \in PunchKind
      BY DEF TypeOK
    <2>2. held[j] # 0 => held[j] \in DOMAIN unlocks
      BY AppendRow DEF TypeOK
    <2> QED
      BY <2>1, <2>2 DEF Refuse, Expire, Punch, Reply, Spent
  <1>2. /\ pc[j] = "act" /\ kind[j] # "unlock"
        /\ UNCHANGED <<unlocks, lapsed, token, screen, kind, who, held, overlapped>>
    BY DEF Refuse, Expire, Punch
  <1>3. Only(j) /\ pc'[j] = label /\ reply'[j] = r
    BY <1>1, <1>2, Answered DEF Only
  <1>4. reply[j] = "none"
    BY <1>2 DEF JobsFit, ReplyFits
  <1>5. ReplyFits(j)' /\ MintFits(j)' /\ Consumed(j)'
    BY <1>1, <1>2, <1>3 DEF ReplyFits, MintFits, Consumed
  <1>6. JobsFit'
    BY <1>2, <1>3, <1>5, JobKeeps
  <1>7. reply' \in [Jobs -> Reply] /\ pc' \in [Jobs -> {"idle", "sent", "act", "save", "answered", "ended"}]
    BY <1>1 DEF Answer, TypeOK
  <1>8. CASE UNCHANGED <<shift, log>>
    <2>1. TypeOK'
      BY <1>2, <1>7, <1>8 DEF TypeOK
    <2> QED
      BY <1>3, <1>4, <1>6, <1>8, <2>1, LogKeeps
  <1>9. CASE ~UNCHANGED <<shift, log>>
    <2> PICK e : e = unlocks[held[j]]
      OBVIOUS
    <2> PICK entry : entry = [employee |-> e, kind |-> kind[j], token |-> held[j], job |-> j]
      OBVIOUS
    <2> PICK after : after = After(kind[j])
      OBVIOUS
    <2>1. /\ r = "recorded" /\ e \in Employees /\ kind[j] \in PunchKind
          /\ shift' = [shift EXCEPT ![e] = after]
          /\ log' = Append(log, entry)
      BY <1>1, <1>9 DEF TypeOK
    <2>2. after \in State
      BY <2>1, AfterState
    <2>3. entry \in Recorded /\ entry.token = held[j] /\ entry.job = j
      BY <2>1 DEF Recorded, TypeOK
    <2>4. /\ log' \in Seq(Recorded)
          /\ DOMAIN log' = DOMAIN log \cup {Len(log) + 1} /\ log'[Len(log) + 1] = entry
          /\ \A n \in DOMAIN log : log'[n] = log[n]
      BY <2>1, <2>3, AppendRow DEF TypeOK
    <2>5. TypeOK'
      BY <1>2, <1>7, <2>1, <2>2, <2>4 DEF TypeOK
    <2>6. LogFits'
      <3>1. ASSUME NEW n \in DOMAIN log
            PROVE  reply'[log'[n].job] = "recorded" /\ held'[log'[n].job] = log'[n].token
        <4>1. log'[n] = log[n] /\ log[n].job \in Jobs
          BY <2>4, LogRow
        <4>2. reply[log[n].job] = "recorded" /\ held[log[n].job] = log[n].token
          BY DEF LogFits
        <4> QED
          BY <1>3, <1>4, <4>1, <4>2 DEF Only
      <3> QED
        BY <1>2, <1>3, <2>1, <2>3, <2>4, <3>1 DEF LogFits
    <2> QED
      BY <1>6, <2>5, <2>6
  <1> QED
    BY <1>8, <1>9

LEMMA SaveKeeps == ASSUME IInv, NEW j \in Jobs, SaveSession(j) PROVE IInv'
  <1> USE DEF IInv
  <1>1. /\ Only(j) /\ pc[j] = "save" /\ pc'[j] = "answered"
        /\ token' = IF kind[j] = "unlock" THEN held[j] ELSE 0
        /\ UNCHANGED <<unlocks, log, reply, held, kind>>
    BY DEF SaveSession, Written, Only, TypeOK
  <1>2. TypeOK'
    BY <1>1 DEF SaveSession, TypeOK
  <1>3. ASSUME NEW i \in Jobs PROVE ReplyFits(i)' /\ MintFits(i)' /\ Consumed(i)'
    <2>1. /\ ReplyFits(i) /\ MintFits(i) /\ Consumed(i)
          /\ ReplyFits(j) /\ MintFits(j)
      BY DEF JobsFit
    <2>2. ReplyFits(i)'
      BY <1>1, <2>1 DEF ReplyFits, Only
    <2>3. MintFits(i)'
      BY <1>1, <2>1 DEF MintFits, Only
    <2>4. Consumed(i)'
      BY <1>1, <2>1 DEF Consumed, ReplyFits, MintFits, Only, Spent, State
    <2> QED
      BY <2>2, <2>3, <2>4
  <1>4. LogFits'
    BY <1>1, LogKeeps
  <1> QED
    BY <1>2, <1>3, <1>4 DEF JobsFit

\* Steps of no request.
LEMMA OthersKeep ==
  ASSUME IInv, Lock \/ Lapse \/ \E e \in Employees : PunchElsewhere(e)
  PROVE  IInv'
  <1> USE DEF IInv, server
  <1>1. UNCHANGED <<token, log, kind, who, pc, held, reply, unlocks, overlapped>>
    BY DEF Lock, Lapse, PunchElsewhere
  <1>2. JobsFit' /\ LogFits'
    BY <1>1 DEF JobsFit, LogFits, ReplyFits, MintFits, Consumed
  <1>3. shift' \in [Employees -> State]
    <2>1. ASSUME NEW e \in Employees, PunchElsewhere(e) PROVE shift' \in [Employees -> State]
      <3>1. PICK k \in Allowed(shift[e]) : shift' = [shift EXCEPT ![e] = After(k)]
        BY <2>1 DEF PunchElsewhere
      <3>2. After(k) \in State
        BY AllowedKinds, AfterState DEF TypeOK
      <3> QED
        BY <3>1, <3>2 DEF TypeOK
    <2> QED
      BY <2>1 DEF Lock, Lapse, TypeOK
  <1>4. screen' \in ActionScreen \cup {Nobody} /\ lapsed' \in 0..Len(unlocks)
    BY DEF Lock, Lapse, PunchElsewhere, TypeOK
  <1>5. TypeOK'
    BY <1>1, <1>3, <1>4 DEF TypeOK
  <1> QED
    BY <1>2, <1>5

\* Every step of the tablet and of the server keeps the invariant.
THEOREM NextInv == IInv /\ [Next]_vars => IInv'
  <1> SUFFICES ASSUME IInv, [Next]_vars PROVE IInv'
    OBVIOUS
  <1>1. CASE UNCHANGED vars
    BY <1>1 DEF vars, server, IInv, TypeOK, JobsFit, LogFits, ReplyFits, MintFits, Consumed
  <1>2. CASE Next
    BY <1>2, TabletKeeps, LoadKeeps, MintKeeps, PunchKeeps, SaveKeeps, OthersKeep DEF Next, Serve
  <1> QED
    BY <1>1, <1>2

\* So it holds in every state, however requests overlap and are lost.
THEOREM Invariant == Spec => []IInv
  BY InitInv, NextInv, PTL DEF Spec

\* Every variable keeps its type; screens and punches are of employees.
THEOREM TypeCorrect == Spec => []TypeOK
  <1>1. IInv => TypeOK
    BY DEF IInv
  <1> QED
    BY <1>1, Invariant, PTL

\* Once a punch that found a token is answered, no later request finds it
\* (kiosk_punch, apps/attendance/views.py).
THEOREM AnsweredTokenConsumedHolds == Spec => []AnsweredTokenConsumed
  <1>1. IInv => AnsweredTokenConsumed
    BY DEF IInv, JobsFit, Consumed, Spent, AnsweredTokenConsumed
  <1> QED
    BY <1>1, Invariant, PTL

-----------------------------------------------------------------------------
(* A tablet that waits for each answer *)

Busy(j) == pc[j] \notin {"idle", "ended"}
Single == \A i, j \in Jobs : Busy(i) /\ Busy(j) => i = j

\* Token n, if there is one, is e's.
Of(n, e) == n # 0 => unlocks[n] = e

\* The only request under way finds the token of who sent it.
TurnFits(j) ==
  /\ pc[j] = "act" => held[j] = token
  /\ kind[j] # "unlock" => Of(token, who[j])
  /\ kind[j] = "unlock" => /\ screen = Nobody
                           /\ pc[j] \in {"save", "answered"} => Of(held[j], who[j])
                           /\ pc[j] = "answered" => token = held[j]

Patient ==
  /\ Single
  /\ screen # Nobody => Of(token, screen.employee)
  /\ \A j \in Jobs : Busy(j) => TurnFits(j)
  /\ OneActionPerUnlock
  /\ PunchIsOfWhoTapped

LEMMA InitPatient == Init => Patient
  BY DEF Init, Patient, Single, Busy, Of, OneActionPerUnlock, PunchIsOfWhoTapped

\* Steps of a single request that add nothing to the log.
LEMMA LogStays ==
  ASSUME TypeOK, Patient, NEW j \in Jobs, Only(j), log' = log, pc[j] = "idle" => reply[j] = "none",
         who'[j] = who[j] \/ reply[j] = "none", LogFits
  PROVE  OneActionPerUnlock' /\ PunchIsOfWhoTapped'
  <1>1. OneActionPerUnlock'
    BY DEF Patient, OneActionPerUnlock
  <1>2. ASSUME NEW n \in DOMAIN log PROVE log[n].employee = who'[log[n].job]
    <2>1. log[n].job \in Jobs /\ reply[log[n].job] = "recorded" /\ log[n].employee = who[log[n].job]
      BY LogRow DEF LogFits, Patient, PunchIsOfWhoTapped
    <2> QED
      BY <2>1 DEF Only
  <1> QED
    BY <1>1, <1>2 DEF PunchIsOfWhoTapped

LEMMA SendPatient ==
  ASSUME IInv, ~overlapped => Patient, ~overlapped', NEW j \in Jobs, NEW k, NEW e \in Employees,
         Send(j, k, e),
         IF k = "unlock" THEN screen = Nobody ELSE screen # Nobody /\ e = screen.employee
  PROVE  Patient'
  <1> USE DEF server
  <1>1. /\ ~overlapped /\ \A i \in Jobs : ~Busy(i)
        /\ pc[j] = "idle" /\ pc'[j] = "sent" /\ kind'[j] = k /\ who'[j] = e
        /\ UNCHANGED <<unlocks, token, log, screen, held, reply>> /\ Only(j)
    BY DEF Send, Busy, Only, IInv, TypeOK
  <1>2. Patient
    BY <1>1
  <1>3. reply[j] = "none"
    BY <1>1 DEF IInv, JobsFit, ReplyFits
  <1>4. Single' /\ \A i \in Jobs : Busy(i)' => i = j
    BY <1>1 DEF Single, Busy, Only
  <1>5. TurnFits(j)' /\ (screen # Nobody => Of(token, screen.employee))'
    BY <1>1, <1>2 DEF TurnFits, Patient, Of
  <1>6. OneActionPerUnlock' /\ PunchIsOfWhoTapped'
    BY <1>1, <1>2, <1>3, LogStays DEF IInv
  <1> QED
    BY <1>4, <1>5, <1>6 DEF Patient

\* A request goes on, or is over.
LEMMA OneGoesOn ==
  ASSUME TypeOK, Patient, NEW j \in Jobs, Only(j), Busy(j)
  PROVE  /\ Single'
         /\ \A i \in Jobs \ {j} : ~Busy(i)'
         /\ TurnFits(j)
  BY DEF Patient, Single, Busy, Only

LEMMA AnswerPatient ==
  ASSUME IInv, Patient, NEW j \in Jobs, Receive(j) \/ Lose(j)
  PROVE  Patient'
  <1> USE DEF server
  <1>1. /\ Only(j) /\ pc[j] \in {"sent", "answered"} /\ pc'[j] = "ended"
        /\ UNCHANGED <<unlocks, token, log, held, reply, kind, who>>
    BY DEF Receive, Lose, Only, IInv, TypeOK
  <1>2. Busy(j) /\ ~Busy(j)'
    BY <1>1 DEF Busy
  <1>3. Single' /\ (\A i \in Jobs : ~Busy(i)') /\ TurnFits(j)
    BY <1>1, <1>2, OneGoesOn DEF IInv
  <1>4. (screen # Nobody => Of(token, screen.employee))'
    <2>1. CASE screen' = screen \/ screen' = Nobody
      BY <1>1, <2>1 DEF Patient, Of
    <2>2. CASE screen' = Buttons(j) /\ kind[j] = "unlock" /\ pc[j] = "answered"
      <3>1. screen'.employee = who[j]
        BY <2>2 DEF Buttons
      <3> QED
        BY <1>1, <1>3, <2>2, <3>1 DEF TurnFits, Of
    <2> QED
      BY <2>1, <2>2 DEF Receive, Lose, Shown
  <1>5. OneActionPerUnlock' /\ PunchIsOfWhoTapped'
    BY <1>1, LogStays DEF IInv
  <1> QED
    BY <1>3, <1>4, <1>5 DEF Patient

LEMMA LoadPatient == ASSUME IInv, Patient, NEW j \in Jobs, LoadSession(j) PROVE Patient'
  <1> USE DEF server
  <1>1. /\ Only(j) /\ pc[j] = "sent" /\ pc'[j] = "act" /\ held'[j] = token
        /\ UNCHANGED <<unlocks, token, log, screen, reply, kind, who>>
    BY DEF LoadSession, Only, IInv, TypeOK
  <1>2. Busy(j)
    BY <1>1 DEF Busy
  <1>3. Single' /\ (\A i \in Jobs \ {j} : ~Busy(i)') /\ TurnFits(j)
    BY <1>1, <1>2, OneGoesOn DEF IInv
  <1>4. TurnFits(j)' /\ (screen # Nobody => Of(token, screen.employee))'
    BY <1>1, <1>3 DEF TurnFits, Of, Patient
  <1>5. OneActionPerUnlock' /\ PunchIsOfWhoTapped'
    BY <1>1, LogStays DEF IInv
  <1> QED
    BY <1>3, <1>4, <1>5 DEF Patient

LEMMA MintPatient == ASSUME IInv, Patient, NEW j \in Jobs, MintToken(j) PROVE Patient'
  <1> PICK n : n = Len(unlocks) + 1
    OBVIOUS
  <1>1. /\ Only(j) /\ pc[j] = "act" /\ pc'[j] = "save" /\ held'[j] = n /\ kind[j] = "unlock"
        /\ unlocks' = Append(unlocks, who[j])
        /\ UNCHANGED <<token, log, screen, kind, who>>
    BY DEF MintToken, Answer, Only, IInv, TypeOK
  <1>2. unlocks'[n] = who[j] /\ \A m \in DOMAIN unlocks : unlocks'[m] = unlocks[m]
    BY <1>1, AppendRow DEF IInv, TypeOK
  <1>3. token # 0 => unlocks'[token] = unlocks[token]
    <2>1. token # 0 => token \in DOMAIN unlocks
      BY DEF IInv, TypeOK
    <2> QED
      BY <1>2, <2>1
  <1>4. Busy(j)
    BY <1>1 DEF Busy
  <1>5. Single' /\ (\A i \in Jobs \ {j} : ~Busy(i)') /\ TurnFits(j)
    BY <1>1, <1>4, OneGoesOn DEF IInv
  <1>6. TurnFits(j)' /\ (screen # Nobody => Of(token, screen.employee))'
    BY <1>1, <1>2, <1>3, <1>5 DEF TurnFits, Of, Patient
  <1>7. OneActionPerUnlock' /\ PunchIsOfWhoTapped'
    BY <1>1, LogStays DEF IInv
  <1> QED
    BY <1>5, <1>6, <1>7 DEF Patient

\* A punch that is recorded is of who tapped it, and the first with its token.
LEMMA RecordPatient ==
  ASSUME IInv, Patient, NEW j \in Jobs, Only(j), pc[j] = "act", kind[j] # "unlock", held[j] # 0,
         NEW entry \in Recorded, entry.employee = unlocks[held[j]],
         entry.token = held[j], entry.job = j,
         log' = Append(log, entry), who' = who
  PROVE  OneActionPerUnlock' /\ PunchIsOfWhoTapped'
  <1>1. Busy(j) /\ TurnFits(j)
    BY DEF Busy, Patient
  <1>2. held[j] = token /\ entry.employee = who[j]
    BY <1>1 DEF TurnFits, Of
  <1>3. ASSUME NEW n \in DOMAIN log PROVE log[n].token # entry.token
    <2> PICK i : i = log[n].job
      OBVIOUS
    <2>1. i \in Jobs /\ reply[i] = "recorded" /\ held[i] = log[n].token
      BY LogRow DEF IInv, LogFits
    <2>2. ReplyFits(i) /\ Consumed(i) /\ pc[i] \in {"idle", "sent", "act", "save", "answered", "ended"}
      BY <2>1 DEF IInv, JobsFit, TypeOK
    <2>3. i # j
      BY <2>1, <2>2 DEF ReplyFits
    <2>4. pc[i] \in {"answered", "ended"}
      BY <1>1, <2>1, <2>2, <2>3 DEF ReplyFits, Patient, Single, Busy
    <2> QED
      BY <1>2, <2>1, <2>2, <2>4 DEF Consumed, Spent
  <1>4. /\ DOMAIN log' = DOMAIN log \cup {Len(log) + 1} /\ log'[Len(log) + 1] = entry
        /\ \A n \in DOMAIN log : log'[n] = log[n]
    BY AppendRow DEF IInv, TypeOK
  <1>5. OneActionPerUnlock'
    BY <1>3, <1>4 DEF Patient, OneActionPerUnlock
  <1>6. PunchIsOfWhoTapped'
    BY <1>2, <1>4 DEF Patient, PunchIsOfWhoTapped
  <1> QED
    BY <1>5, <1>6

LEMMA PunchPatient ==
  ASSUME IInv, Patient, NEW j \in Jobs, Refuse(j) \/ Expire(j) \/ Punch(j)
  PROVE  Patient'
  <1> USE DEF server
  <1>1. PICK r \in Reply, label \in {"save", "answered"} : Answer(j, r, label)
    BY DEF Refuse, Expire, Punch, Reply
  <1>2. /\ pc[j] = "act" /\ kind[j] # "unlock"
        /\ UNCHANGED <<unlocks, lapsed, token, screen, kind, who, held>>
    BY DEF Refuse, Expire, Punch
  <1>3. Only(j) /\ pc'[j] = label
    BY <1>1, <1>2, Answered DEF Only, IInv
  <1>4. Busy(j)
    BY <1>2 DEF Busy
  <1>5. Single' /\ (\A i \in Jobs \ {j} : ~Busy(i)') /\ TurnFits(j)
    BY <1>3, <1>4, OneGoesOn DEF IInv
  <1>6. TurnFits(j)' /\ (screen # Nobody => Of(token, screen.employee))'
    BY <1>2, <1>3, <1>5 DEF TurnFits, Of, Patient
  <1>7. OneActionPerUnlock' /\ PunchIsOfWhoTapped'
    <2>1. CASE log' = log
      BY <1>2, <1>3, <2>1, LogStays DEF IInv
    <2>2. CASE log' # log
      <3> PICK e : e = unlocks[held[j]]
        OBVIOUS
      <3> PICK entry : entry = [employee |-> e, kind |-> kind[j], token |-> held[j], job |-> j]
        OBVIOUS
      <3>1. log' = Append(log, entry) /\ held[j] # 0
        BY <2>2 DEF Refuse, Expire, Punch
      <3>2. e \in Employees /\ kind[j] \in PunchKind /\ held[j] \in Nat
        BY <1>2, <3>1 DEF IInv, TypeOK
      <3>3. entry \in Recorded /\ entry.employee = e /\ entry.token = held[j] /\ entry.job = j
        BY <3>2 DEF Recorded
      <3> QED
        BY <1>2, <1>3, <3>1, <3>3, RecordPatient
    <2> QED
      BY <2>1, <2>2
  <1> QED
    BY <1>5, <1>6, <1>7 DEF Patient

LEMMA SavePatient == ASSUME IInv, Patient, NEW j \in Jobs, SaveSession(j) PROVE Patient'
  <1>1. /\ Only(j) /\ pc[j] = "save" /\ pc'[j] = "answered"
        /\ token' = IF kind[j] = "unlock" THEN held[j] ELSE 0
        /\ UNCHANGED <<unlocks, log, screen, reply, held, kind, who>>
    BY DEF SaveSession, Written, Only, IInv, TypeOK
  <1>2. Busy(j)
    BY <1>1 DEF Busy
  <1>3. Single' /\ (\A i \in Jobs \ {j} : ~Busy(i)') /\ TurnFits(j)
    BY <1>1, <1>2, OneGoesOn DEF IInv
  <1>4. TurnFits(j)' /\ (screen # Nobody => Of(token, screen.employee))'
    BY <1>1, <1>3 DEF TurnFits, Of
  <1>5. OneActionPerUnlock' /\ PunchIsOfWhoTapped'
    BY <1>1, LogStays DEF IInv
  <1> QED
    BY <1>3, <1>4, <1>5 DEF Patient

LEMMA OthersPatient ==
  ASSUME IInv, Patient, Lock \/ Lapse \/ \E e \in Employees : PunchElsewhere(e)
  PROVE  Patient'
  <1>1. /\ UNCHANGED <<token, log, kind, who, pc, held, reply, unlocks>>
        /\ screen' = screen \/ screen' = Nobody
    BY DEF Lock, Lapse, PunchElsewhere, server
  <1> QED
    BY <1>1 DEF Patient, Single, Busy, TurnFits, Of, OneActionPerUnlock, PunchIsOfWhoTapped

\* While the tablet waits for each answer, every step keeps the token that of
\* who is at the screen.
THEOREM NextPatient ==
  IInv /\ (~overlapped => Patient) /\ [Next]_vars => (~overlapped' => Patient')
  <1> SUFFICES ASSUME IInv, ~overlapped => Patient, [Next]_vars, ~overlapped' PROVE Patient'
    OBVIOUS
  <1> USE DEF server
  <1>1. CASE UNCHANGED vars
    BY <1>1 DEF vars, Patient, Single, Busy, TurnFits, Of, OneActionPerUnlock, PunchIsOfWhoTapped
  <1>2. ASSUME NEW j \in Jobs, Unlock(j) \/ Tap(j) PROVE Patient'
    <2>1. CASE Unlock(j)
      BY <2>1, SendPatient DEF Unlock
    <2>2. CASE Tap(j)
      <3>1. screen \in ActionScreen
        BY <2>2 DEF Tap, IInv, TypeOK
      <3>2. screen.employee \in Employees /\ Allowed(screen.state) \subseteq PunchKind
        BY <3>1, NobodyIsNoEmployee, AllowedKinds
      <3>3. "unlock" \notin PunchKind
        BY DEF PunchKind
      <3> QED
        BY <2>2, <3>2, <3>3, SendPatient DEF Tap
    <2> QED
      BY <1>2, <2>1, <2>2
  <1>3. ASSUME NEW j \in Jobs, Receive(j) \/ Lose(j) \/ Serve(j) PROVE Patient'
    <2>1. Patient
      BY <1>3 DEF Receive, Lose, Serve, LoadSession, MintToken, Refuse, Expire, Punch, SaveSession
    <2> QED
      BY <1>3, <2>1, AnswerPatient, LoadPatient, MintPatient, PunchPatient, SavePatient DEF Serve
  <1>4. CASE Lock \/ Lapse \/ \E e \in Employees : PunchElsewhere(e)
    <2>1. Patient
      BY <1>4 DEF Lock, Lapse, PunchElsewhere
    <2> QED
      BY <1>4, <2>1, OthersPatient
  <1> QED
    BY <1>1, <1>2, <1>3, <1>4 DEF Next

\* So it is, unless requests have overlapped.
THEOREM PatientInvariant == Spec => [](~overlapped => Patient)
  <1>1. Init => (~overlapped => Patient)
    BY InitPatient
  <1>2. IInv /\ (~overlapped => Patient) /\ [Next]_vars => (~overlapped => Patient)'
    BY NextPatient
  <1> QED
    BY <1>1, <1>2, Invariant, PTL DEF Spec

\* An unlock authorizes one action (kiosk_punch, apps/attendance/views.py),
\* also when answers are lost, to a tablet that waits for them.
THEOREM OneActionHolds == Spec => []OneActionIfPatient
  <1>1. (~overlapped => Patient) => OneActionIfPatient
    BY DEF Patient, OneActionIfPatient
  <1> QED
    BY <1>1, PatientInvariant, PTL

\* And what it records is recorded for whoever tapped it.
THEOREM OwnPunchHolds == Spec => []OwnPunchIfPatient
  <1>1. (~overlapped => Patient) => OwnPunchIfPatient
    BY DEF Patient, OwnPunchIfPatient
  <1> QED
    BY <1>1, PatientInvariant, PTL


-----------------------------------------------------------------------------
(* Pairing: the inductive invariant *)

\* A row that is locked was unused and stays so.
LocksFit ==
  /\ \A j \in Activations : \A c \in locked[j] : Unused(c) /\ stage[j] = "lock"
  /\ \A j, k \in Activations : \A c \in Codes : c \in locked[j] /\ c \in locked[k] => j = k

\* A job that has found its code has it still to lock, holds it, or another
\* has used it.
FoundFits ==
  \A j \in Activations : posted[j] \in live[j] =>
    \/ stage[j] = "lock" /\ posted[j] \in todo[j] \cup locked[j]
    \/ device[posted[j]] \in Activations \ {j}
    \/ stage[j] \in {"paired", "dead"}

DeviceFits ==
  /\ \A j \in Activations : stage[j] = "paired" => device[posted[j]] = j
  /\ \A c \in Codes : ~Unused(c) => stage[device[c]] = "paired" /\ posted[device[c]] = c
  /\ \A j \in Activations : stage[j] = "start" => live[j] = {}

PairingIInv == PairingTypeOK /\ LocksFit /\ FoundFits /\ DeviceFits

-----------------------------------------------------------------------------
USE PairingAssumption DEF Codes, Ended

LEMMA PairingInitInv == PairingInit => PairingIInv
  BY DEF PairingInit, PairingIInv, PairingTypeOK, LocksFit, FoundFits, DeviceFits, Unused

LEMMA FindInv ==
  ASSUME PairingIInv, NEW j \in Activations, Find(j)
  PROVE  PairingIInv'
  <1>1. PICK rows : rows = {c \in 1..issued \ expired : Unused(c)}
    OBVIOUS
  <1>2. rows \in SUBSET Codes
    BY <1>1 DEF PairingIInv, PairingTypeOK
  <1>3. /\ stage[j] = "start" /\ stage' = [stage EXCEPT ![j] = "lock"]
        /\ live' = [live EXCEPT ![j] = rows] /\ todo' = [todo EXCEPT ![j] = rows]
        /\ UNCHANGED <<issued, expired, device, active, posted, locked>>
    BY <1>1 DEF Find
  <1>4. PairingTypeOK'
    BY <1>2, <1>3 DEF PairingIInv, PairingTypeOK
  <1>5. LocksFit'
    BY <1>2, <1>3 DEF PairingIInv, PairingTypeOK, LocksFit, Unused
  <1>6. FoundFits'
    BY <1>2, <1>3 DEF PairingIInv, PairingTypeOK, FoundFits
  <1>7. DeviceFits'
    BY <1>2, <1>3 DEF PairingIInv, PairingTypeOK, DeviceFits, Unused
  <1> QED
    BY <1>4, <1>5, <1>6, <1>7 DEF PairingIInv

LEMMA LockRowInv ==
  ASSUME PairingIInv, NEW j \in Activations, LockRow(j)
  PROVE  PairingIInv'
  <1>1. PICK c \in Codes :
          /\ c \in todo[j] /\ \A k \in Activations : c \notin locked[k]
          /\ todo' = [todo EXCEPT ![j] = todo[j] \ {c}]
          /\ locked' = [locked EXCEPT ![j] = IF Unused(c) THEN locked[j] \cup {c} ELSE locked[j]]
    BY DEF LockRow, StillMatches, PairingIInv, PairingTypeOK
  <1>2. stage[j] = "lock" /\ UNCHANGED <<issued, expired, device, active, posted, stage, live>>
    BY DEF LockRow
  <1>3. PICK new \in SUBSET Codes :
          /\ new = IF Unused(c) THEN locked[j] \cup {c} ELSE locked[j]
          /\ locked' = [locked EXCEPT ![j] = new]
    BY <1>1 DEF PairingIInv, PairingTypeOK
  <1>4. PairingTypeOK'
    BY <1>1, <1>2, <1>3 DEF PairingIInv, PairingTypeOK
  <1>5. LocksFit'
    BY <1>1, <1>2, <1>3 DEF PairingIInv, PairingTypeOK, LocksFit, Unused
  <1>6. FoundFits'
    <2> SUFFICES ASSUME NEW k \in Activations, posted[k] \in live[k]
                 PROVE  \/ stage[k] = "lock" /\ posted[k] \in todo'[k] \cup locked'[k]
                        \/ device[posted[k]] \in Activations \ {k}
                        \/ stage[k] \in {"paired", "dead"}
      BY <1>2 DEF FoundFits
    <2>1. CASE k = j /\ posted[k] = c /\ ~Unused(c)
      <3>1. device[c] \in Activations /\ stage[device[c]] = "paired"
        BY <2>1 DEF PairingIInv, PairingTypeOK, DeviceFits, Unused
      <3> QED
        BY <1>2, <2>1, <3>1
    <2>2. CASE ~(k = j /\ posted[k] = c /\ ~Unused(c))
      BY <1>1, <1>3, <2>2 DEF PairingIInv, PairingTypeOK, FoundFits
    <2> QED
      BY <2>1, <2>2
  <1>7. DeviceFits'
    BY <1>2 DEF PairingIInv, DeviceFits, Unused
  <1> QED
    BY <1>4, <1>5, <1>6, <1>7 DEF PairingIInv

LEMMA PairInv ==
  ASSUME PairingIInv, NEW j \in Activations, Pair(j)
  PROVE  PairingIInv'
  <1> DEFINE c == posted[j]
  <1>1. /\ stage[j] = "lock" /\ c \in locked[j] /\ c \in Codes /\ Unused(c)
        /\ device' = [device EXCEPT ![c] = j] /\ active' = active \cup {j}
        /\ stage' = [stage EXCEPT ![j] = "paired"]
        /\ todo' = [todo EXCEPT ![j] = {}] /\ locked' = [locked EXCEPT ![j] = {}]
        /\ UNCHANGED <<issued, expired, posted, live>>
    BY DEF Pair, Finish, Matches, NewDevice, PairingIInv, PairingTypeOK, LocksFit
  <1>2. PairingTypeOK'
    BY <1>1 DEF PairingIInv, PairingTypeOK
  <1>3. LocksFit'
    BY <1>1 DEF PairingIInv, PairingTypeOK, LocksFit, Unused
  <1>4. FoundFits'
    BY <1>1 DEF PairingIInv, PairingTypeOK, FoundFits, LocksFit
  <1>5. DeviceFits'
    BY <1>1 DEF PairingIInv, PairingTypeOK, DeviceFits, Unused
  <1> QED
    BY <1>2, <1>3, <1>4, <1>5 DEF PairingIInv

LEMMA EndInv ==
  ASSUME PairingIInv, NEW j \in Activations, RefuseCode(j) \/ Abort(j)
  PROVE  PairingIInv'
  <1>1. PICK label \in {"refused", "dead"} :
        /\ stage[j] = "lock" /\ stage' = [stage EXCEPT ![j] = label]
        /\ label = "refused" => todo[j] = {} /\ posted[j] \notin locked[j]
        /\ todo' = [todo EXCEPT ![j] = {}] /\ locked' = [locked EXCEPT ![j] = {}]
        /\ UNCHANGED <<issued, expired, posted, live, device, active>>
    BY DEF RefuseCode, Abort, Finish, Matches
  <1>2. PairingTypeOK'
    BY <1>1 DEF PairingIInv, PairingTypeOK
  <1>3. LocksFit'
    BY <1>1 DEF PairingIInv, PairingTypeOK, LocksFit, Unused
  <1>4. FoundFits'
    BY <1>1 DEF PairingIInv, PairingTypeOK, FoundFits
  <1>5. DeviceFits'
    BY <1>1 DEF PairingIInv, PairingTypeOK, DeviceFits, Unused
  <1> QED
    BY <1>2, <1>3, <1>4, <1>5 DEF PairingIInv

LEMMA PairingNextInv == PairingIInv /\ [PairingNext]_pairingVars => PairingIInv'
  <1> SUFFICES ASSUME PairingIInv, [PairingNext]_pairingVars PROVE PairingIInv'
    OBVIOUS
  <1>1. ASSUME CreatePairingCode \/ (\E c \in Codes : ExpireCode(c)) \/ (\E d \in Activations : RevokeDevice(d))
        PROVE  PairingIInv'
    <2>1. UNCHANGED <<device, posted, stage, live, todo, locked>>
      BY <1>1 DEF CreatePairingCode, ExpireCode, RevokeDevice
    <2>2. issued' \in 0..MaxCode
      <3>1. CASE CreatePairingCode
        BY <3>1 DEF CreatePairingCode, PairingIInv, PairingTypeOK
      <3>2. CASE UNCHANGED issued
        BY <3>2 DEF PairingIInv, PairingTypeOK
      <3> QED
        BY <1>1, <3>1, <3>2 DEF ExpireCode, RevokeDevice
    <2>3. expired' \subseteq Codes
      <3>1. ASSUME NEW c \in Codes, ExpireCode(c) PROVE expired' \subseteq Codes
        BY <3>1 DEF ExpireCode, PairingIInv, PairingTypeOK
      <3>2. CASE UNCHANGED expired
        BY <3>2 DEF PairingIInv, PairingTypeOK
      <3> QED
        BY <1>1, <3>1, <3>2 DEF CreatePairingCode, RevokeDevice
    <2>4. active' \subseteq Activations
      BY <1>1 DEF CreatePairingCode, ExpireCode, RevokeDevice, PairingIInv, PairingTypeOK
    <2> QED
      BY <2>1, <2>2, <2>3, <2>4 DEF PairingIInv, PairingTypeOK, LocksFit, FoundFits, DeviceFits, Unused
  <1>2. CASE UNCHANGED pairingVars
    BY <1>2 DEF pairingVars, PairingIInv, PairingTypeOK, LocksFit, FoundFits, DeviceFits, Unused
  <1> QED
    BY <1>1, <1>2, FindInv, LockRowInv, PairInv, EndInv DEF PairingNext, Activate

\* However requests interleave, the locks, what the requests have found and the
\* devices keep fitting together.
THEOREM PairingInvariance == PairingSpec => []PairingIInv
  BY PairingInitInv, PairingNextInv, PTL DEF PairingSpec

-----------------------------------------------------------------------------
(* Pairing: results *)

\* Codes, devices and requests keep their types.
THEOREM PairingTypeCorrect == PairingSpec => []PairingTypeOK
  BY PairingInvariance, PTL DEF PairingIInv

\* However many tablets post a code to activate_device, it pairs one of them.
THEOREM OneDevicePerCode == PairingSpec => []PairsOnce
  <1>1. PairingIInv => PairsOnce
    BY DEF PairingIInv, DeviceFits, PairsOnce
  <1> QED
    BY <1>1, PairingInvariance, PTL

\* A tablet that posts a code in order is paired, or another one has used it.
THEOREM RefusalIsDue == PairingSpec => []RefusedOnlyIfUsed
  <1>1. PairingIInv => RefusedOnlyIfUsed
    BY DEF PairingIInv, FoundFits, RefusedOnlyIfUsed
  <1> QED
    BY <1>1, PairingInvariance, PTL
=============================================================================
