-------------------------------- MODULE SignIn --------------------------------
(***************************************************************************)
(* How a manager signs in, stays signed in and leaves                      *)
(* (apps/identity/auth/views.py, services.py, middleware.py), on one       *)
(* browser that may have several requests under way.                       *)
(*                                                                         *)
(* The session is a database row.  A request loads it when it starts and   *)
(* works on the copy; if it changed the copy, it writes all of it back     *)
(* when it ends, and only to a row that still exists.  flush deletes the   *)
(* row, cycle_key moves the session to a new one; both act at once.        *)
(* (External: django.contrib.sessions and its middleware, auth.login.)     *)
(*                                                                         *)
(* The second factor is required: only settings/local.py makes             *)
(* MANAGER_MFA_REQUIRED false, for development, where the password signs   *)
(* in directly, and that branch of manager_login is left out.              *)
(*                                                                         *)
(* There is one manager, so login never meets another user's session.      *)
(* Wrong passwords and pages without a session change nothing and are left *)
(* out, as is the time of manager_reauth, which nothing reads.  A token is *)
(* named by the secret it is computed from, a session row by its key; 0    *)
(* stands for none.                                                        *)
(***************************************************************************)
EXTENDS Naturals, FiniteSets

CONSTANTS
  Slots,          \* requests that can be under way at a time
  RecoveryCodes,
  MaxAttempts,    \* MFA_MAX_ATTEMPTS
  Lockout,        \* MFA_LOCKOUT
  Idle,           \* SESSION_IDLE_TIMEOUT
  Absolute,       \* SESSION_ABSOLUTE_TIMEOUT
  None,
  MaxTime,        \* bound: the clock
  MaxRequests,    \* bound: requests sent
  MaxSecrets      \* bound: TOTP secrets provisioned

ASSUME SignInAssumption ==
  /\ MaxAttempts \in Nat \ {0}
  /\ {Lockout, Idle, Absolute, MaxTime, MaxRequests, MaxSecrets} \subseteq Nat

VARIABLES
  now,
  rows,        \* django_session: [keys -> session or Gone]
  issued,      \* keys given out; a key is never given out again
  cookie,      \* the key the browser sends
  totp,        \* ManagerTOTP
  app,         \* the secret in the manager's authenticator
  throttle,    \* ManagerMfaThrottle
  unused,      \* RecoveryCode without used_at
  req,         \* what each slot's request is doing
  sent,        \* requests sent so far
  overlapped,  \* history: a request was sent while another was under way
  ended,       \* history: keys of sessions that were logged out
  born,        \* history: when the key's session was logged in
  active,      \* history: when its last request was let in
  served,      \* history: the last request let in
  misses,      \* history: codes refused since the last success or lockout
  lockedAt,    \* history: when the last lockout began
  lastTry      \* history: when a code was tried since

session == <<rows, issued, cookie>>
secrets == <<totp, app, throttle, unused>>
history == <<ended, born, active, served>>
attempts == <<misses, lockedAt, lastTry>>
vars == <<now, session, secrets, req, sent, overlapped, history, attempts>>

Keys == 1..MaxRequests
Gone == [key |-> 0]
Empty == [user |-> FALSE, pending |-> FALSE, loginAt |-> 0, last |-> 0]
Free == [pc |-> "free"]
NoMisses == [failed |-> 0, until |-> 0]

Kind == {"login", "setup", "confirm", "mfa", "page", "logout"}
Wrong == 0
Proofs == {Wrong, app} \cup RecoveryCodes

Time == 0..MaxTime
Session == [user : BOOLEAN, pending : BOOLEAN, loginAt : Time, last : Time]
TypeOK ==
  /\ now \in Time
  /\ rows \in [Keys -> Session \cup {Gone}]
  /\ issued \in 0..MaxRequests
  /\ cookie \in 0..issued
  /\ totp \in [secret : 0..MaxSecrets, confirmed : BOOLEAN]
  /\ app \in 0..MaxSecrets
  /\ throttle \in [failed : 0..(MaxAttempts - 1), until : 0..(MaxTime + Lockout)]
  /\ unused \subseteq RecoveryCodes
  /\ \A r \in Slots : req[r] # Free =>
       req[r].kind \in Kind /\ req[r].data \in Session /\ req[r].key \in Keys \cup {0}

Init ==
  /\ now = 0
  /\ rows = [k \in Keys |-> Gone]
  /\ issued = 0 /\ cookie = 0
  /\ \/ totp = [secret |-> 0, confirmed |-> FALSE] /\ app = 0
     \/ totp = [secret |-> 1, confirmed |-> TRUE] /\ app = 1
  /\ throttle = NoMisses
  /\ unused = RecoveryCodes
  /\ req = [r \in Slots |-> Free]
  /\ sent = 0 /\ overlapped = FALSE
  /\ ended = {} /\ served = None
  /\ born = [k \in Keys |-> 0] /\ active = [k \in Keys |-> 0]
  /\ misses = 0 /\ lockedAt = None /\ lastTry = None

Tick ==
  /\ now < MaxTime
  /\ now' = now + 1
  /\ UNCHANGED <<session, secrets, req, sent, overlapped, history, attempts>>

-----------------------------------------------------------------------------
(* A request arrives *)

Go(r, pc) == req' = [req EXCEPT ![r].pc = pc]

\* SessionTimeoutMiddleware.
Expired(data) ==
  \/ now - data.loginAt > Absolute
  \/ now - data.last > Idle

\* Faulty variant: every request renews both times.
RenewBoth(data) == [data EXCEPT !.last = now, !.loginAt = now]
Renewed(data) == [data EXCEPT !.last = now]

\* What needs a password first goes back to the login form without one, and a
\* page of the console has nothing more to do here.
FirstStep(kind, data) ==
  IF kind = "page" \/ (kind \in {"setup", "confirm", "mfa"} /\ ~data.pending)
  THEN "respond" ELSE "view"
Started(kind, proof, key, data, changed) ==
  [pc |-> FirstStep(kind, data), kind |-> kind, proof |-> proof, key |-> key, data |-> data,
   changed |-> changed, seen |-> 0, row |-> NoMisses]

Start(r, kind, proof) ==
  /\ req[r] = Free
  /\ sent < MaxRequests
  /\ sent' = sent + 1
  /\ overlapped' = (overlapped \/ \E s \in Slots : req[s] # Free)
  /\ LET key == IF cookie = 0 \/ rows[cookie] = Gone THEN 0 ELSE cookie
         data == IF key = 0 THEN Empty ELSE rows[key]
     IN  IF ~data.user
         THEN /\ req' = [req EXCEPT ![r] = Started(kind, proof, key, data, FALSE)]
              /\ UNCHANGED <<rows, history>>
         ELSE IF Expired(data)
         THEN /\ req' = [req EXCEPT ![r] = Started(kind, proof, 0, Empty, TRUE)]
              /\ rows' = [rows EXCEPT ![key] = Gone]
              /\ ended' = ended \cup {key}
              /\ UNCHANGED <<born, active, served>>
         ELSE /\ req' = [req EXCEPT ![r] = Started(kind, proof, key, Renewed(data), TRUE)]
              /\ served' = [at |-> now, born |-> born[key], active |-> active[key]]
              /\ active' = [active EXCEPT ![key] = now]
              /\ UNCHANGED <<rows, ended, born>>
  /\ UNCHANGED <<now, issued, cookie, secrets, attempts>>

\* manager_login, with the right password.
Password(r) ==
  /\ req[r].pc = "view" /\ req[r].kind = "login"
  /\ LET data == [req[r].data EXCEPT !.pending = TRUE]
     IN  req' = [req EXCEPT ![r].pc = "respond", ![r].data = data, ![r].changed = TRUE]
  /\ UNCHANGED <<now, session, secrets, sent, overlapped, history, attempts>>

\* manager_logout: flush.
Logout(r) ==
  /\ req[r].pc = "view" /\ req[r].kind = "logout"
  /\ rows' = [k \in Keys |-> IF k = req[r].key THEN Gone ELSE rows[k]]
  /\ ended' = ended \cup ({req[r].key} \ {0})
  /\ req' = [req EXCEPT ![r].pc = "respond", ![r].key = 0, ![r].data = Empty, ![r].changed = TRUE]
  /\ UNCHANGED <<now, issued, cookie, secrets, sent, overlapped, born, active, served, attempts>>

-----------------------------------------------------------------------------
(* Enrolment *)

ViewOnly == UNCHANGED <<now, session, secrets, sent, overlapped, history, attempts>>

\* manager_mfa_setup, up to has_confirmed_totp.  Faulty variant: an account
\* that has enrolled is not sent on.
EnrolAgain(r) ==
  /\ req[r].pc = "view" /\ req[r].kind \in {"setup", "confirm"}
  /\ Go(r, "secret")
  /\ ViewOnly
Setup(r) ==
  /\ req[r].pc = "view" /\ req[r].kind \in {"setup", "confirm"}
  /\ Go(r, IF totp.confirmed THEN "respond" ELSE "secret")
  /\ ViewOnly

\* get_or_provision_totp_secret: its read, and its write.
ShowSecret(r, secret) ==
  req' = [req EXCEPT ![r].pc = IF req[r].kind = "setup" THEN "respond" ELSE "locked",
                     ![r].seen = secret]
GetSecret(r) ==
  /\ req[r].pc = "secret"
  /\ IF totp.secret # 0 /\ ~totp.confirmed THEN ShowSecret(r, totp.secret) ELSE Go(r, "provision")
  /\ ViewOnly
Provision(r) ==
  /\ req[r].pc = "provision"
  /\ totp.secret < MaxSecrets
  /\ totp' = [secret |-> totp.secret + 1, confirmed |-> FALSE]
  /\ ShowSecret(r, totp.secret + 1)
  /\ UNCHANGED <<now, session, app, throttle, unused, sent, overlapped, history, attempts>>

-----------------------------------------------------------------------------
(* The second factor *)

\* mfa_is_locked, for manager_mfa and for a code that confirms.
IsLocked(r) ==
  /\ \/ req[r].pc = "locked"
     \/ req[r].pc = "view" /\ req[r].kind = "mfa"
  /\ Go(r, IF throttle.until > now THEN "respond" ELSE "verify")
  /\ ViewOnly

\* verify_totp or confirm_totp, or the reads of verify_recovery_code.
Tried == lastTry' = IF lockedAt = None THEN None ELSE now
Verify(r) ==
  /\ req[r].pc = "verify"
  /\ Tried
  /\ Go(r, IF req[r].proof \in RecoveryCodes
           THEN IF req[r].kind = "mfa" /\ req[r].proof \in unused THEN "use" ELSE "miss"
           ELSE IF req[r].proof = Wrong \/ req[r].proof # totp.secret THEN "miss"
           ELSE IF req[r].kind = "confirm" THEN "mark" ELSE "success")
  /\ UNCHANGED <<now, session, secrets, sent, overlapped, history, misses, lockedAt>>

\* ... and their writes.
UseCode(r) ==
  /\ req[r].pc = "use"
  /\ unused' = unused \ {req[r].proof}
  /\ Go(r, "success")
  /\ UNCHANGED <<now, session, totp, app, throttle, sent, overlapped, history, attempts>>
Mark(r) ==
  /\ req[r].pc = "mark"
  /\ totp' = [totp EXCEPT !.confirmed = TRUE]
  /\ Go(r, "success")
  /\ UNCHANGED <<now, session, app, throttle, unused, sent, overlapped, history, attempts>>

\* mfa_record_failure reads the row and counts; it saves both columns, so that
\* a lockout begun meanwhile is taken back.  Faulty variant: one attempt more
\* before it locks.
Miss(r) ==
  /\ req[r].pc = "miss"
  /\ req' = [req EXCEPT ![r].pc = "count", ![r].row = [throttle EXCEPT !.failed = @ + 1]]
  /\ ViewOnly
OneMoreAttempt(row) ==
  IF row.failed > MaxAttempts THEN [failed |-> 0, until |-> now + Lockout] ELSE row
Counted(row) ==
  IF row.failed >= MaxAttempts THEN [failed |-> 0, until |-> now + Lockout] ELSE row
Count(r) ==
  /\ req[r].pc = "count"
  /\ throttle' = Counted(req[r].row)
  /\ IF misses + 1 >= MaxAttempts
     THEN misses' = 0 /\ lockedAt' = now /\ lastTry' = None
     ELSE misses' = misses + 1 /\ UNCHANGED <<lockedAt, lastTry>>
  /\ Go(r, "respond")
  /\ UNCHANGED <<now, session, totp, app, unused, sent, overlapped, history>>

\* mfa_record_success.
Success(r) ==
  /\ req[r].pc = "success"
  /\ throttle' = NoMisses
  /\ misses' = 0
  /\ Go(r, "signin")
  /\ UNCHANGED <<now, session, totp, app, unused, sent, overlapped, history,
                 lockedAt, lastTry>>

\* login and stamp_login: a session without a user moves to a new key.  (A
\* request issues one key at most, so that there are always enough of them.)
SignedIn == [user |-> TRUE, pending |-> FALSE, loginAt |-> now, last |-> now]
Login(r) ==
  /\ req[r].pc = "signin"
  /\ LET old == req[r].key
         key == IF req[r].data.user THEN old ELSE issued + 1
     IN  /\ key \in Keys
         /\ req' = [req EXCEPT ![r].pc = "respond", ![r].key = key, ![r].data = SignedIn,
                               ![r].changed = TRUE]
         /\ rows' = [k \in Keys |-> IF req[r].data.user THEN rows[k]
                                    ELSE IF k = key THEN [req[r].data EXCEPT !.pending = FALSE]
                                    ELSE IF k = old THEN Gone ELSE rows[k]]
         /\ issued' = IF key = old THEN issued ELSE key
         /\ born' = [born EXCEPT ![key] = now]
         /\ active' = [active EXCEPT ![key] = now]
  /\ UNCHANGED <<now, cookie, secrets, sent, overlapped, ended, served, attempts>>

-----------------------------------------------------------------------------
(* The answer *)

\* SessionMiddleware.process_response: what is left of an empty session is its
\* cookie, and that is deleted; a changed one is written to its row, to a new
\* row, or nowhere if the row is gone.  Faulty variant: such a row comes back.
WrittenBack(key) == rows[key] # Gone \/ key \in ended
CanSave(key) == rows[key] # Gone

\* The answer reaches the browser or is lost.
Receive(new) == cookie' \in {cookie, new}

Respond(r) ==
  /\ req[r].pc = "respond"
  /\ LET key == req[r].key
         data == req[r].data
     IN  IF key = 0 /\ data = Empty
         THEN Receive(0) /\ UNCHANGED <<rows, issued>>
         ELSE IF ~req[r].changed
         THEN UNCHANGED session
         ELSE IF key = 0
         THEN /\ issued + 1 \in Keys
              /\ issued' = issued + 1
              /\ rows' = [rows EXCEPT ![issued'] = data]
              /\ Receive(issued')
         ELSE IF CanSave(key)
         THEN /\ rows' = [rows EXCEPT ![key] = data]
              /\ Receive(key)
              /\ UNCHANGED issued
         ELSE UNCHANGED session
  \* The manager scans the secret that the page shows, or has done so before.
  /\ IF req[r].kind = "setup" /\ req[r].seen # 0 THEN app' \in {app, req[r].seen} ELSE UNCHANGED app
  /\ req' = [req EXCEPT ![r] = Free]
  /\ UNCHANGED <<now, totp, throttle, unused, sent, overlapped, history, attempts>>

Next ==
  \/ Tick
  \/ \E r \in Slots :
       \/ \E kind \in {"login", "setup", "page", "logout"} : Start(r, kind, Wrong)
       \/ \E kind \in {"confirm", "mfa"}, proof \in Proofs : Start(r, kind, proof)
       \/ Password(r) \/ Logout(r)
       \/ Setup(r) \/ GetSecret(r) \/ Provision(r)
       \/ IsLocked(r) \/ Verify(r) \/ UseCode(r) \/ Mark(r)
       \/ Miss(r) \/ Count(r) \/ Success(r) \/ Login(r)
       \/ Respond(r)

Spec == Init /\ [][Next]_vars

-----------------------------------------------------------------------------
(* Properties *)

\* Whatever requests were under way, with older copies of the session, when a
\* manager logged out or was logged out: the session does not come back.
LoggedOutStaysOut == \A k \in ended : rows[k] = Gone

\* Nobody is let in later than Absolute after the login, or later than Idle
\* after the previous request, however requests overlap and overwrite the two
\* times in the session.
SessionLifetime ==
  served # None =>
    /\ served.at - served.born <= Absolute
    /\ served.at - served.active <= Idle

\* Without overlap, MaxAttempts refused codes in a row lock the second factor:
\* none is tried until Lockout has passed.  (Of two refusals at once, one may go
\* uncounted, and the one saved last may undo the lockout of the other.)
LockedOutWaitsIfPatient ==
  ~overlapped /\ lastTry # None => lastTry >= lockedAt + Lockout

\* Without overlap, nothing a browser sends takes away the authenticator that a
\* manager has confirmed.
EnrolmentLastsIfPatient == [][totp.confirmed /\ ~overlapped' => totp' = totp]_vars
=============================================================================
