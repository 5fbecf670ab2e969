----------------------------- MODULE SignInProofs -----------------------------
(* Proofs about SignIn, for any number of requests under way at a time. *)
EXTENDS SignIn, TLAPS

USE SignInAssumption DEF Keys, Time

-----------------------------------------------------------------------------
(* The inductive invariant *)

\* A request under way is a record of these fields.
Shaped(q) ==
  q = [pc |-> q.pc, kind |-> q.kind, proof |-> q.proof, key |-> q.key, data |-> q.data,
       changed |-> q.changed, seen |-> q.seen, row |-> q.row]

\* The times of a signed-in session, or of a copy of one, are not later than
\* its key's last login and last request.
Dated(data, key) ==
  data.user => key \in Keys /\ data.loginAt <= born[key] /\ data.last <= active[key]

Carries(q, key, data) == q # Free /\ Shaped(q) /\ q.key = key /\ q.data = data
RequestFits(q) ==
  q = Free \/ \E key \in 0..issued, data \in Session : Carries(q, key, data) /\ Dated(data, key)

RowFits(k) == rows[k] = Gone \/ (rows[k] \in Session /\ Dated(rows[k], k))

Typed ==
  /\ now \in Time
  /\ rows = [k \in Keys |-> rows[k]]
  /\ req = [s \in Slots |-> req[s]]
  /\ issued \in 0..MaxRequests
  /\ cookie \in 0..issued
  /\ born \in [Keys -> Time] /\ active \in [Keys -> Time]
  /\ \A k \in Keys : born[k] <= now /\ active[k] <= now

EndedStayOut == \A k \in ended : k \in 1..issued /\ rows[k] = Gone

IInv ==
  /\ Typed
  /\ \A k \in Keys : RowFits(k)
  /\ \A s \in Slots : RequestFits(req[s])
  /\ EndedStayOut
  /\ SessionLifetime

\* It holds before the first request.
THEOREM InitInv == Init => IInv
  <1> SUFFICES ASSUME Init PROVE IInv
    OBVIOUS
  <1> USE DEF Init
  <1>1. Typed
    BY DEF Typed
  <1>2. \A k \in Keys : RowFits(k)
    BY DEF RowFits
  <1>3. \A s \in Slots : RequestFits(req[s])
    BY DEF RequestFits
  <1>4. EndedStayOut /\ SessionLifetime
    BY DEF EndedStayOut, SessionLifetime
  <1> QED
    BY <1>1, <1>2, <1>3, <1>4 DEF IInv

-----------------------------------------------------------------------------
(* Steps that change one request *)

kept == <<now, session, history>>

\* A request that goes on with the key and the data it has.
LEMMA SameCopy ==
  ASSUME IInv, UNCHANGED kept, NEW r \in Slots, NEW q, req' = [req EXCEPT ![r] = q],
         NEW key \in 0..issued, NEW data \in Session, q = Free \/ Carries(q, key, data), Dated(data, key)
  PROVE  IInv'
  <1> USE DEF kept, session, history
  <1>1. Typed'
    BY DEF IInv, Typed
  <1>2. ASSUME NEW k \in Keys PROVE RowFits(k)'
    BY DEF IInv, RowFits, Dated
  <1>3. ASSUME NEW s \in Slots PROVE RequestFits(req[s])'
    <2>1. RequestFits(req[s]) /\ RequestFits(q)
      BY DEF IInv, RequestFits
    <2>2. req'[s] = IF s = r THEN q ELSE req[s]
      BY DEF IInv, Typed
    <2> QED
      BY <2>1, <2>2 DEF RequestFits, Dated
  <1>4. EndedStayOut' /\ SessionLifetime'
    BY DEF IInv, EndedStayOut, SessionLifetime
  <1> QED
    BY <1>1, <1>2, <1>3, <1>4 DEF IInv

\* What a request that is under way carries.
LEMMA Carried ==
  ASSUME IInv, NEW r \in Slots, req[r] # Free
  PROVE  \E key \in 0..issued, data \in Session : Carries(req[r], key, data) /\ Dated(data, key)
  BY DEF IInv, RequestFits

LEMMA NewPc ==
  ASSUME NEW q, NEW key, NEW data, Carries(q, key, data), NEW pc, pc # "free"
  PROVE  Carries([q EXCEPT !.pc = pc], key, data)
  <1> PICK p : p = [q EXCEPT !.pc = pc]
    OBVIOUS
  <1>1. Shaped(p) /\ p.key = key /\ p.data = data /\ p.pc = pc
    BY DEF Carries, Shaped
  <1> QED
    BY <1>1 DEF Carries, Free
LEMMA NewSeen ==
  ASSUME NEW q, NEW key, NEW data, Carries(q, key, data), NEW pc, pc # "free", NEW seen
  PROVE  Carries([q EXCEPT !.pc = pc, !.seen = seen], key, data)
  <1> PICK p : p = [q EXCEPT !.pc = pc, !.seen = seen]
    OBVIOUS
  <1>1. Shaped(p) /\ p.key = key /\ p.data = data /\ p.pc = pc
    BY DEF Carries, Shaped
  <1> QED
    BY <1>1 DEF Carries, Free

LEMMA NewRow ==
  ASSUME NEW q, NEW key, NEW data, Carries(q, key, data), NEW pc, pc # "free", NEW row
  PROVE  Carries([q EXCEPT !.pc = pc, !.row = row], key, data)
  <1> PICK p : p = [q EXCEPT !.pc = pc, !.row = row]
    OBVIOUS
  <1>1. Shaped(p) /\ p.key = key /\ p.data = data /\ p.pc = pc
    BY DEF Carries, Shaped
  <1> QED
    BY <1>1 DEF Carries, Free

LEMMA GoKeeps ==
  ASSUME IInv, UNCHANGED kept, NEW r \in Slots, req[r] # Free, NEW pc, pc # "free", Go(r, pc)
  PROVE  IInv'
  <1>1. PICK key \in 0..issued, data \in Session : Carries(req[r], key, data) /\ Dated(data, key)
    BY Carried
  <1>2. PICK q : q = [req[r] EXCEPT !.pc = pc]
    OBVIOUS
  <1>3. Carries(q, key, data)
    BY <1>1, <1>2, NewPc
  <1>4. req' = [req EXCEPT ![r] = q]
    BY <1>2 DEF Go
  <1> QED
    BY <1>1, <1>3, <1>4, SameCopy
LEMMA SeenKeeps ==
  ASSUME IInv, UNCHANGED kept, NEW r \in Slots, req[r] # Free, NEW pc, pc # "free", NEW seen,
         req' = [req EXCEPT ![r].pc = pc, ![r].seen = seen]
  PROVE  IInv'
  <1>1. PICK key \in 0..issued, data \in Session : Carries(req[r], key, data) /\ Dated(data, key)
    BY Carried
  <1>2. PICK q : q = [req[r] EXCEPT !.pc = pc, !.seen = seen]
    OBVIOUS
  <1>3. Carries(q, key, data)
    BY <1>1, <1>2, NewSeen
  <1>4. req' = [req EXCEPT ![r] = q]
    BY <1>2
  <1> QED
    BY <1>1, <1>3, <1>4, SameCopy
LEMMA RowKeeps ==
  ASSUME IInv, UNCHANGED kept, NEW r \in Slots, req[r] # Free, NEW pc, pc # "free", NEW row,
         req' = [req EXCEPT ![r].pc = pc, ![r].row = row]
  PROVE  IInv'
  <1>1. PICK key \in 0..issued, data \in Session : Carries(req[r], key, data) /\ Dated(data, key)
    BY Carried
  <1>2. PICK q : q = [req[r] EXCEPT !.pc = pc, !.row = row]
    OBVIOUS
  <1>3. Carries(q, key, data)
    BY <1>1, <1>2, NewRow
  <1>4. req' = [req EXCEPT ![r] = q]
    BY <1>2
  <1> QED
    BY <1>1, <1>3, <1>4, SameCopy

-----------------------------------------------------------------------------
(* Steps that change sessions *)

LEMMA AtMost == ASSUME NEW a \in Nat, NEW b \in Nat, NEW c \in Nat, a <= b, b <= c PROVE a <= c
  OBVIOUS

\* A key's times only grow, and what a request or a row now holds fits them.
LEMMA NewCopy ==
  ASSUME IInv, NEW r \in Slots, NEW q, req' = [req EXCEPT ![r] = q], now' = now,
         issued' \in issued..MaxRequests, cookie' \in 0..issued', rows' = [k \in Keys |-> rows'[k]],
         born' \in [Keys -> Time], active' \in [Keys -> Time],
         \A k \in Keys : born[k] <= born'[k] /\ born'[k] <= now,
         \A k \in Keys : active[k] <= active'[k] /\ active'[k] <= now,
         \A k \in Keys : rows'[k] = rows[k] \/ RowFits(k)',
         RequestFits(q)', EndedStayOut', SessionLifetime'
  PROVE  IInv'
  <1> USE DEF IInv, Typed
  <1>1. ASSUME NEW data \in Session, NEW k, Dated(data, k) PROVE Dated(data, k)'
    <2> SUFFICES ASSUME data.user, k \in Keys, data.loginAt <= born[k], data.last <= active[k]
                 PROVE  data.loginAt <= born'[k] /\ data.last <= active'[k]
      BY <1>1 DEF Dated
    <2>1. data.loginAt \in Nat /\ data.last \in Nat
      BY DEF Session
    <2>2. born[k] \in Nat /\ active[k] \in Nat /\ born'[k] \in Nat /\ active'[k] \in Nat
      OBVIOUS
    <2>3. born[k] <= born'[k] /\ active[k] <= active'[k]
      OBVIOUS
    <2>4. data.loginAt <= born'[k]
      BY ONLY <2>1, <2>2, <2>3, data.loginAt <= born[k], AtMost
    <2>5. data.last <= active'[k]
      BY ONLY <2>1, <2>2, <2>3, data.last <= active[k], AtMost
    <2> QED
      BY <2>4, <2>5
  <1>2. Typed'
    OBVIOUS
  <1>3. ASSUME NEW k \in Keys PROVE RowFits(k)'
    BY <1>1 DEF RowFits
  <1>4. ASSUME NEW s \in Slots PROVE RequestFits(req[s])'
    <2>1. req'[s] = IF s = r THEN q ELSE req[s]
      OBVIOUS
    <2>2. 0..issued \subseteq 0..issued'
      OBVIOUS
    <2>3. CASE s = r
      BY <2>1, <2>3 DEF RequestFits, Dated
    <2>4. CASE s # r
      <3>1. RequestFits(req[s]) /\ req'[s] = req[s]
        BY <2>1, <2>4
      <3> QED
        BY <3>1, <2>2, <1>1 DEF RequestFits
    <2> QED
      BY <2>3, <2>4
  <1> QED
    BY <1>2, <1>3, <1>4

LEMMA EmptyIsSession == Empty \in Session /\ \A key : Dated(Empty, key)
  BY SignInAssumption DEF Empty, Session, Dated

\* A request that starts.
LEMMA StartedCarries ==
  ASSUME NEW kind, NEW proof, NEW key, NEW data, NEW changed
  PROVE  Carries(Started(kind, proof, key, data, changed), key, data)
  <1> PICK pc : pc = FirstStep(kind, data)
    OBVIOUS
  <1>1. pc # "free"
    BY DEF FirstStep
  <1> DEFINE q == [pc |-> pc, kind |-> kind, proof |-> proof, key |-> key, data |-> data,
                   changed |-> changed, seen |-> 0, row |-> NoMisses]
  <1>2. q # Free /\ Shaped(q) /\ q.key = key /\ q.data = data
    BY <1>1 DEF Free, Shaped
  <1>3. q = Started(kind, proof, key, data, changed)
    BY DEF Started
  <1> QED
    BY <1>2, <1>3 DEF Carries

LEMMA TickKeeps == IInv /\ Tick => IInv'
  <1> SUFFICES ASSUME IInv, Tick PROVE IInv'
    OBVIOUS
  <1> USE DEF IInv, Tick, session, history
  <1>1. Typed'
    BY DEF Typed
  <1>2. ASSUME NEW k \in Keys PROVE RowFits(k)'
    BY DEF RowFits, Dated
  <1>3. ASSUME NEW s \in Slots PROVE RequestFits(req[s])'
    BY DEF RequestFits, Dated
  <1>4. EndedStayOut' /\ SessionLifetime'
    BY DEF EndedStayOut, SessionLifetime
  <1> QED
    BY <1>1, <1>2, <1>3, <1>4

LEMMA StartKeeps ==
  ASSUME IInv, NEW r \in Slots, NEW kind, NEW proof, Start(r, kind, proof)
  PROVE  IInv'
  <1> PICK key : key = IF cookie = 0 \/ rows[cookie] = Gone THEN 0 ELSE cookie
    OBVIOUS
  <1> PICK data : data = IF key = 0 THEN Empty ELSE rows[key]
    OBVIOUS
  <1>1. key \in 0..issued /\ 0..issued \subseteq Nat /\ 1..issued \subseteq Keys /\ (key # 0 => key \in Keys)
    BY DEF IInv, Typed
  <1>2. data \in Session /\ Dated(data, key)
    <2>1. CASE key = 0
      BY <2>1, EmptyIsSession
    <2>2. CASE key # 0
      BY <2>2, <1>1 DEF IInv, RowFits
    <2> QED
      BY <2>1, <2>2
  <1>3. UNCHANGED <<now, issued, cookie>>
    BY DEF Start
  <1>4. CASE ~data.user
    <2> PICK q : q = Started(kind, proof, key, data, FALSE)
      OBVIOUS
    <2>1. req' = [req EXCEPT ![r] = q] /\ UNCHANGED <<rows, history>>
      BY <1>4 DEF Start
    <2>2. Carries(q, key, data)
      BY StartedCarries
    <2> QED
      BY <1>1, <1>2, <1>3, <2>1, <2>2, SameCopy DEF kept, session
  <1>5. CASE data.user /\ Expired(data)
    <2> PICK q : q = Started(kind, proof, 0, Empty, TRUE)
      OBVIOUS
    <2>1. /\ req' = [req EXCEPT ![r] = q] /\ rows' = [rows EXCEPT ![key] = Gone]
          /\ ended' = ended \cup {key} /\ UNCHANGED <<born, active, served>>
      BY <1>5 DEF Start
    <2>2. key # 0
      BY <1>5 DEF Empty
    <2>3. Carries(q, 0, Empty)
      BY StartedCarries
    <2>4. RequestFits(q)'
      <3>1. 0 \in (0..issued)' /\ Empty \in Session
        BY <1>3, EmptyIsSession DEF IInv, Typed
      <3>2. Dated(Empty, 0)'
        BY DEF Dated, Empty
      <3> QED
        BY <2>3, <3>1, <3>2 DEF RequestFits
    <2>5. rows' = [k \in Keys |-> IF k = key THEN Gone ELSE rows[k]]
      BY <2>1 DEF IInv, Typed
    <2>6. rows' = [k \in Keys |-> rows'[k]]
      BY <2>5
    <2>7. \A k \in Keys : rows'[k] = rows[k] \/ RowFits(k)'
      BY <2>5 DEF RowFits
    <2>8. EndedStayOut'
      BY <2>1, <2>2, <2>5, <1>1, <1>3 DEF EndedStayOut, IInv
    <2>9. SessionLifetime'
      BY <2>1 DEF SessionLifetime, IInv
    <2>10. /\ issued' \in issued..MaxRequests /\ cookie' \in 0..issued'
           /\ born' \in [Keys -> Time] /\ active' \in [Keys -> Time]
      BY <1>3, <2>1 DEF IInv, Typed
    <2>11. \A k \in Keys : /\ born[k] <= born'[k] /\ born'[k] <= now
                           /\ active[k] <= active'[k] /\ active'[k] <= now
      BY <2>1 DEF IInv, Typed
    <2> QED
      BY <1>3, <2>1, <2>4, <2>6, <2>7, <2>8, <2>9, <2>10, <2>11, NewCopy
  <1>6. CASE data.user /\ ~Expired(data)
    <2> PICK new : new = Renewed(data)
      OBVIOUS
    <2> PICK q : q = Started(kind, proof, key, new, TRUE)
      OBVIOUS
    <2>1. /\ req' = [req EXCEPT ![r] = q] /\ UNCHANGED <<rows, ended, born>>
          /\ active' = [active EXCEPT ![key] = now]
          /\ served' = [at |-> now, born |-> born[key], active |-> active[key]]
      BY <1>6 DEF Start
    <2>2. key \in Keys
      BY <1>6, <1>1 DEF Empty
    <2>3. Carries(q, key, new)
      BY StartedCarries
    <2>4. new \in Session /\ new.loginAt = data.loginAt /\ new.last = now
      BY <1>2 DEF Renewed, Session, IInv, Typed
    <2>5. now \in Nat /\ born[key] \in Nat /\ active[key] \in Nat /\ active[key] <= now
      BY <2>2 DEF IInv, Typed
    <2>6. active' = [k \in Keys |-> IF k = key THEN now ELSE active[k]]
      BY <2>1 DEF IInv, Typed
    <2>7. Dated(new, key)'
      BY <1>2, <1>6, <2>1, <2>2, <2>4, <2>5, <2>6 DEF Dated
    <2>8. RequestFits(q)'
      BY <2>3, <2>4, <2>7, <1>1, <1>3 DEF RequestFits
    <2>9. rows' = [k \in Keys |-> rows'[k]] /\ \A k \in Keys : rows'[k] = rows[k] \/ RowFits(k)'
      BY <2>1 DEF IInv, Typed
    <2>10. EndedStayOut'
      BY <2>1, <1>3 DEF EndedStayOut, IInv
    <2>11. SessionLifetime'
      <3>1. data.loginAt \in Nat /\ data.last \in Nat /\ data.loginAt <= born[key] /\ data.last <= active[key]
        BY <1>2, <1>6 DEF Dated, Session
      <3>2. now - data.loginAt <= Absolute /\ now - data.last <= Idle
        BY <1>6, <3>1, <2>5 DEF Expired
      <3>3. now - born[key] <= Absolute /\ now - active[key] <= Idle
        BY <3>1, <3>2, <2>5
      <3> QED
        BY <3>3, <2>1 DEF SessionLifetime
    <2>12. /\ issued' \in issued..MaxRequests /\ cookie' \in 0..issued'
           /\ born' \in [Keys -> Time]
      BY <1>3, <2>1 DEF IInv, Typed
    <2>14. active' \in [Keys -> Time]
      BY <2>6 DEF IInv, Typed
    <2>13. \A k \in Keys : /\ born[k] <= born'[k] /\ born'[k] <= now
                           /\ active[k] <= active'[k] /\ active'[k] <= now
      BY <2>1, <2>6 DEF IInv, Typed
    <2> QED
      BY <1>3, <2>1, <2>8, <2>9, <2>10, <2>11, <2>12, <2>13, <2>14, NewCopy
  <1> QED
    BY <1>4, <1>5, <1>6

LEMMA PasswordKeeps == ASSUME IInv, NEW r \in Slots, Password(r) PROVE IInv'
  <1>1. req[r] # Free
    BY DEF Password, Free
  <1>2. PICK key \in 0..issued, data \in Session : Carries(req[r], key, data) /\ Dated(data, key)
    BY <1>1, Carried
  <1> PICK new : new = [req[r].data EXCEPT !.pending = TRUE]
    OBVIOUS
  <1> PICK q : q = [req[r] EXCEPT !.pc = "respond", !.data = new, !.changed = TRUE]
    OBVIOUS
  <1>3. new \in Session /\ new.user = data.user /\ new.loginAt = data.loginAt /\ new.last = data.last
    <2>1. req[r].data = data
      BY <1>2 DEF Carries
    <2>2. new = [data EXCEPT !.pending = TRUE]
      BY <2>1
    <2> QED
      BY <2>2 DEF Session
  <1>6. Carries(q, key, new)
    <2>1. Shaped(q) /\ q.pc = "respond" /\ q.key = key /\ q.data = new
      BY <1>2 DEF Carries, Shaped
    <2> QED
      BY <2>1 DEF Carries, Free
  <1>7. Dated(new, key)
    BY <1>2, <1>3 DEF Dated
  <1>8. req' = [req EXCEPT ![r] = q] /\ UNCHANGED kept
    BY DEF Password, kept, session
  <1> QED
    BY <1>3, <1>6, <1>7, <1>8, SameCopy

LEMMA LogoutKeeps == ASSUME IInv, NEW r \in Slots, Logout(r) PROVE IInv'
  <1>1. req[r] # Free
    BY DEF Logout, Free
  <1>2. PICK key \in 0..issued, data \in Session : Carries(req[r], key, data) /\ Dated(data, key)
    BY <1>1, Carried
  <1> PICK q : q = [req[r] EXCEPT !.pc = "respond", !.key = 0, !.data = Empty, !.changed = TRUE]
    OBVIOUS
  <1>3. req[r].key = key /\ Carries(q, 0, Empty)
    <2>1. Shaped(q) /\ q.pc = "respond" /\ q.key = 0 /\ q.data = Empty
      BY <1>2 DEF Carries, Shaped
    <2> QED
      BY <1>2, <2>1 DEF Carries, Free
  <1>4. /\ req' = [req EXCEPT ![r] = q]
        /\ rows' = [k \in Keys |-> IF k = key THEN Gone ELSE rows[k]]
        /\ ended' = ended \cup ({key} \ {0})
        /\ UNCHANGED <<now, issued, cookie, born, active, served>>
    BY <1>3 DEF Logout
  <1>5. RequestFits(q)'
    <2>1. 0 \in (0..issued)' /\ Empty \in Session
      BY <1>4, EmptyIsSession DEF IInv, Typed
    <2>2. Dated(Empty, 0)'
      BY DEF Dated, Empty
    <2> QED
      BY <1>3, <2>1, <2>2 DEF RequestFits
  <1>6. rows' = [k \in Keys |-> rows'[k]] /\ \A k \in Keys : rows'[k] = rows[k] \/ RowFits(k)'
    BY <1>4 DEF RowFits
  <1>7. EndedStayOut'
    <2>1. 1..issued \subseteq Keys /\ (key # 0 => key \in 1..issued)
      BY DEF IInv, Typed
    <2> QED
      BY <2>1, <1>4 DEF EndedStayOut, IInv
  <1>8. SessionLifetime'
    BY <1>4 DEF SessionLifetime, IInv
  <1>9. /\ issued' \in issued..MaxRequests /\ cookie' \in 0..issued'
        /\ born' \in [Keys -> Time] /\ active' \in [Keys -> Time]
    BY <1>4 DEF IInv, Typed
  <1>10. \A k \in Keys : /\ born[k] <= born'[k] /\ born'[k] <= now
                         /\ active[k] <= active'[k] /\ active'[k] <= now
    BY <1>4 DEF IInv, Typed
  <1> QED
    BY <1>4, <1>5, <1>6, <1>7, <1>8, <1>9, <1>10, NewCopy

\* What neither the sessions nor a request's copy of one notices.
Unnoticed(r) ==
  \/ Setup(r) \/ GetSecret(r) \/ Provision(r)
  \/ IsLocked(r) \/ Verify(r) \/ UseCode(r) \/ Mark(r) \/ Miss(r) \/ Count(r) \/ Success(r)
LEMMA UnnoticedKeeps == ASSUME IInv, NEW r \in Slots, Unnoticed(r) PROVE IInv'
  <1> USE DEF ViewOnly, kept, session
  <1>1. req[r] # Free
    BY DEF Unnoticed, Setup, GetSecret, Provision, IsLocked, Verify, UseCode, Mark, Miss, Count, Success, Free
  <1>2. UNCHANGED kept
    BY DEF Unnoticed, Setup, GetSecret, Provision, IsLocked, Verify, UseCode, Mark, Miss, Count, Success
  <1>3. ASSUME NEW secret, ShowSecret(r, secret) PROVE IInv'
    <2> PICK pc : pc = IF req[r].kind = "setup" THEN "respond" ELSE "locked"
      OBVIOUS
    <2>1. req' = [req EXCEPT ![r].pc = pc, ![r].seen = secret]
      BY <1>3 DEF ShowSecret
    <2>2. pc # "free"
      OBVIOUS
    <2> QED
      BY <1>1, <1>2, <2>1, <2>2, SeenKeeps
  <1>4. CASE GetSecret(r) \/ Provision(r)
    BY <1>1, <1>2, <1>3, <1>4, GoKeeps DEF GetSecret, Provision
  <1>5. CASE Miss(r)
    BY <1>1, <1>2, <1>5, RowKeeps DEF Miss
  <1>6. CASE UseCode(r) \/ Mark(r) \/ Count(r) \/ Success(r)
    BY <1>1, <1>2, <1>6, GoKeeps DEF UseCode, Mark, Count, Success
  <1>7. CASE Setup(r) \/ IsLocked(r) \/ Verify(r)
    <2>1. PICK pc : pc # "free" /\ Go(r, pc)
      BY <1>7 DEF Setup, IsLocked, Verify
    <2> QED
      BY <1>1, <1>2, <2>1, GoKeeps
  <1> QED
    BY <1>4, <1>5, <1>6, <1>7 DEF Unnoticed

LEMMA LoginKeeps == ASSUME IInv, NEW r \in Slots, Login(r) PROVE IInv'
  <1>1. req[r] # Free
    BY DEF Login, Free
  <1>2. PICK old \in 0..issued, data \in Session : Carries(req[r], old, data) /\ Dated(data, old)
    BY <1>1, Carried
  <1> PICK key : key = IF data.user THEN old ELSE issued + 1
    OBVIOUS
  <1> PICK new : new = SignedIn
    OBVIOUS
  <1> PICK saved : saved = [data EXCEPT !.pending = FALSE]
    OBVIOUS
  <1> PICK q : q = [req[r] EXCEPT !.pc = "respond", !.key = key, !.data = new, !.changed = TRUE]
    OBVIOUS
  <1>3. req[r].key = old /\ req[r].data = data
    BY <1>2 DEF Carries
  <1>4. key \in Keys /\ req' = [req EXCEPT ![r] = q]
    BY <1>3 DEF Login
  <1>5. rows' = [k \in Keys |-> IF data.user THEN rows[k]
                                ELSE IF k = key THEN saved
                                ELSE IF k = old THEN Gone ELSE rows[k]]
    BY <1>3 DEF Login
  <1>6. /\ issued' = IF key = old THEN issued ELSE key
        /\ born' = [born EXCEPT ![key] = now] /\ active' = [active EXCEPT ![key] = now]
        /\ UNCHANGED <<now, cookie, ended, served>>
    BY <1>3 DEF Login
  <1>7. Carries(q, key, new)
    <2>1. Shaped(q) /\ q.pc = "respond" /\ q.key = key /\ q.data = new
      BY <1>2 DEF Carries, Shaped
    <2> QED
      BY <2>1 DEF Carries, Free
  <1>8. /\ issued \in Nat /\ issued' \in issued..MaxRequests /\ key \in 0..issued'
        /\ data.user => issued' = issued
        /\ ~data.user => key = issued + 1
    <2>1. issued \in 0..MaxRequests /\ MaxRequests \in Nat /\ old \in 0..issued /\ key \in 1..MaxRequests
      BY <1>4 DEF IInv, Typed
    <2>2. key = IF data.user THEN old ELSE issued + 1
      OBVIOUS
    <2>3. issued' = IF key = old THEN issued ELSE key
      BY <1>6
    <2> QED
      BY ONLY <2>1, <2>2, <2>3
  <1>9. new \in Session /\ new.user /\ new.loginAt = now /\ new.last = now
    BY DEF SignedIn, Session, IInv, Typed
  <1>10. now \in Time /\ now <= now
    BY DEF IInv, Typed
  <1>11. born' = [k \in Keys |-> IF k = key THEN now ELSE born[k]]
    BY <1>4, <1>6 DEF IInv, Typed
  <1>12. active' = [k \in Keys |-> IF k = key THEN now ELSE active[k]]
    BY <1>4, <1>6 DEF IInv, Typed
  <1>13. RequestFits(q)'
    <2>1. born'[key] = now /\ active'[key] = now
      BY <1>4, <1>11, <1>12
    <2>2. Dated(new, key)'
      BY <1>4, <1>9, <1>10, <2>1 DEF Dated
    <2> QED
      BY <1>7, <1>8, <1>9, <2>2 DEF RequestFits
  <1>14. rows' = [k \in Keys |-> rows'[k]]
    BY <1>5
  <1>15. \A k \in Keys : rows'[k] = rows[k] \/ RowFits(k)'
    <2>1. saved \in Session /\ saved.user = data.user
      BY DEF Session
    <2>2. ~data.user => Dated(saved, key)'
      BY <2>1 DEF Dated
    <2> QED
      BY <1>5, <2>1, <2>2 DEF RowFits
  <1>16. EndedStayOut'
    <2>1. CASE data.user
      BY <2>1, <1>5, <1>6, <1>8 DEF EndedStayOut, IInv, Typed
    <2>2. CASE ~data.user
      <3>1. ASSUME NEW k \in ended PROVE k \in 1..issued' /\ rows'[k] = Gone
        <4>1. k \in 1..issued /\ rows[k] = Gone
          BY DEF IInv, EndedStayOut
        <4>2. k # key /\ k \in 1..issued' /\ k \in Keys
          <5>1. issued \in Nat /\ MaxRequests \in Nat
            BY <1>8
          <5> QED
            BY ONLY <5>1, <4>1, <2>2, <1>8 DEF Keys
        <4> QED
          BY <4>1, <4>2, <2>2, <1>5
      <3> QED
        BY <3>1, <1>6 DEF EndedStayOut
    <2> QED
      BY <2>1, <2>2
  <1>17. SessionLifetime'
    BY <1>6 DEF SessionLifetime, IInv
  <1>18. cookie' \in 0..issued'
    BY <1>6, <1>8 DEF IInv, Typed
  <1>19. born' \in [Keys -> Time] /\ active' \in [Keys -> Time]
    BY <1>10, <1>11, <1>12 DEF IInv, Typed
  <1>20. \A k \in Keys : born[k] <= born'[k] /\ born'[k] <= now
    BY <1>10, <1>11 DEF IInv, Typed
  <1>21. \A k \in Keys : active[k] <= active'[k] /\ active'[k] <= now
    BY <1>10, <1>12 DEF IInv, Typed
  <1> QED
    BY <1>4, <1>6, <1>8, <1>13, <1>14, <1>15, <1>16, <1>17, <1>18, <1>19, <1>20, <1>21, NewCopy

LEMMA RespondKeeps == ASSUME IInv, NEW r \in Slots, Respond(r) PROVE IInv'
  <1>1. req[r] # Free
    BY DEF Respond, Free
  <1>2. PICK key \in 0..issued, data \in Session : Carries(req[r], key, data) /\ Dated(data, key)
    BY <1>1, Carried
  <1>3. req[r].key = key /\ req[r].data = data
    BY <1>2 DEF Carries
  <1>4. req' = [req EXCEPT ![r] = Free] /\ UNCHANGED <<now, history>>
    BY DEF Respond
  <1>5. \/ issued' = issued /\ rows' = rows /\ cookie' \in {cookie, 0}
        \/ /\ key = 0 /\ issued + 1 \in Keys /\ issued' = issued + 1
           /\ rows' = [rows EXCEPT ![issued + 1] = data] /\ cookie' \in {cookie, issued + 1}
        \/ /\ key # 0 /\ rows[key] # Gone /\ issued' = issued
           /\ rows' = [rows EXCEPT ![key] = data] /\ cookie' \in {cookie, key}
    BY <1>3 DEF Respond, Receive, CanSave, session
  <1>6. RequestFits(Free)'
    BY DEF RequestFits
  <1>7. \A k \in Keys : /\ born[k] <= born'[k] /\ born'[k] <= now
                        /\ active[k] <= active'[k] /\ active'[k] <= now
    BY <1>4 DEF history, IInv, Typed
  <1>8. SessionLifetime' /\ born' \in [Keys -> Time] /\ active' \in [Keys -> Time]
    BY <1>4 DEF history, SessionLifetime, IInv, Typed
  <1>9. issued' \in issued..MaxRequests /\ cookie' \in 0..issued'
    <2>1. issued \in 0..MaxRequests /\ MaxRequests \in Nat /\ key \in 0..issued /\ cookie \in 0..issued
      BY DEF IInv, Typed
    <2> QED
      BY ONLY <2>1, <1>5 DEF Keys
  <1>10. Dated(data, key)'
    BY <1>2, <1>4 DEF Dated, history
  <1>11. /\ rows' = [k \in Keys |-> rows'[k]]
         /\ \A k \in Keys : rows'[k] = rows[k] \/ RowFits(k)'
         /\ EndedStayOut'
    <2>1. rows = [k \in Keys |-> rows[k]] /\ ended' = ended
      BY <1>4 DEF history, IInv, Typed
    <2>2. ASSUME NEW k \in ended
          PROVE  k \in 1..issued' /\ k \in Keys /\ k # issued + 1 /\ rows[k] = Gone
      <3>1. k \in 1..issued /\ rows[k] = Gone
        BY DEF IInv, EndedStayOut
      <3>2. issued \in 0..MaxRequests /\ issued' \in issued..MaxRequests
        BY <1>9 DEF IInv, Typed
      <3>3. k \in 1..issued' /\ k \in Keys /\ k # issued + 1
        BY ONLY <3>1, <3>2, SignInAssumption DEF Keys
      <3> QED
        BY <3>1, <3>3
    <2>3. CASE rows' = rows
      BY ONLY <2>1, <2>2, <2>3 DEF EndedStayOut
    <2>4. ASSUME NEW slot \in Keys, rows' = [rows EXCEPT ![slot] = data], Dated(data, slot)', slot \notin ended
          PROVE  /\ rows' = [k \in Keys |-> rows'[k]]
                 /\ \A k \in Keys : rows'[k] = rows[k] \/ RowFits(k)'
                 /\ EndedStayOut'
      <3>1. rows' = [k \in Keys |-> IF k = slot THEN data ELSE rows[k]]
        BY <2>1, <2>4
      <3>2. rows' = [k \in Keys |-> rows'[k]]
        BY <3>1
      <3>3. \A k \in Keys : rows'[k] = rows[k] \/ RowFits(k)'
        BY <3>1, <2>4 DEF RowFits
      <3>4. ASSUME NEW k \in ended PROVE k \in 1..issued' /\ rows'[k] = Gone
        BY ONLY <2>2, <2>4, <3>1
      <3> QED
        BY <2>1, <3>2, <3>3, <3>4 DEF EndedStayOut
    <2>5. CASE key = 0 /\ issued + 1 \in Keys /\ rows' = [rows EXCEPT ![issued + 1] = data]
      <3> PICK slot : slot = issued + 1
        OBVIOUS
      <3>1. slot \in Keys /\ slot \notin ended /\ rows' = [rows EXCEPT ![slot] = data]
        BY ONLY <2>2, <2>5, slot = issued + 1
      <3>2. ~data.user
        BY <1>2, <2>5 DEF Dated
      <3>3. Dated(data, slot)'
        BY <3>2 DEF Dated
      <3> QED
        BY ONLY <2>4, <3>1, <3>3
    <2>6. CASE key # 0 /\ rows[key] # Gone /\ rows' = [rows EXCEPT ![key] = data]
      <3>1. key \in Keys
        BY <2>6 DEF IInv, Typed
      <3>2. key \notin ended
        BY ONLY <2>2, <2>6
      <3> QED
        BY ONLY <1>10, <2>4, <2>6, <3>1, <3>2
    <2> QED
      BY <1>5, <2>3, <2>5, <2>6
  <1> QED
    BY <1>4, <1>6, <1>7, <1>8, <1>9, <1>11, NewCopy

-----------------------------------------------------------------------------
(* Results *)

\* Every action keeps the invariant.
THEOREM NextInv == IInv /\ [Next]_vars => IInv'
  <1> SUFFICES ASSUME IInv, [Next]_vars PROVE IInv'
    OBVIOUS
  <1>1. CASE UNCHANGED vars
    BY <1>1 DEF vars, session, history, IInv, Typed, RowFits, RequestFits, Dated, EndedStayOut, SessionLifetime
  <1>2. CASE Tick
    BY <1>2, TickKeeps
  <1>3. ASSUME NEW r \in Slots, NEW kind, NEW proof, Start(r, kind, proof) PROVE IInv'
    BY <1>3, StartKeeps
  <1>4. ASSUME NEW r \in Slots, Unnoticed(r) PROVE IInv'
    BY <1>4, UnnoticedKeeps
  <1>5. ASSUME NEW r \in Slots, Password(r) \/ Logout(r) \/ Login(r) \/ Respond(r) PROVE IInv'
    BY <1>5, PasswordKeeps, LogoutKeeps, LoginKeeps, RespondKeeps
  <1> QED
    BY <1>1, <1>2, <1>3, <1>4, <1>5 DEF Next, Unnoticed

\* It holds in every behaviour.
THEOREM Invariant == Spec => []IInv
  BY InitInv, NextInv, PTL DEF Spec

\* However many requests are under way with a copy of a session that was logged
\* out (views.py, manager_logout) or has run out (middleware.py): none of them
\* brings its row back.
THEOREM LoggedOutStaysOutHolds == Spec => []LoggedOutStaysOut
  <1>1. IInv => LoggedOutStaysOut
    BY DEF IInv, EndedStayOut, LoggedOutStaysOut
  <1> QED
    BY <1>1, Invariant, PTL

\* Although overlapping requests overwrite the two times of a session with
\* older ones (middleware.py), nobody is let in beyond its lifetime.
THEOREM SessionLifetimeHolds == Spec => []SessionLifetime
  <1>1. IInv => SessionLifetime
    BY DEF IInv
  <1> QED
    BY <1>1, Invariant, PTL

-----------------------------------------------------------------------------
(* A browser that waits for each answer *)

\* The second factor is open again after the last lockout.
Reopened == lockedAt # None => now >= lockedAt + Lockout

Counters ==
  /\ throttle \in [failed : Nat, until : Nat]
  /\ totp \in [secret : Nat, confirmed : BOOLEAN]
  /\ misses \in Nat
  /\ lockedAt \in Nat \cup {None} /\ lastTry \in Nat \cup {None}
  /\ \A s \in Slots : req[s].pc = "count" => req[s].row \in [failed : Nat, until : Nat]

Single == \A r, s \in Slots : req[r] # Free /\ req[s] # Free => r = s

\* The throttle counts what has been missed, and is closed as long as it should.
ThrottleFits ==
  /\ throttle.failed = misses
  /\ lockedAt # None => throttle.until = lockedAt + Lockout \/ now >= lockedAt + Lockout
  /\ lastTry # None => lockedAt # None /\ lastTry >= lockedAt + Lockout

\* What a request has found out still stands.
StepFits(q) ==
  /\ q.pc \in {"verify", "use", "mark", "miss", "count", "success"} => Reopened
  /\ q.pc = "count" => q.row = [throttle EXCEPT !.failed = misses + 1]
  /\ q.pc \in {"secret", "provision"} => ~totp.confirmed

Patient == Single /\ ThrottleFits /\ \A s \in Slots : StepFits(req[s])

PInv == Counters /\ (~overlapped => Patient)

LEMMA TotpRow ==
  ASSUME NEW secret \in Nat, NEW confirmed \in BOOLEAN
  PROVE  [secret |-> secret, confirmed |-> confirmed] \in [secret : Nat, confirmed : BOOLEAN]
  OBVIOUS

LEMMA InitPatient == Init => PInv
  <1> SUFFICES ASSUME Init PROVE PInv
    OBVIOUS
  <1>1. Counters
    <2>1. throttle \in [failed : Nat, until : Nat]
      BY DEF Init, NoMisses
    <2>2. totp \in [secret : Nat, confirmed : BOOLEAN]
      <3>1. \/ totp = [secret |-> 0, confirmed |-> FALSE]
            \/ totp = [secret |-> 1, confirmed |-> TRUE]
        BY DEF Init
      <3> QED
        BY <3>1, TotpRow
    <2>3. \A s \in Slots : req[s].pc # "count"
      BY DEF Init, Free
    <2> QED
      BY <2>1, <2>2, <2>3 DEF Init, Counters
  <1>2. Patient
    BY DEF Init, Patient, Single, ThrottleFits, StepFits, NoMisses, Free
  <1> QED
    BY <1>1, <1>2 DEF PInv

\* Only the slot of request r changes.
Only(r) == \A s \in Slots \ {r} : req'[s] = req[s]

LEMMA GoMoves ==
  ASSUME IInv, NEW r \in Slots, req[r] # Free, NEW pc, Go(r, pc)
  PROVE  Only(r) /\ req'[r].pc = pc /\ req'[r].seen = req[r].seen
  <1>1. PICK q : q = [req[r] EXCEPT !.pc = pc]
    OBVIOUS
  <1>2. req' = [req EXCEPT ![r] = q] /\ req = [s \in Slots |-> req[s]]
    BY <1>1 DEF Go, IInv, Typed
  <1>3. Only(r) /\ req'[r] = q
    BY ONLY <1>2, r \in Slots DEF Only
  <1>4. Shaped(req[r])
    BY Carried DEF Carries
  <1>5. q.pc = pc /\ q.seen = req[r].seen
    BY ONLY <1>1, <1>4 DEF Shaped
  <1> QED
    BY ONLY <1>3, <1>5
LEMMA SeenMoves ==
  ASSUME IInv, NEW r \in Slots, req[r] # Free, NEW pc, NEW seen,
         req' = [req EXCEPT ![r].pc = pc, ![r].seen = seen]
  PROVE  Only(r) /\ req'[r].pc = pc /\ req'[r].seen = seen
  <1>1. PICK q : q = [req[r] EXCEPT !.pc = pc, !.seen = seen]
    OBVIOUS
  <1>2. req' = [req EXCEPT ![r] = q] /\ req = [s \in Slots |-> req[s]]
    BY <1>1 DEF IInv, Typed
  <1>3. Only(r) /\ req'[r] = q
    BY ONLY <1>2, r \in Slots DEF Only
  <1>4. Shaped(req[r])
    BY Carried DEF Carries
  <1>5. q.pc = pc /\ q.seen = seen
    BY ONLY <1>1, <1>4 DEF Shaped
  <1> QED
    BY ONLY <1>3, <1>5
LEMMA RowMoves ==
  ASSUME IInv, NEW r \in Slots, req[r] # Free, NEW pc, NEW row,
         req' = [req EXCEPT ![r].pc = pc, ![r].row = row]
  PROVE  Only(r) /\ req'[r].pc = pc /\ req'[r].row = row
  <1>1. PICK q : q = [req[r] EXCEPT !.pc = pc, !.row = row]
    OBVIOUS
  <1>2. req' = [req EXCEPT ![r] = q] /\ req = [s \in Slots |-> req[s]]
    BY <1>1 DEF IInv, Typed
  <1>3. Only(r) /\ req'[r] = q
    BY ONLY <1>2, r \in Slots DEF Only
  <1>4. Shaped(req[r])
    BY Carried DEF Carries
  <1>5. q.pc = pc /\ q.row = row
    BY ONLY <1>1, <1>4 DEF Shaped
  <1> QED
    BY ONLY <1>3, <1>5

\* A step of one request, while the others are idle.
LEMMA OneSteps ==
  ASSUME PInv, overlapped' = overlapped, NEW r \in Slots, req[r] # Free, Only(r), Counters',
         Patient => ThrottleFits' /\ StepFits(req[r])'
  PROVE  PInv'
  <1>1. ASSUME ~overlapped, NEW s \in Slots \ {r} PROVE req'[s] = Free
    BY <1>1 DEF PInv, Patient, Single, Only
  <1>2. ASSUME ~overlapped PROVE Single'
    BY <1>1, <1>2 DEF Single
  <1>3. ASSUME ~overlapped, NEW s \in Slots PROVE StepFits(req[s])'
    BY <1>1, <1>3 DEF StepFits, Free, PInv
  <1> QED
    BY <1>2, <1>3 DEF PInv, Patient

\* One that leaves the throttle, the enrolment and the history alone.
untouched == <<now, totp, throttle, overlapped, attempts>>
LEMMA QuietStep ==
  ASSUME PInv, UNCHANGED untouched, NEW r \in Slots, req[r] # Free, Only(r),
         req'[r].pc = "count" => req'[r].row \in [failed : Nat, until : Nat],
         Patient => StepFits(req'[r])
  PROVE  PInv'
  <1> USE DEF untouched, attempts
  <1>1. Counters'
    BY DEF PInv, Counters, Only
  <1>2. Patient => ThrottleFits' /\ StepFits(req[r])'
    BY DEF Patient, ThrottleFits, StepFits, Reopened
  <1> QED
    BY <1>1, <1>2, OneSteps

LEMMA QuietSteps ==
  ASSUME IInv, PInv, NEW r \in Slots,
         Password(r) \/ Logout(r) \/ Setup(r) \/ GetSecret(r) \/ IsLocked(r) \/ UseCode(r)
           \/ Miss(r) \/ Login(r) \/ Respond(r)
  PROVE  PInv'
  <1> USE DEF ViewOnly, untouched, attempts, secrets
  <1>1. req[r] # Free
    BY DEF Password, Logout, Setup, GetSecret, IsLocked, UseCode, Miss, Login, Respond, Free
  <1>2. UNCHANGED untouched
    BY DEF Password, Logout, Setup, GetSecret, IsLocked, UseCode, Miss, Login, Respond
  <1>3. Patient => StepFits(req[r])
    BY DEF Patient
  <1>4. ASSUME NEW q, q.pc = "respond" \/ q = Free, req' = [req EXCEPT ![r] = q]
        PROVE  PInv'
    <2>1. Only(r) /\ req'[r] = q
      <3>1. req = [s \in Slots |-> req[s]]
        BY DEF IInv, Typed
      <3> QED
        BY ONLY <3>1, <1>4, r \in Slots DEF Only
    <2>2. StepFits(req'[r]) /\ req'[r].pc # "count"
      BY <1>4, <2>1 DEF StepFits, Free
    <2> QED
      BY <1>1, <1>2, <2>1, <2>2, QuietStep
  <1>5. CASE Password(r)
    <2> PICK data : data = [req[r].data EXCEPT !.pending = TRUE]
      OBVIOUS
    <2> PICK q : q = [req[r] EXCEPT !.pc = "respond", !.data = data, !.changed = TRUE]
      OBVIOUS
    <2>1. Shaped(req[r])
      BY <1>1, Carried DEF Carries
    <2>2. q.pc = "respond"
      BY ONLY <2>1, q = [req[r] EXCEPT !.pc = "respond", !.data = data, !.changed = TRUE] DEF Shaped
    <2>3. req' = [req EXCEPT ![r] = q]
      BY <1>5 DEF Password
    <2> QED
      BY <1>4, <2>2, <2>3
  <1>6. CASE Logout(r)
    <2> PICK q : q = [req[r] EXCEPT !.pc = "respond", !.key = 0, !.data = Empty, !.changed = TRUE]
      OBVIOUS
    <2>1. Shaped(req[r])
      BY <1>1, Carried DEF Carries
    <2>2. q.pc = "respond"
      BY ONLY <2>1, q = [req[r] EXCEPT !.pc = "respond", !.key = 0, !.data = Empty, !.changed = TRUE]
         DEF Shaped
    <2>3. req' = [req EXCEPT ![r] = q]
      BY <1>6 DEF Logout
    <2> QED
      BY <1>4, <2>2, <2>3
  <1>7. CASE Login(r)
    <2> PICK new : new = SignedIn
      OBVIOUS
    <2> PICK key : key = IF req[r].data.user THEN req[r].key ELSE issued + 1
      OBVIOUS
    <2> PICK q : q = [req[r] EXCEPT !.pc = "respond", !.key = key, !.data = new, !.changed = TRUE]
      OBVIOUS
    <2>1. Shaped(req[r])
      BY <1>1, Carried DEF Carries
    <2>2. q.pc = "respond"
      BY ONLY <2>1, q = [req[r] EXCEPT !.pc = "respond", !.key = key, !.data = new, !.changed = TRUE]
         DEF Shaped
    <2>3. req' = [req EXCEPT ![r] = q]
      BY <1>7 DEF Login
    <2> QED
      BY <1>4, <2>2, <2>3
  <1>8. CASE Respond(r)
    BY <1>4, <1>8 DEF Respond
  <1>9. ASSUME NEW pc, Go(r, pc), pc # "count", Patient => StepFits([pc |-> pc])
        PROVE  PInv'
    <2>1. Only(r) /\ req'[r].pc = pc
      BY <1>1, <1>9, GoMoves
    <2>2. Patient => StepFits(req'[r])
      BY <1>9, <2>1 DEF StepFits
    <2> QED
      BY <1>1, <1>2, <1>9, <2>1, <2>2, QuietStep
  <1>10. CASE Setup(r)
    BY <1>9, <1>10 DEF Setup, StepFits
  <1>11. CASE GetSecret(r)
    <2>1. CASE Go(r, "provision")
      BY <1>3, <1>9, <1>11, <2>1 DEF GetSecret, StepFits
    <2>2. CASE ShowSecret(r, totp.secret)
      <3> PICK pc : pc = IF req[r].kind = "setup" THEN "respond" ELSE "locked"
        OBVIOUS
      <3>1. req' = [req EXCEPT ![r].pc = pc, ![r].seen = totp.secret]
        BY <2>2 DEF ShowSecret
      <3>2. Only(r) /\ req'[r].pc = pc
        BY <1>1, <3>1, SeenMoves
      <3>3. StepFits(req'[r]) /\ req'[r].pc # "count"
        BY <3>2 DEF StepFits
      <3> QED
        BY <1>1, <1>2, <3>2, <3>3, QuietStep
    <2> QED
      BY <1>11, <2>1, <2>2 DEF GetSecret
  <1>12. CASE IsLocked(r)
    <2>1. PICK pc : Go(r, pc) /\ pc = IF throttle.until > now THEN "respond" ELSE "verify"
      BY <1>12 DEF IsLocked
    <2>2. Patient /\ pc = "verify" => Reopened
      <3>1. now \in Nat /\ throttle.until \in Nat /\ lockedAt \in Nat \cup {None}
        BY DEF IInv, Typed, PInv, Counters
      <3> QED
        BY <2>1, <3>1, SignInAssumption DEF Patient, ThrottleFits, Reopened
    <2> QED
      BY <1>9, <2>1, <2>2 DEF StepFits
  <1>13. CASE UseCode(r)
    BY <1>3, <1>9, <1>13 DEF UseCode, StepFits
  <1>14. CASE Miss(r)
    <2>1. Only(r) /\ req'[r].pc = "count" /\ req'[r].row = [throttle EXCEPT !.failed = throttle.failed + 1]
      BY <1>1, <1>14, RowMoves DEF Miss
    <2>2. throttle \in [failed : Nat, until : Nat] /\ req'[r].row \in [failed : Nat, until : Nat]
      BY <2>1 DEF PInv, Counters
    <2>3. Patient => StepFits(req'[r])
      BY <1>3, <1>14, <2>1 DEF Miss, StepFits, Patient, ThrottleFits
    <2> QED
      BY <1>1, <1>2, <2>1, <2>2, <2>3, QuietStep
  <1> QED
    BY <1>5, <1>6, <1>7, <1>8, <1>10, <1>11, <1>12, <1>13, <1>14

LEMMA TickPatient == ASSUME IInv, PInv, Tick PROVE PInv'
  <1> USE DEF attempts, secrets
  <1>1. Counters'
    BY DEF Tick, PInv, Counters
  <1>2. /\ now \in Nat /\ now' = now + 1 /\ UNCHANGED <<req, overlapped, totp, throttle, attempts>>
        /\ lockedAt \in Nat \cup {None}
    BY DEF IInv, Typed, Tick, PInv, Counters
  <1>3. (now >= lockedAt + Lockout)' \/ ~(now >= lockedAt + Lockout) \/ lockedAt = None
    BY ONLY <1>2, SignInAssumption
  <1>4. Patient => Patient'
    BY <1>2, <1>3 DEF Patient, Single, ThrottleFits, StepFits, Reopened
  <1> QED
    BY <1>1, <1>2, <1>4 DEF PInv

LEMMA StartPatient ==
  ASSUME IInv, PInv, NEW r \in Slots, NEW kind, NEW proof, Start(r, kind, proof)
  PROVE  PInv'
  <1> USE DEF attempts, secrets
  <1>1. /\ UNCHANGED <<now, totp, throttle, attempts>>
        /\ overlapped' = (overlapped \/ \E s \in Slots : req[s] # Free)
    BY DEF Start
  <1>2. PICK key, data, changed : req' = [req EXCEPT ![r] = Started(kind, proof, key, data, changed)]
    BY DEF Start
  <1>3. PICK q : q = Started(kind, proof, key, data, changed)
    OBVIOUS
  <1>4. q.pc \in {"respond", "view"}
    BY <1>3 DEF Started, FirstStep
  <1>5. Only(r) /\ req'[r] = q
    <2>1. req = [s \in Slots |-> req[s]]
      BY DEF IInv, Typed
    <2> QED
      BY ONLY <1>2, <1>3, <2>1, r \in Slots DEF Only
  <1>6. Counters'
    BY <1>1, <1>4, <1>5 DEF PInv, Counters, Only
  <1>7. ASSUME ~overlapped' PROVE Patient'
    <2>1. ~overlapped /\ \A s \in Slots : req[s] = Free
      BY <1>1, <1>7
    <2>2. Single'
      BY <1>5, <2>1 DEF Single, Only
    <2>3. \A s \in Slots : StepFits(req[s])'
      BY <1>4, <1>5, <2>1 DEF StepFits, Only, Free
    <2>4. ThrottleFits'
      BY <1>1, <2>1 DEF PInv, Patient, ThrottleFits
    <2> QED
      BY <2>2, <2>3, <2>4 DEF Patient
  <1> QED
    BY <1>6, <1>7 DEF PInv

LEMMA ProvisionPatient == ASSUME IInv, PInv, NEW r \in Slots, Provision(r) PROVE PInv'
  <1> USE DEF attempts
  <1>1. req[r] # Free /\ UNCHANGED <<now, throttle, overlapped, attempts>>
    BY DEF Provision, Free
  <1>2. PICK pc : /\ req' = [req EXCEPT ![r].pc = pc, ![r].seen = totp.secret + 1]
                  /\ pc \in {"respond", "locked"}
    BY DEF Provision, ShowSecret
  <1>3. Only(r) /\ req'[r].pc = pc
    BY <1>1, <1>2, SeenMoves
  <1>4. Counters'
    <2>1. totp' = [secret |-> totp.secret + 1, confirmed |-> FALSE] /\ totp.secret \in Nat
      BY DEF Provision, PInv, Counters
    <2>2. totp' \in [secret : Nat, confirmed : BOOLEAN]
      BY <2>1, TotpRow
    <2> QED
      BY <1>1, <1>2, <1>3, <2>2 DEF PInv, Counters, Only
  <1>5. Patient => ThrottleFits' /\ StepFits(req[r])'
    BY <1>1, <1>2, <1>3 DEF Patient, ThrottleFits, StepFits
  <1> QED
    BY <1>1, <1>3, <1>4, <1>5, OneSteps

LEMMA VerifyPatient == ASSUME IInv, PInv, NEW r \in Slots, Verify(r) PROVE PInv'
  <1>1. /\ req[r] # Free /\ req[r].pc = "verify"
        /\ UNCHANGED <<now, totp, throttle, overlapped, misses, lockedAt>>
        /\ lastTry' = IF lockedAt = None THEN None ELSE now
        /\ now \in Nat
    BY DEF Verify, Free, secrets, Tried, IInv, Typed
  <1>2. PICK pc \in {"use", "miss", "mark", "success"} : Go(r, pc)
    BY DEF Verify
  <1>3. Only(r) /\ req'[r].pc = pc
    BY <1>1, <1>2, GoMoves
  <1>4. Counters'
    BY <1>1, <1>3 DEF PInv, Counters, Only
  <1>5. Patient => Reopened /\ ThrottleFits
    BY <1>1 DEF Patient, StepFits
  <1>6. Reopened /\ ThrottleFits => ThrottleFits'
    BY <1>1 DEF Reopened, ThrottleFits
  <1>7. Reopened => StepFits(req[r])'
    BY <1>1, <1>3 DEF Reopened, StepFits
  <1> QED
    BY <1>1, <1>3, <1>4, <1>5, <1>6, <1>7, OneSteps

LEMMA MarkPatient == ASSUME IInv, PInv, NEW r \in Slots, Mark(r) PROVE PInv'
  <1> USE DEF attempts
  <1>1. /\ req[r] # Free /\ req[r].pc = "mark" /\ Go(r, "success")
        /\ UNCHANGED <<now, throttle, overlapped, attempts>>
    BY DEF Mark, Free
  <1>2. Only(r) /\ req'[r].pc = "success"
    BY <1>1, GoMoves
  <1>3. totp' \in [secret : Nat, confirmed : BOOLEAN]
    BY DEF Mark, PInv, Counters
  <1>4. Counters'
    BY <1>1, <1>2, <1>3 DEF PInv, Counters, Only
  <1>5. Patient => ThrottleFits' /\ StepFits(req[r])'
    BY <1>1, <1>2 DEF Patient, ThrottleFits, StepFits, Reopened
  <1> QED
    BY <1>1, <1>2, <1>4, <1>5, OneSteps

LEMMA CountPatient == ASSUME IInv, PInv, NEW r \in Slots, Count(r) PROVE PInv'
  <1>1. /\ req[r] # Free /\ req[r].pc = "count" /\ Go(r, "respond") /\ throttle' = Counted(req[r].row)
        /\ UNCHANGED <<now, totp, overlapped>> /\ now \in Nat
        /\ throttle \in [failed : Nat, until : Nat] /\ req[r].row \in [failed : Nat, until : Nat] /\ misses \in Nat
    BY DEF Count, Free, PInv, Counters, IInv, Typed
  <1>2. IF misses + 1 >= MaxAttempts
        THEN misses' = 0 /\ lockedAt' = now /\ lastTry' = None
        ELSE misses' = misses + 1 /\ UNCHANGED <<lockedAt, lastTry>>
    BY DEF Count
  <1>3. Only(r) /\ req'[r].pc = "respond"
    BY <1>1, GoMoves
  <1>4. IF req[r].row.failed >= MaxAttempts
        THEN throttle'.failed = 0 /\ throttle'.until = now + Lockout
        ELSE throttle' = req[r].row
    BY <1>1 DEF Counted
  <1>5. throttle' \in [failed : Nat, until : Nat]
    BY <1>1, SignInAssumption DEF Counted
  <1>6. Counters'
    BY <1>1, <1>2, <1>3, <1>5 DEF PInv, Counters, Only
  <1>7. StepFits(req[r])'
    BY <1>3 DEF StepFits
  <1>8. Patient => req[r].row = [throttle EXCEPT !.failed = misses + 1] /\ ThrottleFits
    BY <1>1 DEF Patient, StepFits
  <1>9. ASSUME req[r].row = [throttle EXCEPT !.failed = misses + 1], ThrottleFits PROVE ThrottleFits'
    <2>1. CASE misses + 1 >= MaxAttempts
      BY <1>1, <1>2, <1>4, <1>9, <2>1, SignInAssumption DEF ThrottleFits
    <2>2. CASE ~(misses + 1 >= MaxAttempts)
      BY <1>1, <1>2, <1>4, <1>9, <2>2 DEF ThrottleFits
    <2> QED
      BY <2>1, <2>2
  <1> QED
    BY <1>1, <1>3, <1>6, <1>7, <1>8, <1>9, OneSteps

LEMMA SuccessPatient == ASSUME IInv, PInv, NEW r \in Slots, Success(r) PROVE PInv'
  <1>1. /\ req[r] # Free /\ req[r].pc = "success" /\ Go(r, "signin")
        /\ throttle' = NoMisses /\ misses' = 0
        /\ UNCHANGED <<now, totp, overlapped, lockedAt, lastTry>>
    BY DEF Success, Free
  <1>2. Only(r) /\ req'[r].pc = "signin"
    BY <1>1, GoMoves
  <1>3. Counters'
    BY <1>1, <1>2 DEF PInv, Counters, Only, NoMisses
  <1>4. Patient => ThrottleFits' /\ StepFits(req[r])'
    BY <1>1, <1>2 DEF Patient, ThrottleFits, StepFits, Reopened, NoMisses
  <1> QED
    BY <1>1, <1>2, <1>3, <1>4, OneSteps

\* Unless two requests have overlapped, every step keeps the counters, the
\* throttle and what the requests have read in agreement.
THEOREM NextPatient == IInv /\ PInv /\ [Next]_vars => PInv'
  <1> SUFFICES ASSUME IInv, PInv, [Next]_vars PROVE PInv'
    OBVIOUS
  <1>1. CASE UNCHANGED vars
    BY <1>1 DEF vars, secrets, attempts, PInv, Counters, Patient, Single, ThrottleFits, StepFits, Reopened
  <1>2. ASSUME NEW r \in Slots, NEW kind, NEW proof, Start(r, kind, proof) PROVE PInv'
    BY <1>2, StartPatient
  <1> QED
    BY <1>1, <1>2, TickPatient, QuietSteps, ProvisionPatient, VerifyPatient, MarkPatient,
       CountPatient, SuccessPatient DEF Next

\* So PInv holds in every state.
THEOREM PatientInvariant == Spec => []PInv
  BY InitPatient, NextPatient, Invariant, PTL DEF Spec

\* However a manager who waits for each answer mistypes codes: MaxAttempts in a
\* row close the second factor for the whole of Lockout.
THEOREM LockedOutWaitsHolds == Spec => []LockedOutWaitsIfPatient
  <1>1. PInv => LockedOutWaitsIfPatient
    BY DEF PInv, Patient, ThrottleFits, LockedOutWaitsIfPatient
  <1> QED
    BY <1>1, PatientInvariant, PTL

\* Nothing such a manager's browser sends takes away the confirmed authenticator.
THEOREM EnrolmentLastsHolds == Spec => EnrolmentLastsIfPatient
  <1> DEFINE Lasts == totp.confirmed /\ ~overlapped' => totp' = totp
  <1>1. PInv /\ [Next]_vars => [Lasts]_vars
    <2> SUFFICES ASSUME PInv, Next, totp.confirmed, ~overlapped', totp' # totp PROVE FALSE
      OBVIOUS
    <2> USE DEF secrets, ViewOnly
    <2>1. \E r \in Slots : Provision(r) \/ Mark(r)
      <3>1. ~Tick
        BY DEF Tick
      <3>2. ASSUME NEW r \in Slots
            PROVE  ~(Password(r) \/ Logout(r) \/ Setup(r) \/ GetSecret(r))
        BY DEF Password, Logout, Setup, GetSecret
      <3>3. ASSUME NEW r \in Slots
            PROVE  ~(IsLocked(r) \/ Verify(r) \/ UseCode(r) \/ Miss(r) \/ Count(r))
        BY DEF IsLocked, Verify, UseCode, Miss, Count
      <3>4. ASSUME NEW r \in Slots PROVE ~(Success(r) \/ Login(r) \/ Respond(r))
        BY DEF Success, Login, Respond
      <3>5. ASSUME NEW r \in Slots, NEW kind, NEW proof PROVE ~Start(r, kind, proof)
        BY DEF Start
      <3> HIDE DEF secrets, ViewOnly
      <3> QED
        BY <3>1, <3>2, <3>3, <3>4, <3>5, Zenon DEF Next
    <2> PICK r \in Slots : Provision(r) \/ Mark(r)
      BY <2>1
    <2>2. CASE Provision(r)
      BY <2>2 DEF Provision, PInv, Patient, StepFits
    <2>3. CASE Mark(r)
      BY <2>3 DEF Mark, PInv, Counters
    <2> QED
      BY <2>2, <2>3
  <1> QED
    BY <1>1, PatientInvariant, PTL DEF Spec, EnrolmentLastsIfPatient
=============================================================================
