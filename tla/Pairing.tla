------------------------------- MODULE Pairing -------------------------------
(***************************************************************************)
(* Pairing of tablets (apps/devices/services.py): codes that managers      *)
(* issue, which several tablets try to use at once.                        *)
(*                                                                         *)
(* activate_device is one READ COMMITTED transaction.  Its SELECT FOR      *)
(* UPDATE takes the rows of all codes that are unused and unexpired, in no *)
(* order of its own; a row it had to wait for is looked at again and       *)
(* skipped if it has been used.  Which row a request waits for shows when  *)
(* it gets it.  A device is named by the request that made it, a hash by   *)
(* what was hashed.                                                        *)
(*                                                                         *)
(* TabletProofs speaks of this module and of KioskActions, so that the two *)
(* share no name.                                                          *)
(***************************************************************************)
EXTENDS Naturals

CONSTANTS
  MaxCode,     \* bound: codes are 1..MaxCode, in the order they are issued
  Activations, \* requests to /kiosk/activate/
  NoDevice

ASSUME PairingAssumption == MaxCode \in Nat /\ NoDevice \notin Activations

VARIABLES
  issued,      \* codes 1..issued exist
  expired,     \* those whose expires_at has passed
  device,      \* the device each code has paired
  active,      \* devices that are not revoked
  posted,      \* the code each request posts
  stage,
  live,        \* the codes its query finds
  todo,        \* those whose rows it has still to lock
  locked       \* the rows it holds

pairingVars == <<issued, expired, device, active, posted, stage, live, todo, locked>>

Codes == 1..MaxCode
Ended == {"paired", "refused", "dead"}

PairingTypeOK ==
  /\ issued \in 0..MaxCode
  /\ expired \subseteq Codes
  /\ device \in [Codes -> Activations \cup {NoDevice}]
  /\ active \subseteq Activations
  /\ posted \in [Activations -> Codes]
  /\ stage \in [Activations -> Ended \cup {"start", "lock"}]
  /\ live \in [Activations -> SUBSET Codes]
  /\ todo \in [Activations -> SUBSET Codes]
  /\ locked \in [Activations -> SUBSET Codes]

PairingInit ==
  /\ issued = 0
  /\ expired = {}
  /\ device = [c \in Codes |-> NoDevice]
  /\ active = {}
  /\ posted \in [Activations -> Codes]
  /\ stage = [j \in Activations |-> "start"]
  /\ live = [j \in Activations |-> {}]
  /\ todo = [j \in Activations |-> {}]
  /\ locked = [j \in Activations |-> {}]

-----------------------------------------------------------------------------
(* Codes and devices *)

CreatePairingCode ==
  /\ issued < MaxCode
  /\ issued' = issued + 1
  /\ UNCHANGED <<expired, device, active, posted, stage, live, todo, locked>>

ExpireCode(c) ==
  /\ c \in 1..issued \ expired
  /\ expired' = expired \cup {c}
  /\ UNCHANGED <<issued, device, active, posted, stage, live, todo, locked>>

RevokeDevice(d) ==
  /\ d \in active
  /\ active' = active \ {d}
  /\ UNCHANGED <<issued, expired, device, posted, stage, live, todo, locked>>

-----------------------------------------------------------------------------
(* activate_device *)

\* used_at IS NULL
Unused(c) == device[c] = NoDevice

\* The query starts: these rows it will lock.
Find(j) ==
  /\ stage[j] = "start"
  /\ LET rows == {c \in 1..issued \ expired : Unused(c)} IN
     live' = [live EXCEPT ![j] = rows] /\ todo' = [todo EXCEPT ![j] = rows]
  /\ stage' = [stage EXCEPT ![j] = "lock"]
  /\ UNCHANGED <<issued, expired, device, active, posted, locked>>

\* A row that was waited for is checked again.  Faulty variant: it is not.
NotChecked(c) == TRUE
StillMatches(c) == Unused(c)

LockRow(j) ==
  /\ stage[j] = "lock"
  /\ \E c \in todo[j] :
       /\ \A k \in Activations : c \notin locked[k]
       /\ todo' = [todo EXCEPT ![j] = todo[j] \ {c}]
       /\ locked' = [locked EXCEPT ![j] = IF StillMatches(c) THEN locked[j] \cup {c} ELSE locked[j]]
  /\ UNCHANGED <<issued, expired, device, active, posted, stage, live>>

\* The code is looked for among the rows.  Faulty variant: only the first is
\* compared.
ComparedWithFirst(j) == posted[j] \in locked[j] /\ \A d \in locked[j] : posted[j] <= d
Matches(j) == posted[j] \in locked[j]

NewDevice(j) == j

Finish(j, label) ==
  /\ stage[j] = "lock"
  /\ stage' = [stage EXCEPT ![j] = label]
  /\ todo' = [todo EXCEPT ![j] = {}]
  /\ locked' = [locked EXCEPT ![j] = {}]
  /\ UNCHANGED <<issued, expired, posted, live>>

Pair(j) ==
  /\ todo[j] = {} /\ Matches(j)
  /\ device' = [device EXCEPT ![posted[j]] = NewDevice(j)]
  /\ active' = active \cup {j}
  /\ Finish(j, "paired")

RefuseCode(j) ==
  /\ todo[j] = {} /\ ~Matches(j)
  /\ Finish(j, "refused")
  /\ UNCHANGED <<device, active>>

\* The worker dies, or activations wait for each other and the database
\* cancels this one: rolled back.
Abort(j) == Finish(j, "dead") /\ UNCHANGED <<device, active>>

Activate(j) == Find(j) \/ LockRow(j) \/ Pair(j) \/ RefuseCode(j)

PairingNext ==
  \/ CreatePairingCode
  \/ \E c \in Codes : ExpireCode(c)
  \/ \E d \in Activations : RevokeDevice(d)
  \/ \E j \in Activations : Activate(j) \/ Abort(j)

PairingSpec == PairingInit /\ [][PairingNext]_pairingVars

-----------------------------------------------------------------------------
(* Properties *)

\* "Two concurrent activations of the same code cannot both succeed".
PairsOnce ==
  \A i, j \in Activations :
    stage[i] = "paired" /\ stage[j] = "paired" /\ posted[i] = posted[j] => i = j

\* A code that is in order when it is posted is refused only because another
\* tablet has used it first, however many codes are activated at once.
RefusedOnlyIfUsed ==
  \A j \in Activations :
    stage[j] = "refused" /\ posted[j] \in live[j] => device[posted[j]] \in Activations \ {j}
=============================================================================
