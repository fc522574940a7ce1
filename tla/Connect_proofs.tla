--------------------------- MODULE Connect_proofs ---------------------------
(***************************************************************************)
(* Proofs about Connect, for any number of requests, environments and      *)
(* workers, any limits and any durations.                                  *)
(*                                                                         *)
(* Most actions only end authorizations and only take environments down.   *)
(* Downhill says so of one step, for both tables at once; the lemmas       *)
(* below it show what such a step keeps, and only the requests, approvals, *)
(* reservations, deliveries and activations are left to treat one by one.  *)
(***************************************************************************)
EXTENDS Connect, FiniteSetTheorems, TLAPS

\* The columns of an authorization that is there.
LEMMA RequestedRows ==
  ASSUME TypeOK, NEW a \in Auths, Requested(a)
  PROVE  auths[a] \in Authorization
BY DEF TypeOK, Requested

\* The columns of an environment that is there.
LEMMA PresentRows ==
  ASSUME TypeOK, NEW e \in Envs, Present(e)
  PROVE  envs[e] \in Environment
BY DEF TypeOK, Present

\* A row is none of the two marks of an id without one.
LEMMA RowsArePresent ==
  /\ \A row \in Authorization : row \notin {Unused, Purged}
  /\ \A row \in Environment : row \notin {Unused, Purged}
  /\ \A claim \in Claim : claim # None
BY ConnectSentinels

\* A worker that may write has a claim on an environment that is there.
LEMMA HoldersRow ==
  ASSUME TypeOK, NEW w \in Workers, NEW status, Holds(w, status)
  PROVE  /\ claims[w] \in Claim /\ claims[w].env \in Envs
         /\ Present(claims[w].env)
         /\ envs[claims[w].env] \in Environment
         /\ envs[claims[w].env].status = status
         /\ envs[claims[w].env].token = w
         /\ claims[w].status = status
<1>1. claims[w] \in Claim /\ Present(claims[w].env)
  BY DEF TypeOK, Holds
<1>2. claims[w].env \in Envs
  BY <1>1 DEF Claim
<1>3. QED BY <1>1, <1>2, PresentRows DEF Holds

\* The durations are durations.
LEMMA Durations ==
  /\ 0 \in 0..Longer(AuthTime, ProvisionTime)
  /\ AuthTime \in 0..Longer(AuthTime, ProvisionTime)
  /\ ProvisionTime \in 0..Longer(AuthTime, ProvisionTime)
  /\ -1 \in -1..RedeliveryWindow /\ RedeliveryWindow \in -1..RedeliveryWindow
  /\ 0 \in 0..RetentionTime /\ 0 \in 0..ClaimTime /\ ClaimTime \in 0..ClaimTime
  /\ 0 \in 0..RetryTime /\ RetryTime \in 0..RetryTime
  /\ ActivationTime \in 0..ActivationTime
BY ConnectConstants DEF Longer

\* Setting one column keeps an authorization one, and leaves the others alone.
LEMMA AuthorizationUpdates ==
  ASSUME NEW row \in Authorization
  PROVE  /\ \A x \in AuthorizationStatus : [row EXCEPT !.status = x] \in Authorization
         /\ \A x \in Envs \cup {None} : [row EXCEPT !.environment = x] \in Authorization
         /\ \A x \in Ciphertexts \cup {None} :
              [row EXCEPT !.credential = x] \in Authorization
         /\ \A x \in 0..Longer(AuthTime, ProvisionTime) :
              [row EXCEPT !.left = x] \in Authorization
         /\ \A x \in -1..RedeliveryWindow : [row EXCEPT !.redeliver = x] \in Authorization
         /\ \A x \in 0..RetentionTime : [row EXCEPT !.age = x] \in Authorization
<1>1. \A x \in AuthorizationStatus : [row EXCEPT !.status = x] \in Authorization
  BY DEF Authorization
<1>2. \A x \in Envs \cup {None} : [row EXCEPT !.environment = x] \in Authorization
  BY DEF Authorization
<1>3. \A x \in Ciphertexts \cup {None} : [row EXCEPT !.credential = x] \in Authorization
  BY DEF Authorization
<1>4. \A x \in 0..Longer(AuthTime, ProvisionTime) :
        [row EXCEPT !.left = x] \in Authorization
  BY DEF Authorization
<1>5. \A x \in -1..RedeliveryWindow : [row EXCEPT !.redeliver = x] \in Authorization
  BY DEF Authorization
<1>6. \A x \in 0..RetentionTime : [row EXCEPT !.age = x] \in Authorization
  BY DEF Authorization
<1>7. QED BY <1>1, <1>2, <1>3, <1>4, <1>5, <1>6

\* The same for an environment.
LEMMA EnvironmentUpdates ==
  ASSUME NEW row \in Environment
  PROVE  /\ \A x \in EnvironmentStatus : [row EXCEPT !.status = x] \in Environment
         /\ \A x \in Auths \cup {None} : [row EXCEPT !.authorization = x] \in Environment
         /\ \A x \in Ciphertexts \cup {None} : [row EXCEPT !.access = x] \in Environment
         /\ \A x \in Ciphertexts \cup {None} : [row EXCEPT !.secret = x] \in Environment
         /\ \A x \in SUBSET Parts : [row EXCEPT !.relay = x] \in Environment
         /\ \A x \in 0..RetryTime : [row EXCEPT !.next = x] \in Environment
         /\ \A x \in Workers \cup {None} : [row EXCEPT !.token = x] \in Environment
         /\ \A x \in 0..ClaimTime : [row EXCEPT !.claimed = x] \in Environment
         /\ \A x \in (0..ActivationTime) \cup {None} :
              [row EXCEPT !.activation = x] \in Environment
         /\ \A x \in BOOLEAN : [row EXCEPT !.activated = x] \in Environment
         /\ \A x \in 0..RetentionTime : [row EXCEPT !.age = x] \in Environment
<1>1. \A x \in EnvironmentStatus : [row EXCEPT !.status = x] \in Environment
  BY DEF Environment
<1>2. \A x \in Auths \cup {None} : [row EXCEPT !.authorization = x] \in Environment
  BY DEF Environment
<1>3. \A x \in Ciphertexts \cup {None} : [row EXCEPT !.access = x] \in Environment
  BY DEF Environment
<1>4. \A x \in Ciphertexts \cup {None} : [row EXCEPT !.secret = x] \in Environment
  BY DEF Environment
<1>5. \A x \in SUBSET Parts : [row EXCEPT !.relay = x] \in Environment
  BY DEF Environment
<1>6. \A x \in 0..RetryTime : [row EXCEPT !.next = x] \in Environment
  BY DEF Environment
<1>7. \A x \in Workers \cup {None} : [row EXCEPT !.token = x] \in Environment
  BY DEF Environment
<1>8. \A x \in 0..ClaimTime : [row EXCEPT !.claimed = x] \in Environment
  BY DEF Environment
<1>9. \A x \in (0..ActivationTime) \cup {None} :
        [row EXCEPT !.activation = x] \in Environment
  BY DEF Environment
<1>10. \A x \in BOOLEAN : [row EXCEPT !.activated = x] \in Environment
  BY DEF Environment
<1>11. \A x \in 0..RetentionTime : [row EXCEPT !.age = x] \in Environment
  BY DEF Environment
<1>12. QED BY <1>1, <1>2, <1>3, <1>4, <1>5, <1>6, <1>7, <1>8, <1>9, <1>10, <1>11

\* The statuses are statuses.
LEMMA Statuses ==
  /\ \A x \in {"provisioning", "active", "revoking", "revoked"} : x \in EnvironmentStatus
  /\ Open \cup Terminal = AuthorizationStatus
  /\ Open \cap Terminal = {}
BY DEF EnvironmentStatus, AuthorizationStatus, Open, Terminal

-----------------------------------------------------------------------------
(* The rows that the actions write. *)

\* An authorization that is cut off has ended and gives its credential up.
LEMMA CutOffRow ==
  ASSUME NEW row \in Authorization
  PROVE  /\ CutOff(row) \in Authorization
         /\ CutOff(row).status = IF row.status \in Open THEN "expired" ELSE row.status
         /\ CutOff(row).status \in Terminal
         /\ CutOff(row).environment = row.environment
         /\ CutOff(row).credential = None
<1> DEFINE status == IF row.status \in Open THEN "expired" ELSE row.status
           x == [row EXCEPT !.status = status]
           y == [x EXCEPT !.credential = None]
<1>1. status \in Terminal /\ status \in AuthorizationStatus
  BY DEF Open, Terminal, AuthorizationStatus, Authorization
<1>2. CutOff(row) = [y EXCEPT !.age = 0]
  BY DEF CutOff
<1> HIDE DEF status
<1>3. /\ x \in Authorization /\ x.status = status
      /\ x.environment = row.environment
  BY <1>1, AuthorizationUpdates DEF Authorization
<1> HIDE DEF x
<1>4. /\ y \in Authorization /\ y.status = status
      /\ y.environment = row.environment /\ y.credential = None
  BY <1>3, AuthorizationUpdates DEF Authorization
<1> HIDE DEF y
<1>5. QED
  BY <1>1, <1>2, <1>4, AuthorizationUpdates, Durations DEF Authorization, status

\* An environment that is being revoked, under the claim of w.
LEMMA RevokingRow ==
  ASSUME NEW row \in Environment, NEW w \in Workers
  PROVE  /\ Revoking(row, w) \in Environment
         /\ Revoking(row, w).status = "revoking"
         /\ Revoking(row, w).scope = row.scope
         /\ Revoking(row, w).authorization = row.authorization
         /\ Revoking(row, w).access = None /\ Revoking(row, w).secret = None
         /\ Revoking(row, w).token = w /\ Revoking(row, w).claimed = ClaimTime
<1> DEFINE r1 == [row EXCEPT !.status = "revoking"]
           r2 == [r1 EXCEPT !.access = None]
           r3 == [r2 EXCEPT !.secret = None]
           r4 == [r3 EXCEPT !.token = w]
           r5 == [r4 EXCEPT !.claimed = ClaimTime]
<1>1. /\ r1 \in Environment /\ r1.status = "revoking" /\ r1.scope = row.scope
      /\ r1.authorization = row.authorization
  BY EnvironmentUpdates, Statuses DEF Environment
<1>2. Revoking(row, w) = [r5 EXCEPT !.next = 0]
  BY DEF Revoking
<1> HIDE DEF r1
<1>3. /\ r2 \in Environment /\ r2.status = "revoking" /\ r2.scope = row.scope
      /\ r2.authorization = row.authorization /\ r2.access = None
  BY <1>1, EnvironmentUpdates DEF Environment
<1> HIDE DEF r2
<1>4. /\ r3 \in Environment /\ r3.status = "revoking" /\ r3.scope = row.scope
      /\ r3.authorization = row.authorization
      /\ r3.access = None /\ r3.secret = None
  BY <1>3, EnvironmentUpdates DEF Environment
<1> HIDE DEF r3
<1>5. /\ r4 \in Environment /\ r4.status = "revoking" /\ r4.scope = row.scope
      /\ r4.authorization = row.authorization
      /\ r4.access = None /\ r4.secret = None /\ r4.token = w
  BY <1>4, EnvironmentUpdates DEF Environment
<1> HIDE DEF r4
<1>6. /\ r5 \in Environment /\ r5.status = "revoking" /\ r5.scope = row.scope
      /\ r5.authorization = row.authorization
      /\ r5.access = None /\ r5.secret = None /\ r5.token = w
      /\ r5.claimed = ClaimTime
  BY <1>5, EnvironmentUpdates, Durations DEF Environment
<1> HIDE DEF r5
<1>7. QED BY <1>2, <1>6, EnvironmentUpdates, Durations DEF Environment

\* A revoked environment has nothing left; its claim stays.
LEMMA RevokedRow ==
  ASSUME NEW row \in Environment
  PROVE  /\ Revoked(row) \in Environment
         /\ Revoked(row).status = "revoked"
         /\ Revoked(row).scope = row.scope
         /\ Revoked(row).authorization = row.authorization
         /\ Revoked(row).access = None /\ Revoked(row).secret = None
         /\ Revoked(row).relay = {}
<1> DEFINE r1 == [row EXCEPT !.status = "revoked"]
           r2 == [r1 EXCEPT !.access = None]
           r3 == [r2 EXCEPT !.secret = None]
           r4 == [r3 EXCEPT !.relay = {}]
<1>1. /\ r1 \in Environment /\ r1.status = "revoked" /\ r1.scope = row.scope
      /\ r1.authorization = row.authorization
  BY EnvironmentUpdates, Statuses DEF Environment
<1>2. Revoked(row) = [r4 EXCEPT !.age = 0]
  BY DEF Revoked
<1> HIDE DEF r1
<1>3. /\ r2 \in Environment /\ r2.status = "revoked" /\ r2.scope = row.scope
      /\ r2.authorization = row.authorization /\ r2.access = None
  BY <1>1, EnvironmentUpdates DEF Environment
<1> HIDE DEF r2
<1>4. /\ r3 \in Environment /\ r3.status = "revoked" /\ r3.scope = row.scope
      /\ r3.authorization = row.authorization
      /\ r3.access = None /\ r3.secret = None
  BY <1>3, EnvironmentUpdates DEF Environment
<1> HIDE DEF r3
<1>5. /\ r4 \in Environment /\ r4.status = "revoked" /\ r4.scope = row.scope
      /\ r4.authorization = row.authorization
      /\ r4.access = None /\ r4.secret = None /\ r4.relay = {}
  BY <1>4, EnvironmentUpdates DEF Environment
<1> HIDE DEF r4
<1>6. QED BY <1>2, <1>5, EnvironmentUpdates, Durations DEF Environment

\* What approval inserts.
LEMMA ApprovedRow ==
  ASSUME NEW scope \in Scopes, NEW access \in Ciphertexts
  PROVE  LET row == [NewRow(scope) EXCEPT !.access = access] IN
         /\ row \in Environment /\ row.status = "active" /\ row.scope = scope
         /\ row.authorization = None /\ row.activated = FALSE
<1>1. NewRow(scope) \in Environment
  BY Durations DEF NewRow, Environment, EnvironmentStatus
<1>2. [NewRow(scope) EXCEPT !.access = access] \in Environment
  BY <1>1, EnvironmentUpdates
<1>3. QED BY <1>1, <1>2 DEF NewRow

\* What reservation inserts.
Inserted(scope, access, secret, a, w) ==
  [NewRow(scope) EXCEPT !.authorization = a, !.status = "provisioning",
     !.access = access, !.secret = secret, !.relay = {},
     !.token = w, !.claimed = ClaimTime, !.activation = ActivationTime]

\* It is under the claim of the worker that reserved it.
LEMMA ReservedRow ==
  ASSUME NEW scope \in Scopes, NEW access \in Ciphertexts,
         NEW secret \in Ciphertexts, NEW a \in Auths, NEW w \in Workers
  PROVE  LET row == Inserted(scope, access, secret, a, w)
         IN /\ row \in Environment /\ row.status = "provisioning"
            /\ row.scope = scope /\ row.authorization = a
            /\ row.token = w /\ row.claimed = ClaimTime
<1> DEFINE r0 == NewRow(scope)
           r1 == [r0 EXCEPT !.authorization = a]
           r2 == [r1 EXCEPT !.status = "provisioning"]
           r3 == [r2 EXCEPT !.access = access]
           r4 == [r3 EXCEPT !.secret = secret]
           r5 == [r4 EXCEPT !.relay = {}]
           r6 == [r5 EXCEPT !.token = w]
           r7 == [r6 EXCEPT !.claimed = ClaimTime]
           r8 == [r7 EXCEPT !.activation = ActivationTime]
<1>0. r0 \in Environment /\ r0.scope = scope
  BY Durations DEF NewRow, Environment, EnvironmentStatus
<1> HIDE DEF r0
<1>1. r1 \in Environment /\ r1.scope = scope /\ r1.authorization = a
  BY <1>0, EnvironmentUpdates DEF Environment
<1> HIDE DEF r1
<1>2. /\ r2 \in Environment /\ r2.scope = scope /\ r2.authorization = a
      /\ r2.status = "provisioning"
  BY <1>1, EnvironmentUpdates, Statuses DEF Environment
<1> HIDE DEF r2
<1>3. /\ r3 \in Environment /\ r3.scope = scope /\ r3.authorization = a
      /\ r3.status = "provisioning"
  BY <1>2, EnvironmentUpdates DEF Environment
<1> HIDE DEF r3
<1>4. /\ r4 \in Environment /\ r4.scope = scope /\ r4.authorization = a
      /\ r4.status = "provisioning"
  BY <1>3, EnvironmentUpdates DEF Environment
<1> HIDE DEF r4
<1>5. /\ r5 \in Environment /\ r5.scope = scope /\ r5.authorization = a
      /\ r5.status = "provisioning"
  BY <1>4, EnvironmentUpdates DEF Environment
<1> HIDE DEF r5
<1>6. /\ r6 \in Environment /\ r6.scope = scope /\ r6.authorization = a
      /\ r6.status = "provisioning" /\ r6.token = w
  BY <1>5, EnvironmentUpdates DEF Environment
<1> HIDE DEF r6
<1>7. /\ r7 \in Environment /\ r7.scope = scope /\ r7.authorization = a
      /\ r7.status = "provisioning" /\ r7.token = w /\ r7.claimed = ClaimTime
  BY <1>6, EnvironmentUpdates, Durations DEF Environment
<1> HIDE DEF r7
<1>8. /\ r8 \in Environment /\ r8.scope = scope /\ r8.authorization = a
      /\ r8.status = "provisioning" /\ r8.token = w /\ r8.claimed = ClaimTime
  BY <1>7, EnvironmentUpdates, Durations DEF Environment
<1>9. QED BY <1>8 DEF Inserted, r0, r1, r2, r3, r4, r5, r6, r7, r8

-----------------------------------------------------------------------------
(* Steps on which authorizations go on or end and environments stay or are *)
(* taken down.                                                             *)

\* Authorization i keeps its place, or starts to be delivered.
Continues(i) ==
  \/ auths'[i] = auths[i]
  \/ /\ Requested(i) /\ auths'[i] \in Authorization
     /\ \/ auths'[i].status = auths[i].status
        \/ auths[i].status = "approved" /\ auths'[i].status = "delivering"
     /\ auths'[i].environment = auths[i].environment
     /\ auths'[i].credential # None => auths[i].credential # None

\* Authorization i ends, or is purged after it ended.
Ends(i) ==
  /\ Requested(i)
  /\ \/ auths'[i] = Purged /\ auths[i].status \in Terminal
     \/ /\ auths'[i] \in Authorization /\ auths'[i].status \in Terminal
        /\ auths'[i].environment = auths[i].environment
        /\ auths'[i].credential = None

\* Environment e keeps its status.
Stays(e) ==
  \/ envs'[e] = envs[e]
  \/ /\ Present(e) /\ envs'[e] \in Environment
     /\ envs'[e].status = envs[e].status /\ envs'[e].scope = envs[e].scope
     /\ envs'[e].authorization = envs[e].authorization
     /\ envs[e].activated => envs'[e].activated

\* Environment e is to be revoked, is revoked, or is purged.
GoesDown(e) ==
  /\ Present(e)
  /\ \/ envs'[e] = Purged /\ envs[e].status = "revoked"
     \/ /\ envs'[e] \in Environment
        /\ envs'[e].scope = envs[e].scope
        /\ envs'[e].authorization = envs[e].authorization
        /\ \/ envs'[e].status = "revoking" /\ envs[e].status # "revoked"
           \/ envs'[e].status = "revoked"

\* An environment that goes down takes its unfinished authorizations along.
Downhill ==
  /\ \A i \in Auths : Continues(i) \/ Ends(i)
  /\ \A e \in Envs : Stays(e) \/ GoesDown(e)
  /\ \A e \in Envs : ~Stays(e) =>
       \A i \in Auths :
         /\ Requested(i) /\ auths[i].environment = e
         /\ auths[i].status \in {"provisioning", "approved", "delivering"}
         => Ends(i)

\* Going down, nobody loses the other half of a pair.
LEMMA DownhillPointers ==
  ASSUME TypeOK, PointersAgree, Downhill
  PROVE  PointersAgree'
<1>1. ASSUME NEW a \in Auths, Requested(a)'
      PROVE  /\ Requested(a) /\ auths[a] \in Authorization
             /\ auths'[a].environment = auths[a].environment
             /\ auths'[a].status \in {"pending", "provisioning"}
                  => auths'[a].status = auths[a].status
  BY <1>1, RequestedRows DEF Downhill, Continues, Ends, Requested, Terminal
<1>2. ASSUME NEW e \in Envs, Present(e)'
      PROVE  /\ Present(e)
             /\ envs'[e].authorization = envs[e].authorization
  BY <1>2 DEF Downhill, Stays, GoesDown, Present
<1>3. ASSUME NEW e \in Envs, envs[e] # Unused
      PROVE  envs'[e] # Unused
  BY <1>3, RowsArePresent, ConnectSentinels DEF Downhill, Stays, GoesDown
<1>4. ASSUME NEW a \in Auths, auths[a] # Unused
      PROVE  auths'[a] # Unused
  BY <1>4, RowsArePresent, ConnectSentinels DEF Downhill, Continues, Ends
<1>5. ASSUME NEW a \in Auths, Requested(a)'
      PROVE  /\ auths'[a].environment # None => envs'[auths'[a].environment] # Unused
             /\ auths'[a].status = "pending" => auths'[a].environment = None
             /\ auths'[a].status = "provisioning" => auths'[a].environment # None
  <2>1. auths[a].environment # None => auths[a].environment \in Envs
    BY <1>1, <1>5 DEF Authorization
  <2>2. QED BY <1>1, <1>3, <1>5, <2>1 DEF PointersAgree
<1>6. ASSUME NEW e \in Envs, Present(e)',
             NEW b, b = envs'[e].authorization, b # None
      PROVE  auths'[b] # Unused /\ (Requested(b)' => auths'[b].environment = e)
  <2>1. Present(e) /\ envs[e].authorization = b
    BY <1>2, <1>6
  <2>2. b \in Auths
    BY <1>6, <2>1, PresentRows DEF Environment
  <2>3. auths[b] # Unused /\ (Requested(b) => auths[b].environment = e)
    BY <1>6, <2>1 DEF PointersAgree
  <2>4. QED BY <1>1, <1>4, <2>2, <2>3
<1>7. PointersAgree'
  <2>1. \A e \in Envs : Present(e)' /\ envs'[e].authorization # None =>
          /\ auths'[envs'[e].authorization] # Unused
          /\ auths'[envs'[e].authorization] \notin {Unused, Purged}
               => auths'[envs'[e].authorization].environment = e
    BY <1>6 DEF Requested
  <2>2. QED BY <1>5, <2>1 DEF PointersAgree, Requested, Present
<1>8. QED BY <1>7

\* Going down, no authorization promises an environment that is not active.
LEMMA DownhillDeliverable ==
  ASSUME TypeOK, DeliverableIsActive, Downhill
  PROVE  DeliverableIsActive'
<1> SUFFICES ASSUME NEW a \in Auths, auths'[a] \notin {Unused, Purged}
             PROVE  /\ auths'[a].credential # None
                         => auths'[a].status \in {"approved", "delivering"}
                    /\ auths'[a].status \in {"approved", "delivering"} =>
                         /\ auths'[a].environment # None
                         /\ envs'[auths'[a].environment] \notin {Unused, Purged}
                         /\ envs'[auths'[a].environment].status = "active"
  BY DEF DeliverableIsActive, Requested, Present
<1>1. CASE Ends(a)
  BY <1>1 DEF Ends, Terminal
<1>2. CASE ~Ends(a)
  <2>1. Continues(a) /\ Requested(a) /\ auths[a] \in Authorization
    BY <1>2, RequestedRows DEF Downhill, Continues, Requested
  <2>2. /\ auths'[a].environment = auths[a].environment
        /\ auths'[a].credential # None => auths[a].credential # None
        /\ \/ auths'[a].status = auths[a].status
           \/ auths[a].status = "approved" /\ auths'[a].status = "delivering"
    BY <2>1 DEF Continues
  <2>3. auths'[a].credential # None => auths'[a].status \in {"approved", "delivering"}
    BY <2>1, <2>2 DEF DeliverableIsActive
  <2>4. ASSUME auths'[a].status \in {"approved", "delivering"}
        PROVE  /\ auths'[a].environment # None
               /\ envs'[auths'[a].environment] \notin {Unused, Purged}
               /\ envs'[auths'[a].environment].status = "active"
    <3>1. PICK e : e = auths[a].environment
      OBVIOUS
    <3>2. auths[a].status \in {"approved", "delivering"}
      BY <2>2, <2>4
    <3>3. e # None /\ Present(e) /\ envs[e].status = "active"
      BY <2>1, <3>1, <3>2 DEF DeliverableIsActive
    <3>4. e \in Envs
      BY <2>1, <3>1, <3>3 DEF Authorization
    <3>5. Stays(e)
      BY <1>2, <2>1, <3>1, <3>2, <3>4 DEF Downhill
    <3>6. envs'[e] \notin {Unused, Purged} /\ envs'[e].status = "active"
      BY <3>3, <3>5, RowsArePresent DEF Stays, Present
    <3>7. QED BY <2>2, <3>1, <3>3, <3>6
  <2>5. QED BY <2>3, <2>4
<1>3. QED BY <1>1, <1>2

\* Going down, no authorization in provisioning loses its environment.
LEMMA DownhillPaired ==
  ASSUME TypeOK, PointersAgree, ReservationPaired, Downhill
  PROVE  ReservationPaired'
<1> SUFFICES ASSUME NEW a \in Auths, auths'[a] \notin {Unused, Purged},
                    auths'[a].status = "provisioning"
             PROVE  /\ envs'[auths'[a].environment] \notin {Unused, Purged}
                    /\ envs'[auths'[a].environment].status = "provisioning"
                    /\ envs'[auths'[a].environment].authorization = a
  BY DEF ReservationPaired, Requested, Present
<1>1. ~Ends(a)
  BY DEF Ends, Terminal
<1>2. Continues(a) /\ Requested(a) /\ auths[a] \in Authorization
  BY <1>1, RequestedRows DEF Downhill, Continues, Requested
<1>3. /\ auths'[a].environment = auths[a].environment
      /\ auths[a].status = "provisioning"
  BY <1>2 DEF Continues
<1>4. PICK e : e = auths[a].environment
  OBVIOUS
<1>5. /\ e # None /\ Present(e) /\ envs[e].status = "provisioning"
      /\ envs[e].authorization = a
  BY <1>2, <1>3, <1>4 DEF ReservationPaired, PointersAgree
<1>6. e \in Envs
  BY <1>2, <1>4, <1>5 DEF Authorization
<1>7. Stays(e)
  BY <1>1, <1>2, <1>3, <1>4, <1>6 DEF Downhill
<1>8. /\ envs'[e] \notin {Unused, Purged} /\ envs'[e].status = "provisioning"
      /\ envs'[e].authorization = a
  BY <1>5, <1>7, RowsArePresent DEF Stays, Present
<1>9. QED BY <1>3, <1>4, <1>8

\* Going down, an environment whose device was served stays activated.
LEMMA DownhillEnrolled ==
  ASSUME TypeOK, EnrolledIsActivated, Downhill,
         \A e \in enrolled' \ enrolled :
           /\ envs'[e] \in Environment
           /\ envs'[e].status = "active" /\ envs'[e].activated
  PROVE  EnrolledIsActivated'
<1> SUFFICES ASSUME NEW e \in enrolled
             PROVE  /\ envs'[e] # Unused
                    /\ envs'[e] \notin {Unused, Purged} =>
                         /\ envs'[e].status # "provisioning"
                         /\ envs'[e].status = "active" => envs'[e].activated
  BY RowsArePresent DEF EnrolledIsActivated, Present
<1>1. e \in Envs /\ envs[e] # Unused
  BY DEF TypeOK, EnrolledIsActivated
<1>2. Present(e) => /\ envs[e].status # "provisioning"
                    /\ envs[e].status = "active" => envs[e].activated
  BY DEF EnrolledIsActivated
<1>3. CASE Stays(e)
  BY <1>1, <1>2, <1>3, RowsArePresent DEF Stays, Present
<1>4. CASE GoesDown(e)
  BY <1>4, RowsArePresent, ConnectSentinels DEF GoesDown
<1>5. QED BY <1>1, <1>3, <1>4 DEF Downhill

\* The environments that a limit counts and that were reserved.
Reserved(s) == {e \in Counted(s, ReserveCounts) : envs[e].authorization # None}

\* A step keeps the limit unless it adds a reserved environment.
LEMMA LimitKept ==
  ASSUME TypeOK, ReservationsWithinLimit,
         \A e \in Envs : Present(e)' /\ envs'[e].status \in ReserveCounts
                           /\ envs'[e].authorization # None
           => /\ Present(e) /\ envs[e].status \in ReserveCounts
              /\ envs[e].authorization # None /\ envs'[e].scope = envs[e].scope
  PROVE  ReservationsWithinLimit'
<1> SUFFICES ASSUME NEW s \in Scopes
             PROVE  Cardinality(Reserved(s)') <= maxActiveEnvironments
  BY DEF ReservationsWithinLimit, Reserved
<1>1. Cardinality(Reserved(s)) <= maxActiveEnvironments
  BY DEF ReservationsWithinLimit, Reserved
<1>2. Reserved(s)' \subseteq Reserved(s)
  BY DEF Reserved, Counted, Present
<1>3. IsFiniteSet(Reserved(s))
  BY ConnectConstants, FS_Subset DEF Reserved, Counted
<1>4. Cardinality(Reserved(s)') <= Cardinality(Reserved(s))
  BY <1>2, <1>3, FS_Subset
<1>5. Cardinality(Reserved(s)') \in Nat /\ Cardinality(Reserved(s)) \in Nat
  BY <1>2, <1>3, FS_Subset, FS_CardinalityType
<1>6. QED BY <1>1, <1>4, <1>5, ConnectConstants

\* Going down adds none.
LEMMA DownhillLimit ==
  ASSUME TypeOK, ReservationsWithinLimit, Downhill
  PROVE  ReservationsWithinLimit'
<1> SUFFICES ASSUME NEW e \in Envs, Present(e)', envs'[e].status \in ReserveCounts,
                    envs'[e].authorization # None
             PROVE  /\ Present(e) /\ envs[e].status \in ReserveCounts
                    /\ envs[e].authorization # None /\ envs'[e].scope = envs[e].scope
  BY LimitKept
<1>1. CASE Stays(e)
  BY <1>1 DEF Stays, Present
<1>2. CASE GoesDown(e)
  <2>1. Present(e) /\ envs[e] \in Environment /\ envs[e].status # "revoked"
    BY <1>2, PresentRows DEF GoesDown, Present, ReserveCounts
  <2>2. envs[e].status \in ReserveCounts
    BY <2>1 DEF Environment, EnvironmentStatus, ReserveCounts
  <2>3. QED BY <1>2, <2>1, <2>2 DEF GoesDown, Present
<1>3. QED BY <1>1, <1>2 DEF Downhill

-----------------------------------------------------------------------------
(* The actions that go downhill. *)

\* Writing one authorization that is there.
LEMMA OneAuthorization ==
  ASSUME TypeOK, NEW a \in Auths, Requested(a), NEW row \in Authorization,
         auths' = [auths EXCEPT ![a] = row], UNCHANGED <<envs, claims>>,
         enrolled' \subseteq Envs
  PROVE  /\ TypeOK' /\ auths'[a] = row
         /\ \A i \in Auths \ {a} : auths'[i] = auths[i]
BY DEF TypeOK

\* An authorization ends, and nothing else happens.
LEMMA OneEnds ==
  ASSUME TypeOK, NEW a \in Auths, Requested(a), NEW row \in Authorization,
         row.status \in Terminal, row.environment = auths[a].environment,
         row.credential = None,
         auths' = [auths EXCEPT ![a] = row], UNCHANGED <<envs, claims, enrolled>>
  PROVE  TypeOK' /\ Downhill
<1>1. TypeOK' /\ auths'[a] = row /\ \A i \in Auths \ {a} : auths'[i] = auths[i]
  BY OneAuthorization DEF TypeOK
<1>2. Ends(a) /\ \A i \in Auths \ {a} : Continues(i)
  BY <1>1 DEF Ends, Continues
<1>3. \A e \in Envs : Stays(e)
  BY DEF Stays
<1>4. QED BY <1>1, <1>2, <1>3 DEF Downhill

\* The row of an authorization that ends without being cut off.
LEMMA EndedRow ==
  ASSUME NEW row \in Authorization, NEW x \in Terminal
  PROVE  LET end == [row EXCEPT !.status = x, !.credential = None, !.age = 0] IN
         /\ end \in Authorization /\ end.status = x
         /\ end.environment = row.environment /\ end.credential = None
<1> DEFINE r1 == [row EXCEPT !.status = x]
           r2 == [r1 EXCEPT !.credential = None]
           r3 == [r2 EXCEPT !.age = 0]
<1>1. r1 \in Authorization /\ r1.status = x /\ r1.environment = row.environment
  BY AuthorizationUpdates, Statuses DEF Authorization
<1> HIDE DEF r1
<1>2. /\ r2 \in Authorization /\ r2.status = x /\ r2.environment = row.environment
      /\ r2.credential = None
  BY <1>1, AuthorizationUpdates DEF Authorization
<1> HIDE DEF r2
<1>3. /\ r3 \in Authorization /\ r3.status = x /\ r3.environment = row.environment
      /\ r3.credential = None
  BY <1>2, AuthorizationUpdates, Durations DEF Authorization
<1>4. QED BY <1>3 DEF r1, r2, r3

\* A denied request ends; it had no credential.
LEMMA DenyDown ==
  ASSUME ConnectInv, NEW a \in Auths, denyAuthorization(a)
  PROVE  TypeOK' /\ Downhill
<1> DEFINE r1 == [auths[a] EXCEPT !.status = "denied"]
           r2 == [r1 EXCEPT !.age = 0]
<1>1. Requested(a) /\ auths[a] \in Authorization /\ auths[a].status = "pending"
  BY RequestedRows DEF ConnectInv, denyAuthorization, Pending
<1>2. auths[a].credential = None
  BY <1>1 DEF ConnectInv, DeliverableIsActive
<1>3. /\ r1 \in Authorization /\ r1.status = "denied" /\ r1.credential = None
      /\ r1.environment = auths[a].environment
  BY <1>1, <1>2, AuthorizationUpdates, Statuses DEF Authorization, Terminal
<1>4. auths' = [auths EXCEPT ![a] = r2]
  BY DEF denyAuthorization
<1> HIDE DEF r1
<1>5. /\ r2 \in Authorization /\ r2.status = "denied" /\ r2.credential = None
      /\ r2.environment = auths[a].environment
  BY <1>3, AuthorizationUpdates, Durations DEF Authorization
<1> HIDE DEF r2
<1>6. QED BY <1>1, <1>4, <1>5, OneEnds DEF ConnectInv, denyAuthorization, Terminal

\* A request or an approval that lapsed ends on the next poll.
LEMMA ExpireDown ==
  ASSUME ConnectInv, NEW a \in Auths, ExpireOnPoll(a)
  PROVE  TypeOK' /\ Downhill
<1> DEFINE end == [auths[a] EXCEPT !.status = "expired", !.credential = None, !.age = 0]
<1>1. Requested(a) /\ auths[a] \in Authorization
  BY RequestedRows DEF ConnectInv, ExpireOnPoll
<1>2. auths' = [auths EXCEPT ![a] = end]
  BY DEF ExpireOnPoll
<1>3. /\ end \in Authorization /\ end.status = "expired"
      /\ end.environment = auths[a].environment /\ end.credential = None
  BY <1>1, EndedRow DEF Terminal
<1> HIDE DEF end
<1>4. QED BY <1>1, <1>2, <1>3, OneEnds DEF ConnectInv, ExpireOnPoll, Terminal

\* A delivery ends with its window.
LEMMA EndDeliveryDown ==
  ASSUME ConnectInv, NEW a \in Auths, EndDelivery(a)
  PROVE  TypeOK' /\ Downhill
<1> DEFINE end == [auths[a] EXCEPT !.status = "consumed", !.credential = None, !.age = 0]
<1>1. Requested(a) /\ auths[a] \in Authorization
  BY RequestedRows DEF ConnectInv, EndDelivery
<1>2. auths' = [auths EXCEPT ![a] = end]
  BY DEF EndDelivery
<1>3. /\ end \in Authorization /\ end.status = "consumed"
      /\ end.environment = auths[a].environment /\ end.credential = None
  BY <1>1, EndedRow DEF Terminal
<1> HIDE DEF end
<1>4. QED BY <1>1, <1>2, <1>3, OneEnds DEF ConnectInv, EndDelivery, Terminal

\* The first delivery finds its environment active, and marks it.
LEMMA StartDeliveryDown ==
  ASSUME ConnectInv, NEW a \in Auths, StartDelivery(a)
  PROVE  /\ TypeOK' /\ Downhill
         /\ enrolled' = enrolled \cup {auths[a].environment}
         /\ auths[a].environment \in Envs
         /\ Present(auths[a].environment)
         /\ envs'[auths[a].environment] \in Environment
         /\ envs'[auths[a].environment].activated = TRUE
<1> DEFINE r1 == [auths[a] EXCEPT !.status = "delivering"]
           r2 == [r1 EXCEPT !.redeliver = RedeliveryWindow]
<1>1. Requested(a) /\ auths[a] \in Authorization /\ auths[a].status = "approved"
  BY RequestedRows DEF ConnectInv, StartDelivery
<1>2. PICK e : e = auths[a].environment
  OBVIOUS
<1>3. e \in Envs /\ Present(e) /\ envs[e] \in Environment /\ envs[e].status = "active"
  <2>1. e # None /\ Present(e) /\ envs[e].status = "active"
    BY <1>1, <1>2 DEF ConnectInv, DeliverableIsActive
  <2>2. e \in Envs
    BY <1>1, <1>2, <2>1 DEF Authorization
  <2>3. QED BY <2>1, <2>2, PresentRows DEF ConnectInv
<1>4. /\ r1 \in Authorization /\ r1.status = "delivering"
      /\ r1.environment = e /\ r1.credential = auths[a].credential
  BY <1>1, <1>2, AuthorizationUpdates, Statuses DEF Authorization, Open
<1>5. auths' = [auths EXCEPT ![a] = r2]
  BY DEF StartDelivery
<1> HIDE DEF r1
<1>6. /\ r2 \in Authorization /\ r2.status = "delivering"
      /\ r2.environment = e /\ r2.credential = auths[a].credential
  BY <1>4, AuthorizationUpdates, Durations DEF Authorization
<1> HIDE DEF r2
<1>7. /\ auths' \in [Auths -> Authorization \cup {Unused, Purged}]
      /\ auths'[a] = r2 /\ \A i \in Auths \ {a} : auths'[i] = auths[i]
  BY <1>5, <1>6 DEF ConnectInv, TypeOK
<1> DEFINE q1 == [envs[e] EXCEPT !.activated = TRUE]
           q2 == [q1 EXCEPT !.activation = None]
           q == IF envs[e].activated THEN envs[e] ELSE q2
<1> DEFINE p == IF Present(e) /\ envs[e].status = "active" /\ ~envs[e].activated
                THEN q2 ELSE envs[e]
<1>8. envs' = [envs EXCEPT ![e] = q]
  <2>1. envs' = [envs EXCEPT ![e] = p]
    BY <1>2 DEF StartDelivery
  <2>2. p = q
    BY <1>3, Zenon
  <2>3. QED BY <2>1, <2>2
<1> HIDE DEF p
<1>9. /\ q1 \in Environment /\ q1.status = envs[e].status
      /\ q1.scope = envs[e].scope /\ q1.authorization = envs[e].authorization
      /\ q1.activated = TRUE
  <2>1. TRUE \in BOOLEAN
    OBVIOUS
  <2>2. \A x \in BOOLEAN : [envs[e] EXCEPT !.activated = x] \in Environment
    BY <1>3, EnvironmentUpdates, Zenon
  <2>3. q1 \in Environment
    BY <2>1, <2>2, Zenon
  <2>4. /\ q1.status = envs[e].status /\ q1.scope = envs[e].scope
        /\ q1.authorization = envs[e].authorization
    BY <1>3 DEF Environment
  <2>5. q1.activated = TRUE
    BY <1>3 DEF Environment
  <2>6. QED BY <2>3, <2>4, <2>5
<1> HIDE DEF q1
<1>10. /\ q2 \in Environment /\ q2.status = envs[e].status
       /\ q2.scope = envs[e].scope /\ q2.authorization = envs[e].authorization
       /\ q2.activated = TRUE
  BY <1>9, EnvironmentUpdates DEF Environment
<1> HIDE DEF q2
<1>11. envs[e].activated \in BOOLEAN
  BY <1>3 DEF Environment
<1>12. /\ q \in Environment /\ q.status = envs[e].status
       /\ q.scope = envs[e].scope /\ q.authorization = envs[e].authorization
       /\ q.activated = TRUE
  <2>1. CASE envs[e].activated = TRUE
    BY <1>3, <2>1, Zenon
  <2>2. CASE envs[e].activated = FALSE
    BY <1>10, <2>2, Zenon
  <2>3. QED BY <1>11, <2>1, <2>2, Zenon
<1> HIDE DEF q
<1>13. /\ envs' \in [Envs -> Environment \cup {Unused, Purged}]
       /\ envs'[e] = q /\ \A f \in Envs \ {e} : envs'[f] = envs[f]
  BY <1>3, <1>8, <1>12 DEF ConnectInv, TypeOK
<1>14. enrolled' = enrolled \cup {e} /\ claims' = claims
  BY <1>2 DEF StartDelivery
<1>15. TypeOK'
  BY <1>3, <1>7, <1>13, <1>14 DEF ConnectInv, TypeOK
<1>16. \A i \in Auths : Continues(i)
  BY <1>1, <1>2, <1>6, <1>7 DEF Continues
<1>17. \A f \in Envs : Stays(f)
  BY <1>3, <1>12, <1>13, Zenon DEF Stays
<1>18. QED BY <1>2, <1>3, <1>12, <1>13, <1>14, <1>15, <1>16, <1>17 DEF Downhill

\* Cutting off the devices of an environment ends all its authorizations.
LEMMA CutOffEnds ==
  ASSUME TypeOK, NEW e \in Envs, auths' = CutOffDevicesOf(e)
  PROVE  /\ auths' \in [Auths -> Authorization \cup {Unused, Purged}]
         /\ \A i \in Auths : Continues(i) \/ Ends(i)
         /\ \A i \in Auths : Requested(i) /\ auths[i].environment = e => Ends(i)
<1>1. ASSUME NEW i \in Auths, Requested(i), auths[i].environment = e
      PROVE  auths'[i] \in Authorization /\ Ends(i)
  <2>1. auths[i] \in Authorization
    BY <1>1, RequestedRows
  <2>2. auths'[i] = CutOff(auths[i])
    BY <1>1 DEF CutOffDevicesOf
  <2>3. QED BY <1>1, <2>1, <2>2, CutOffRow DEF Ends
<1>2. ASSUME NEW i \in Auths, ~(Requested(i) /\ auths[i].environment = e)
      PROVE  auths'[i] = auths[i]
  BY <1>2 DEF CutOffDevicesOf
<1>3. auths' \in [Auths -> Authorization \cup {Unused, Purged}]
  <2>1. \A i \in Auths : auths'[i] \in Authorization \cup {Unused, Purged}
    BY <1>1, <1>2 DEF TypeOK
  <2>2. auths' = [i \in Auths |-> auths'[i]]
    BY DEF CutOffDevicesOf
  <2>3. QED BY <2>1, <2>2
<1>4. QED BY <1>1, <1>2, <1>3 DEF Continues

\* Writing one environment that is there.
LEMMA OneEnvironment ==
  ASSUME TypeOK, NEW e \in Envs, NEW row \in Environment,
         envs' = [envs EXCEPT ![e] = row]
  PROVE  /\ envs' \in [Envs -> Environment \cup {Unused, Purged}]
         /\ envs'[e] = row
         /\ \A f \in Envs \ {e} : envs'[f] = envs[f]
BY DEF TypeOK

\* A fresh claim of a worker.
LEMMA NewClaim ==
  ASSUME TypeOK, NEW w \in Workers, NEW e \in Envs,
         NEW status \in {"provisioning", "revoking"}, ClaimFor(w, e, status)
  PROVE  /\ claims' \in [Workers -> Claim \cup {None}]
         /\ claims'[w] \in Claim /\ claims'[w].env = e /\ claims'[w].left = ClaimTime
         /\ \A v \in Workers \ {w} : claims'[v] = claims[v]
<1> DEFINE claim == [env |-> e, status |-> status, left |-> ClaimTime]
<1>1. claim \in Claim
  BY Durations DEF Claim
<1>2. claims' = [claims EXCEPT ![w] = claim]
  BY DEF ClaimFor
<1>3. QED BY <1>1, <1>2 DEF TypeOK

\* Taking an environment over to revoke it, as a user or as a worker.
LEMMA TakeOverDown ==
  ASSUME TypeOK, NEW e \in Envs, NEW w \in Workers,
         Present(e), envs[e].status # "revoked",
         auths' = CutOffDevicesOf(e), envs' = [envs EXCEPT ![e] = Revoking(@, w)],
         ClaimFor(w, e, "revoking"), enrolled' = enrolled
  PROVE  TypeOK' /\ Downhill
<1>1. envs[e] \in Environment
  BY PresentRows
<1>2. /\ envs' \in [Envs -> Environment \cup {Unused, Purged}]
      /\ envs'[e] = Revoking(envs[e], w)
      /\ \A f \in Envs \ {e} : envs'[f] = envs[f]
  BY <1>1, RevokingRow, OneEnvironment
<1>3. GoesDown(e)
  BY <1>1, <1>2, RevokingRow DEF GoesDown
<1>4. \A f \in Envs \ {e} : Stays(f)
  BY <1>2 DEF Stays
<1>5. TypeOK'
  BY <1>2, CutOffEnds, NewClaim DEF TypeOK
<1>6. \A i \in Auths : Continues(i) \/ Ends(i)
  BY CutOffEnds
<1>7. \A i \in Auths : Requested(i) /\ auths[i].environment = e => Ends(i)
  BY CutOffEnds
<1>8. QED BY <1>3, <1>4, <1>5, <1>6, <1>7, Zenon DEF Downhill

\* A user's revocation goes downhill.
LEMMA BeginDown ==
  ASSUME ConnectInv, NEW e \in Envs, NEW s \in Scopes, NEW w \in Workers,
         beginEnvironmentRevocation(e, s, w)
  PROVE  TypeOK' /\ Downhill
BY TakeOverDown DEF ConnectInv, beginEnvironmentRevocation

\* So does the clean-up of an abandoned environment.
LEMMA RevokeAbandonedDown ==
  ASSUME ConnectInv, NEW w \in Workers, RevokeAbandoned(w), enrolled' = enrolled
  PROVE  TypeOK' /\ Downhill
<1>1. PICK e \in Abandoned :
        /\ auths' = CutOffDevicesOf(e) /\ envs' = [envs EXCEPT ![e] = Revoking(@, w)]
        /\ ClaimFor(w, e, "revoking")
  BY DEF RevokeAbandoned
<1>2. e \in Envs /\ Present(e) /\ envs[e].status = "active"
  BY DEF Abandoned
<1>3. envs[e].status # "revoked"
  BY <1>2
<1>4. QED BY <1>1, <1>2, <1>3, TakeOverDown DEF ConnectInv

\* A revocation without workers goes downhill, in whatever scope.
LEMMA RevokeDown ==
  ASSUME ConnectInv, NEW e \in Envs, NEW s \in Scopes, revokeEnvironment(e, s)
  PROVE  TypeOK' /\ Downhill
<1>1. TypeOK /\ auths' = CutOffDevicesOf(e) /\ UNCHANGED <<claims, enrolled>>
  BY DEF ConnectInv, revokeEnvironment
<1>2. CASE Present(e) /\ envs[e].scope = s /\ envs[e].status # "revoked"
  <2>1. envs[e] \in Environment /\ envs' = [envs EXCEPT ![e] = Revoked(envs[e])]
    BY <1>1, <1>2, PresentRows DEF revokeEnvironment
  <2>2. /\ envs' \in [Envs -> Environment \cup {Unused, Purged}]
        /\ envs'[e] = Revoked(envs[e])
        /\ \A f \in Envs \ {e} : envs'[f] = envs[f]
    BY <1>1, <2>1, RevokedRow, OneEnvironment
  <2>3. GoesDown(e)
    BY <1>2, <2>1, <2>2, RevokedRow DEF GoesDown
  <2>4. \A f \in Envs \ {e} : Stays(f)
    BY <2>2 DEF Stays
  <2>5. TypeOK'
    BY <1>1, <2>2, CutOffEnds DEF TypeOK
  <2>6. \A i \in Auths : Continues(i) \/ Ends(i)
    BY <1>1, CutOffEnds
  <2>7. \A i \in Auths : Requested(i) /\ auths[i].environment = e => Ends(i)
    BY <1>1, CutOffEnds
  <2>8. QED BY <2>3, <2>4, <2>5, <2>6, <2>7, Zenon DEF Downhill
<1>3. CASE ~(Present(e) /\ envs[e].scope = s /\ envs[e].status # "revoked")
  <2>1. envs' = envs
    BY <1>1, <1>3 DEF revokeEnvironment, TypeOK
  <2>2. TypeOK'
    BY <1>1, <2>1, CutOffEnds DEF TypeOK
  <2>3. \A i \in Auths : Continues(i) \/ Ends(i)
    BY <1>1, CutOffEnds
  <2>4. QED BY <2>1, <2>2, <2>3 DEF Downhill, Stays
<1>4. QED BY <1>2, <1>3

\* One environment keeps its status; no authorization is touched.
LEMMA OneStays ==
  ASSUME TypeOK, NEW e \in Envs, Present(e), NEW row \in Environment,
         envs' = [envs EXCEPT ![e] = row], auths' = auths, enrolled' = enrolled,
         claims' \in [Workers -> Claim \cup {None}],
         row.status = envs[e].status, row.scope = envs[e].scope,
         row.authorization = envs[e].authorization,
         row.activated = envs[e].activated
  PROVE  TypeOK' /\ Downhill
<1>1. /\ envs' \in [Envs -> Environment \cup {Unused, Purged}]
      /\ envs'[e] = row
      /\ \A f \in Envs \ {e} : envs'[f] = envs[f]
  BY OneEnvironment
<1>2. Stays(e) /\ \A f \in Envs \ {e} : Stays(f)
  BY <1>1, Zenon DEF Stays
<1>3. \A i \in Auths : Continues(i)
  BY DEF Continues
<1>4. TypeOK'
  BY <1>1 DEF TypeOK
<1>5. QED BY <1>2, <1>3, <1>4 DEF Downhill

\* A claim on a due environment leaves both tables as they are.
LEMMA ClaimDueDown ==
  ASSUME ConnectInv, NEW w \in Workers, ClaimDue(w), enrolled' = enrolled
  PROVE  TypeOK' /\ Downhill
<1>1. PICK e \in Due :
        /\ envs' = [envs EXCEPT ![e].token = w, ![e].claimed = ClaimTime]
        /\ ClaimFor(w, e, envs[e].status) /\ auths' = auths
  BY DEF ClaimDue
<1>2. /\ e \in Envs /\ Present(e) /\ envs[e] \in Environment
      /\ envs[e].status \in {"provisioning", "revoking"}
  BY PresentRows DEF ConnectInv, Due
<1> DEFINE r1 == [envs[e] EXCEPT !.token = w]
           r2 == [r1 EXCEPT !.claimed = ClaimTime]
<1>3. envs' = [envs EXCEPT ![e] = r2]
  BY <1>1
<1>4. /\ r1 \in Environment /\ r1.status = envs[e].status
      /\ r1.scope = envs[e].scope /\ r1.authorization = envs[e].authorization
      /\ r1.activated = envs[e].activated
  BY <1>2, EnvironmentUpdates DEF Environment
<1> HIDE DEF r1
<1>5. /\ r2 \in Environment /\ r2.status = envs[e].status
      /\ r2.scope = envs[e].scope /\ r2.authorization = envs[e].authorization
      /\ r2.activated = envs[e].activated
  BY <1>4, EnvironmentUpdates, Durations DEF Environment
<1> HIDE DEF r2
<1>6. claims' \in [Workers -> Claim \cup {None}]
  BY <1>1, <1>2, NewClaim DEF ConnectInv
<1>7. QED BY <1>1, <1>2, <1>3, <1>5, <1>6, OneStays DEF ConnectInv

\* A worker's note of a part leaves both tables as they are.
LEMMA ProgressDown ==
  ASSUME ConnectInv, NEW w \in Workers, NEW part \in Parts,
         saveEnvironmentRelayProgress(w, part)
  PROVE  TypeOK' /\ Downhill
<1>1. PICK status \in {"provisioning", "revoking"} :
        /\ Holds(w, status)
        /\ envs' = [envs EXCEPT ![claims[w].env].relay =
             IF status = "provisioning" THEN @ \cup {part} ELSE @ \ {part}]
        /\ UNCHANGED <<auths, claims, enrolled>>
  BY DEF saveEnvironmentRelayProgress
<1>2. PICK e : e = claims[w].env
  OBVIOUS
<1>3. e \in Envs /\ Present(e) /\ envs[e] \in Environment
  BY <1>1, <1>2, HoldersRow DEF ConnectInv
<1>4. PICK parts : parts = IF status = "provisioning" THEN envs[e].relay \cup {part}
                                                      ELSE envs[e].relay \ {part}
  OBVIOUS
<1>5. parts \in SUBSET Parts
  BY <1>3, <1>4 DEF Environment
<1> DEFINE r == [envs[e] EXCEPT !.relay = parts]
<1>6. envs' = [envs EXCEPT ![e] = r]
  BY <1>1, <1>2, <1>4
<1>7. /\ r \in Environment /\ r.status = envs[e].status
      /\ r.scope = envs[e].scope /\ r.authorization = envs[e].authorization
      /\ r.activated = envs[e].activated
  BY <1>3, <1>5, EnvironmentUpdates DEF Environment
<1> HIDE DEF r
<1>8. claims' \in [Workers -> Claim \cup {None}] /\ TypeOK
  BY <1>1 DEF ConnectInv, TypeOK
<1>9. QED BY <1>1, <1>3, <1>6, <1>7, <1>8, OneStays

\* The row of an environment whose worker gives up its claim until later.
LEMMA ReleasedRow ==
  ASSUME NEW row \in Environment, NEW later \in 0..RetryTime
  PROVE  LET free == [row EXCEPT !.token = None, !.claimed = 0, !.next = later] IN
         /\ free \in Environment
         /\ free.status = row.status /\ free.scope = row.scope
         /\ free.authorization = row.authorization
         /\ free.activated = row.activated
         /\ free.access = row.access /\ free.secret = row.secret
         /\ free.relay = row.relay
<1> DEFINE r1 == [row EXCEPT !.token = None]
           r2 == [r1 EXCEPT !.claimed = 0]
           r3 == [r2 EXCEPT !.next = later]
<1>1. /\ r1 \in Environment /\ r1.status = row.status /\ r1.scope = row.scope
      /\ r1.authorization = row.authorization /\ r1.activated = row.activated
      /\ r1.access = row.access /\ r1.secret = row.secret /\ r1.relay = row.relay
  BY EnvironmentUpdates DEF Environment
<1> HIDE DEF r1
<1>2. /\ r2 \in Environment /\ r2.status = row.status /\ r2.scope = row.scope
      /\ r2.authorization = row.authorization /\ r2.activated = row.activated
      /\ r2.access = row.access /\ r2.secret = row.secret /\ r2.relay = row.relay
  BY <1>1, EnvironmentUpdates, Durations DEF Environment
<1> HIDE DEF r2
<1>3. /\ r3 \in Environment /\ r3.status = row.status /\ r3.scope = row.scope
      /\ r3.authorization = row.authorization /\ r3.activated = row.activated
      /\ r3.access = row.access /\ r3.secret = row.secret /\ r3.relay = row.relay
  BY <1>2, EnvironmentUpdates DEF Environment
<1>4. QED BY <1>3 DEF r1, r2, r3

\* A worker that failed leaves both tables as they are.
LEMMA FailureDown ==
  ASSUME ConnectInv, NEW w \in Workers, recordEnvironmentLifecycleFailure(w)
  PROVE  TypeOK' /\ Downhill
<1>1. PICK status \in {"provisioning", "revoking"} :
        /\ Holds(w, status)
        /\ envs' = [envs EXCEPT ![claims[w].env].token = None,
             ![claims[w].env].claimed = 0, ![claims[w].env].next = RetryTime]
        /\ claims' = [claims EXCEPT ![w] = None]
        /\ UNCHANGED <<auths, enrolled>>
  BY DEF recordEnvironmentLifecycleFailure
<1>2. PICK e : e = claims[w].env
  OBVIOUS
<1>3. e \in Envs /\ Present(e) /\ envs[e] \in Environment
  BY <1>1, <1>2, HoldersRow DEF ConnectInv
<1> DEFINE r == [envs[e] EXCEPT !.token = None, !.claimed = 0, !.next = RetryTime]
<1>4. envs' = [envs EXCEPT ![e] = r]
  BY <1>1, <1>2
<1>5. /\ r \in Environment /\ r.status = envs[e].status
      /\ r.scope = envs[e].scope /\ r.authorization = envs[e].authorization
      /\ r.activated = envs[e].activated
  BY <1>3, ReleasedRow, Durations
<1> HIDE DEF r
<1>6. claims' \in [Workers -> Claim \cup {None}] /\ TypeOK
  BY <1>1 DEF ConnectInv, TypeOK
<1>7. QED BY <1>1, <1>3, <1>4, <1>5, <1>6, OneStays

\* The row of an environment whose provisioning is given up.
LEMMA AbandonedRow ==
  ASSUME NEW row \in Environment
  PROVE  LET next == [row EXCEPT !.status = "revoking", !.access = None,
                                 !.secret = None, !.next = 0] IN
         /\ next \in Environment
         /\ next.status = "revoking" /\ next.scope = row.scope
         /\ next.authorization = row.authorization
         /\ next.access = None /\ next.secret = None
         /\ next.token = row.token /\ next.claimed = row.claimed
<1> DEFINE r1 == [row EXCEPT !.status = "revoking"]
           r2 == [r1 EXCEPT !.access = None]
           r3 == [r2 EXCEPT !.secret = None]
           r4 == [r3 EXCEPT !.next = 0]
<1>1. /\ r1 \in Environment /\ r1.status = "revoking" /\ r1.scope = row.scope
      /\ r1.authorization = row.authorization
      /\ r1.token = row.token /\ r1.claimed = row.claimed
  BY EnvironmentUpdates, Statuses DEF Environment
<1> HIDE DEF r1
<1>2. /\ r2 \in Environment /\ r2.status = "revoking" /\ r2.scope = row.scope
      /\ r2.authorization = row.authorization /\ r2.access = None
      /\ r2.token = row.token /\ r2.claimed = row.claimed
  BY <1>1, EnvironmentUpdates DEF Environment
<1> HIDE DEF r2
<1>3. /\ r3 \in Environment /\ r3.status = "revoking" /\ r3.scope = row.scope
      /\ r3.authorization = row.authorization /\ r3.access = None
      /\ r3.secret = None /\ r3.token = row.token /\ r3.claimed = row.claimed
  BY <1>2, EnvironmentUpdates DEF Environment
<1> HIDE DEF r3
<1>4. /\ r4 \in Environment /\ r4.status = "revoking" /\ r4.scope = row.scope
      /\ r4.authorization = row.authorization /\ r4.access = None
      /\ r4.secret = None /\ r4.token = row.token /\ r4.claimed = row.claimed
  BY <1>3, EnvironmentUpdates, Durations DEF Environment
<1>5. QED BY <1>4 DEF r1, r2, r3, r4

\* Perhaps ending one authorization ends that one or none.
LEMMA MaybeEnds ==
  ASSUME TypeOK, NEW a \in Auths, Requested(a), NEW row \in Authorization,
         row.status \in Terminal, row.environment = auths[a].environment,
         row.credential = None, auths' = [auths EXCEPT ![a] = row]
  PROVE  /\ auths' \in [Auths -> Authorization \cup {Unused, Purged}]
         /\ Ends(a) /\ \A i \in Auths \ {a} : auths'[i] = auths[i]
BY DEF TypeOK, Ends

\* A worker past its provisioning deadline ends the authorization that waits.
LEMMA AbandonDown ==
  ASSUME ConnectInv, NEW w \in Workers, abandonEnvironmentProvisioning(w)
  PROVE  TypeOK' /\ Downhill
<1>1. PICK e, a : e = claims[w].env /\ a = envs[e].authorization
  OBVIOUS
<1>2. /\ Holds(w, "provisioning")
      /\ auths' = IF a # None /\ Requested(a) /\ auths[a].status = "provisioning"
                  THEN [auths EXCEPT ![a] = CutOff(@)] ELSE auths
      /\ envs' = [envs EXCEPT ![e].status = "revoking", ![e].access = None,
                    ![e].secret = None, ![e].next = 0]
      /\ claims' = [claims EXCEPT ![w].status = "revoking"]
      /\ enrolled' = enrolled
  BY <1>1 DEF abandonEnvironmentProvisioning
<1>3. /\ claims[w] \in Claim /\ e \in Envs /\ Present(e)
      /\ envs[e] \in Environment /\ envs[e].status = "provisioning"
  BY <1>1, <1>2, HoldersRow DEF ConnectInv
<1>4. TypeOK /\ a \in Auths \cup {None}
  BY <1>1, <1>3 DEF ConnectInv, Environment
<1> DEFINE r == [envs[e] EXCEPT !.status = "revoking", !.access = None,
                               !.secret = None, !.next = 0]
<1>5. envs' = [envs EXCEPT ![e] = r]
  BY <1>2
<1>6. /\ r \in Environment /\ r.status = "revoking"
      /\ r.scope = envs[e].scope /\ r.authorization = envs[e].authorization
  BY <1>3, AbandonedRow
<1> HIDE DEF r
<1>7. /\ envs' \in [Envs -> Environment \cup {Unused, Purged}]
      /\ envs'[e] = r /\ \A f \in Envs \ {e} : envs'[f] = envs[f]
  BY <1>3, <1>4, <1>5, <1>6, OneEnvironment
<1>8. GoesDown(e) /\ \A f \in Envs \ {e} : Stays(f)
  BY <1>3, <1>6, <1>7 DEF GoesDown, Stays
<1>9. /\ auths' \in [Auths -> Authorization \cup {Unused, Purged}]
      /\ \A i \in Auths : Continues(i) \/ Ends(i)
      /\ a # None /\ Requested(a) /\ auths[a].status = "provisioning" => Ends(a)
  <2>1. CASE a # None /\ Requested(a) /\ auths[a].status = "provisioning"
    <3>1. a \in Auths /\ auths[a] \in Authorization
      BY <1>4, <2>1, RequestedRows
    <3>2. auths' = [auths EXCEPT ![a] = CutOff(auths[a])]
      BY <1>2, <2>1
    <3>3. /\ auths' \in [Auths -> Authorization \cup {Unused, Purged}]
          /\ Ends(a) /\ \A i \in Auths \ {a} : auths'[i] = auths[i]
      BY <1>4, <2>1, <3>1, <3>2, CutOffRow, MaybeEnds
    <3>4. QED BY <3>3 DEF Continues
  <2>2. CASE ~(a # None /\ Requested(a) /\ auths[a].status = "provisioning")
    <3>1. auths' = auths
      BY <1>2, <2>2
    <3>2. QED BY <1>4, <2>2, <3>1 DEF TypeOK, Continues
  <2>3. QED BY <2>1, <2>2
<1>10. ASSUME NEW i \in Auths, Requested(i), auths[i].environment = e,
              auths[i].status \in {"provisioning", "approved", "delivering"}
       PROVE  Ends(i)
  <2>1. auths[i].status = "provisioning"
    BY <1>3, <1>10 DEF ConnectInv, DeliverableIsActive
  <2>2. envs[e].authorization = i
    BY <1>10, <2>1 DEF ConnectInv, ReservationPaired
  <2>3. i # None
    BY ConnectConstants
  <2>4. QED BY <1>1, <1>9, <1>10, <2>1, <2>2, <2>3
<1>11. claims' \in [Workers -> Claim \cup {None}]
  <2>1. [claims[w] EXCEPT !.status = "revoking"] \in Claim
    BY <1>3 DEF Claim
  <2>2. QED BY <1>2, <1>4, <2>1 DEF TypeOK
<1>12. TypeOK'
  BY <1>2, <1>4, <1>7, <1>9, <1>11 DEF TypeOK
<1>13. \A f \in Envs : ~Stays(f) => f = e
  BY <1>8
<1>14. QED BY <1>8, <1>9, <1>10, <1>12, <1>13 DEF Downhill

\* The end of a revocation ends whatever the environment's authorization is.
LEMMA CompleteRevocationDown ==
  ASSUME ConnectInv, NEW w \in Workers, completeEnvironmentRevocation(w)
  PROVE  TypeOK' /\ Downhill
<1>1. PICK e, a, row : /\ e = claims[w].env /\ a = envs[e].authorization
                       /\ row = Revoked(envs[e])
  OBVIOUS
<1> DEFINE end == [CutOff(auths[a]) EXCEPT !.status =
                    IF auths[a].status = "pending" THEN "pending"
                    ELSE CutOff(auths[a]).status]
           r == [row EXCEPT !.token = None, !.claimed = 0, !.next = 0]
<1>2. /\ Holds(w, "revoking")
      /\ auths' = IF a # None /\ Requested(a)
                  THEN [auths EXCEPT ![a] = end] ELSE auths
      /\ envs' = [envs EXCEPT ![e] = r]
      /\ claims' = [claims EXCEPT ![w] = None]
      /\ enrolled' = enrolled
  BY <1>1 DEF completeEnvironmentRevocation
<1>3. /\ claims[w] \in Claim /\ e \in Envs /\ Present(e)
      /\ envs[e] \in Environment /\ envs[e].status = "revoking"
  BY <1>1, <1>2, HoldersRow DEF ConnectInv
<1>4. TypeOK /\ a \in Auths \cup {None}
  BY <1>1, <1>3 DEF ConnectInv, Environment
<1>5. /\ r \in Environment /\ r.status = "revoked"
      /\ r.scope = envs[e].scope /\ r.authorization = envs[e].authorization
  <2>1. /\ row \in Environment /\ row.status = "revoked"
        /\ row.scope = envs[e].scope /\ row.authorization = envs[e].authorization
    BY <1>1, <1>3, RevokedRow
  <2>2. QED BY <2>1, ReleasedRow, Durations
<1> HIDE DEF r
<1>6. /\ envs' \in [Envs -> Environment \cup {Unused, Purged}]
      /\ envs'[e] = r /\ \A f \in Envs \ {e} : envs'[f] = envs[f]
  BY <1>2, <1>3, <1>4, <1>5, OneEnvironment
<1>7. GoesDown(e) /\ \A f \in Envs \ {e} : Stays(f)
  BY <1>3, <1>5, <1>6 DEF GoesDown, Stays
<1>8. /\ auths' \in [Auths -> Authorization \cup {Unused, Purged}]
      /\ \A i \in Auths : Continues(i) \/ Ends(i)
  <2>1. CASE a # None /\ Requested(a)
    <3>1. a \in Auths /\ auths[a] \in Authorization
      BY <1>4, <2>1, RequestedRows
    <3>2. auths[a].environment = e
      BY <1>1, <1>3, <2>1 DEF ConnectInv, PointersAgree
    <3>3. e # None
      BY <1>3, ConnectConstants
    <3>4. auths[a].status # "pending"
      BY <2>1, <3>1, <3>2, <3>3 DEF ConnectInv, PointersAgree
    <3>5. CutOff(auths[a]) \in Authorization
      BY <3>1, CutOffRow
    <3>6. end = [CutOff(auths[a]) EXCEPT !.status = CutOff(auths[a]).status]
      BY <3>4
    <3>7. end = CutOff(auths[a])
      BY <3>5, <3>6 DEF Authorization
    <3>8. auths' = [auths EXCEPT ![a] = CutOff(auths[a])]
      BY <1>2, <2>1, <3>7
    <3>9. /\ auths' \in [Auths -> Authorization \cup {Unused, Purged}]
          /\ Ends(a) /\ \A i \in Auths \ {a} : auths'[i] = auths[i]
      BY <1>4, <2>1, <3>1, <3>8, CutOffRow, MaybeEnds
    <3>10. QED BY <3>9 DEF Continues
  <2>2. CASE ~(a # None /\ Requested(a))
    <3>1. auths' = auths
      BY <1>2, <2>2
    <3>2. QED BY <1>4, <3>1 DEF TypeOK, Continues
  <2>3. QED BY <2>1, <2>2
<1>9. ASSUME NEW i \in Auths, Requested(i), auths[i].environment = e,
             auths[i].status \in {"provisioning", "approved", "delivering"}
      PROVE  FALSE
  BY <1>3, <1>9 DEF ConnectInv, DeliverableIsActive, ReservationPaired
<1>10. TypeOK'
  BY <1>2, <1>4, <1>6, <1>8 DEF TypeOK
<1>11. \A f \in Envs : ~Stays(f) => f = e
  BY <1>7
<1>12. QED BY <1>7, <1>8, <1>9, <1>10, <1>11 DEF Downhill

\* A purge takes only rows that ended.
LEMMA PurgeDown ==
  ASSUME ConnectInv, purgeConnectRecords
  PROVE  TypeOK' /\ Downhill
<1>1. PICK D \in SUBSET OldAuthorizations, F \in SUBSET OldEnvironments :
        /\ auths' = [a \in Auths |-> IF a \in D THEN Purged ELSE auths[a]]
        /\ envs' = [e \in Envs |-> IF e \in F THEN Purged ELSE envs[e]]
  BY Zenon DEF purgeConnectRecords, Batches
<1>2. UNCHANGED <<claims, enrolled>>
  BY DEF purgeConnectRecords
<1>3. TypeOK'
  BY <1>1, <1>2 DEF ConnectInv, TypeOK
<1>4. \A i \in Auths : Continues(i) \/ Ends(i)
  BY <1>1 DEF Continues, Ends, OldAuthorizations
<1>5. \A e \in F : GoesDown(e)
  BY <1>1 DEF GoesDown, OldEnvironments
<1>6. \A e \in Envs \ F : Stays(e)
  BY <1>1 DEF Stays
<1>7. ASSUME NEW e \in F, NEW i \in Auths, Requested(i), auths[i].environment = e,
             auths[i].status \in {"provisioning", "approved", "delivering"}
      PROVE  FALSE
  <2>1. envs[e].status = "revoked"
    BY DEF OldEnvironments
  <2>2. QED BY <1>7, <2>1 DEF ConnectInv, DeliverableIsActive, ReservationPaired
<1>8. QED BY <1>3, <1>4, <1>5, <1>6, <1>7, Zenon DEF Downhill

\* Rotation does not bring a credential back.
LEMMA RotatedKeepsNone ==
  ASSUME NEW current \in Ciphertexts \cup {None}, NEW c \in Ciphertexts,
         NEW d \in Ciphertexts
  PROVE  /\ Rotated(current, c, d) \in Ciphertexts \cup {None}
         /\ Rotated(current, c, d) # None => current # None
         /\ current = None => Rotated(current, c, d) = None
BY ConnectConstants DEF Rotated

\* Rotating an authorization's credential leaves it in its place.
LEMMA RotateAuthorizationDown ==
  ASSUME ConnectInv, NEW a \in Auths, NEW c \in Ciphertexts, NEW d \in Ciphertexts,
         rotateAuthorizationCredential(a, c, d)
  PROVE  TypeOK' /\ Downhill
<1>1. Requested(a) /\ auths[a] \in Authorization
  BY RequestedRows DEF ConnectInv, rotateAuthorizationCredential
<1>2. PICK x : x = Rotated(auths[a].credential, c, d)
  OBVIOUS
<1>3. x \in Ciphertexts \cup {None} /\ (x # None => auths[a].credential # None)
  BY <1>1, <1>2, RotatedKeepsNone DEF Authorization
<1> DEFINE r == [auths[a] EXCEPT !.credential = x]
<1>4. auths' = [auths EXCEPT ![a] = r] /\ UNCHANGED <<envs, claims, enrolled>>
  BY <1>2 DEF rotateAuthorizationCredential
<1>5. /\ r \in Authorization /\ r.status = auths[a].status /\ r.credential = x
      /\ r.environment = auths[a].environment
  BY <1>1, <1>3, AuthorizationUpdates DEF Authorization
<1> HIDE DEF r
<1>6. /\ TypeOK' /\ auths'[a] = r
      /\ \A i \in Auths \ {a} : auths'[i] = auths[i]
  BY <1>1, <1>4, <1>5 DEF ConnectInv, TypeOK
<1>7. \A i \in Auths : Continues(i)
  BY <1>1, <1>3, <1>5, <1>6 DEF Continues
<1>8. \A e \in Envs : Stays(e)
  BY <1>4 DEF Stays
<1>9. QED BY <1>6, <1>7, <1>8 DEF Downhill

\* Rotation of an environment's secrets sets them to what Rotated gives.
LEMMA RotatedEnvironment ==
  ASSUME TypeOK, NEW e \in Envs, NEW c \in Ciphertexts, NEW d \in Ciphertexts,
         rotateEnvironmentCredential(e, c, d)
  PROVE  \E r \in Environment :
           /\ envs' = [envs EXCEPT ![e] = r]
           /\ r.status = envs[e].status /\ r.scope = envs[e].scope
           /\ r.authorization = envs[e].authorization
           /\ r.activated = envs[e].activated /\ r.relay = envs[e].relay
           /\ r.token = envs[e].token /\ r.claimed = envs[e].claimed
           /\ envs[e].access = None => r.access = None
           /\ envs[e].secret = None => r.secret = None
<1>1. Present(e) /\ envs[e] \in Environment
  BY PresentRows DEF rotateEnvironmentCredential
<1>2. CASE envs' = [envs EXCEPT ![e].access = Rotated(@, c, d)]
  <2>1. PICK x : x = Rotated(envs[e].access, c, d)
    OBVIOUS
  <2>2. x \in Ciphertexts \cup {None} /\ (envs[e].access = None => x = None)
    BY <1>1, <2>1, RotatedKeepsNone DEF Environment
  <2> DEFINE r == [envs[e] EXCEPT !.access = x]
  <2>3. envs' = [envs EXCEPT ![e] = r]
    BY <1>2, <2>1
  <2>4. /\ r \in Environment /\ r.status = envs[e].status /\ r.scope = envs[e].scope
        /\ r.authorization = envs[e].authorization
        /\ r.activated = envs[e].activated /\ r.relay = envs[e].relay
        /\ r.token = envs[e].token /\ r.claimed = envs[e].claimed
        /\ r.access = x /\ r.secret = envs[e].secret
    BY <1>1, <2>2, EnvironmentUpdates DEF Environment
  <2> HIDE DEF r
  <2>5. QED BY <2>2, <2>3, <2>4
<1>3. CASE envs' = [envs EXCEPT ![e].secret = Rotated(@, c, d)]
  <2>1. PICK x : x = Rotated(envs[e].secret, c, d)
    OBVIOUS
  <2>2. x \in Ciphertexts \cup {None} /\ (envs[e].secret = None => x = None)
    BY <1>1, <2>1, RotatedKeepsNone DEF Environment
  <2> DEFINE r == [envs[e] EXCEPT !.secret = x]
  <2>3. envs' = [envs EXCEPT ![e] = r]
    BY <1>3, <2>1
  <2>4. /\ r \in Environment /\ r.status = envs[e].status /\ r.scope = envs[e].scope
        /\ r.authorization = envs[e].authorization
        /\ r.activated = envs[e].activated /\ r.relay = envs[e].relay
        /\ r.token = envs[e].token /\ r.claimed = envs[e].claimed
        /\ r.access = envs[e].access /\ r.secret = x
    BY <1>1, <2>2, EnvironmentUpdates DEF Environment
  <2> HIDE DEF r
  <2>5. QED BY <2>2, <2>3, <2>4
<1>4. QED BY <1>2, <1>3 DEF rotateEnvironmentCredential

\* Hence it leaves both tables as they are.
LEMMA RotateEnvironmentDown ==
  ASSUME ConnectInv, NEW e \in Envs, NEW c \in Ciphertexts, NEW d \in Ciphertexts,
         rotateEnvironmentCredential(e, c, d)
  PROVE  TypeOK' /\ Downhill
<1>1. TypeOK /\ Present(e) /\ UNCHANGED <<auths, claims, enrolled>>
  BY DEF ConnectInv, rotateEnvironmentCredential
<1>2. PICK r \in Environment :
        /\ envs' = [envs EXCEPT ![e] = r]
        /\ r.status = envs[e].status /\ r.scope = envs[e].scope
        /\ r.authorization = envs[e].authorization
        /\ r.activated = envs[e].activated
  BY <1>1, RotatedEnvironment
<1>3. claims' \in [Workers -> Claim \cup {None}]
  BY <1>1 DEF TypeOK
<1>4. QED BY <1>1, <1>2, <1>3, OneStays

\* Time left and age stay within their bounds.
LEMMA Ticks ==
  /\ \A n \in Nat : \A m \in 0..n : Sooner(m) \in 0..n /\ (m > 0 => Sooner(m) = m - 1)
  /\ \A m \in 0..RetentionTime : Older(m) \in 0..RetentionTime
  /\ \A m \in -1..RedeliveryWindow :
       (IF m >= 0 THEN m - 1 ELSE m) \in -1..RedeliveryWindow
BY ConnectConstants DEF Sooner, Older

\* What a tick does to each row that is there.
LEMMA TickRows ==
  ASSUME TypeOK, Tick
  PROVE  /\ \A a \in Auths : ~Requested(a) => auths'[a] = auths[a]
         /\ \A a \in Auths : Requested(a) =>
              /\ auths'[a] \in Authorization /\ auths'[a].status = auths[a].status
              /\ auths'[a].environment = auths[a].environment
              /\ auths'[a].credential = auths[a].credential
         /\ \A e \in Envs : ~Present(e) => envs'[e] = envs[e]
         /\ \A e \in Envs : Present(e) =>
              /\ envs'[e] \in Environment /\ envs'[e].status = envs[e].status
              /\ envs'[e].scope = envs[e].scope
              /\ envs'[e].authorization = envs[e].authorization
              /\ envs'[e].activated = envs[e].activated
              /\ envs'[e].access = envs[e].access
              /\ envs'[e].secret = envs[e].secret
              /\ envs'[e].relay = envs[e].relay /\ envs'[e].token = envs[e].token
              /\ envs'[e].claimed = Sooner(envs[e].claimed)
<1>1. /\ \A a \in Auths : ~Requested(a) => auths'[a] = auths[a]
      /\ \A e \in Envs : ~Present(e) => envs'[e] = envs[e]
  BY DEF Tick
<1>2. ASSUME NEW a \in Auths, Requested(a)
      PROVE  /\ auths'[a] \in Authorization /\ auths'[a].status = auths[a].status
             /\ auths'[a].environment = auths[a].environment
             /\ auths'[a].credential = auths[a].credential
  <2>1. auths[a] \in Authorization
    BY <1>2, RequestedRows
  <2>2. PICK left, redeliver, age :
          /\ left = Sooner(auths[a].left)
          /\ redeliver = IF auths[a].redeliver >= 0 THEN auths[a].redeliver - 1
                                                    ELSE auths[a].redeliver
          /\ age = IF auths[a].status \in Terminal THEN Older(auths[a].age)
                                                   ELSE auths[a].age
    OBVIOUS
  <2> DEFINE r1 == [auths[a] EXCEPT !.left = left]
             r2 == [r1 EXCEPT !.redeliver = redeliver]
             r3 == [r2 EXCEPT !.age = age]
  <2>3. auths'[a] = r3
    BY <1>2, <2>2 DEF Tick
  <2>4. /\ auths[a].left \in 0..Longer(AuthTime, ProvisionTime)
        /\ Longer(AuthTime, ProvisionTime) \in Nat
        /\ auths[a].redeliver \in -1..RedeliveryWindow
        /\ auths[a].age \in 0..RetentionTime
    BY <2>1, ConnectConstants DEF Authorization, Longer
  <2>5. /\ left \in 0..Longer(AuthTime, ProvisionTime)
        /\ redeliver \in -1..RedeliveryWindow /\ age \in 0..RetentionTime
    BY <2>2, <2>4, Ticks
  <2>6. /\ r1 \in Authorization /\ r1.status = auths[a].status
        /\ r1.environment = auths[a].environment
        /\ r1.credential = auths[a].credential
    BY <2>1, <2>5, AuthorizationUpdates DEF Authorization
  <2> HIDE DEF r1
  <2>7. /\ r2 \in Authorization /\ r2.status = auths[a].status
        /\ r2.environment = auths[a].environment
        /\ r2.credential = auths[a].credential
    BY <2>5, <2>6, AuthorizationUpdates DEF Authorization
  <2> HIDE DEF r2
  <2>8. /\ r3 \in Authorization /\ r3.status = auths[a].status
        /\ r3.environment = auths[a].environment
        /\ r3.credential = auths[a].credential
    BY <2>5, <2>7, AuthorizationUpdates DEF Authorization
  <2> HIDE DEF r3
  <2>9. QED BY <2>3, <2>8
<1>3. ASSUME NEW e \in Envs, Present(e)
      PROVE  /\ envs'[e] \in Environment /\ envs'[e].status = envs[e].status
             /\ envs'[e].scope = envs[e].scope
             /\ envs'[e].authorization = envs[e].authorization
             /\ envs'[e].activated = envs[e].activated
             /\ envs'[e].access = envs[e].access
             /\ envs'[e].secret = envs[e].secret
             /\ envs'[e].relay = envs[e].relay /\ envs'[e].token = envs[e].token
             /\ envs'[e].claimed = Sooner(envs[e].claimed)
  <2>1. envs[e] \in Environment
    BY <1>3, PresentRows
  <2>2. PICK next, claimed, activation, age :
          /\ next = Sooner(envs[e].next) /\ claimed = Sooner(envs[e].claimed)
          /\ activation = IF envs[e].activation = None THEN envs[e].activation
                                                  ELSE Sooner(envs[e].activation)
          /\ age = IF envs[e].status = "revoked" THEN Older(envs[e].age)
                                                 ELSE envs[e].age
    OBVIOUS
  <2> DEFINE r1 == [envs[e] EXCEPT !.next = next]
             r2 == [r1 EXCEPT !.claimed = claimed]
             r3 == [r2 EXCEPT !.activation = activation]
             r4 == [r3 EXCEPT !.age = age]
  <2>3. envs'[e] = r4
    BY <1>3, <2>2 DEF Tick
  <2>4. /\ envs[e].next \in 0..RetryTime /\ envs[e].claimed \in 0..ClaimTime
        /\ envs[e].activation \in (0..ActivationTime) \cup {None}
        /\ envs[e].age \in 0..RetentionTime
    BY <2>1 DEF Environment
  <2>5. /\ next \in 0..RetryTime /\ claimed \in 0..ClaimTime
        /\ activation \in (0..ActivationTime) \cup {None} /\ age \in 0..RetentionTime
    BY <2>2, <2>4, Ticks, ConnectConstants
  <2>6. /\ r1 \in Environment /\ r1.status = envs[e].status
        /\ r1.scope = envs[e].scope /\ r1.authorization = envs[e].authorization
        /\ r1.activated = envs[e].activated /\ r1.access = envs[e].access
        /\ r1.secret = envs[e].secret /\ r1.relay = envs[e].relay
        /\ r1.token = envs[e].token
    BY <2>1, <2>5, EnvironmentUpdates DEF Environment
  <2> HIDE DEF r1
  <2>7. /\ r2 \in Environment /\ r2.status = envs[e].status
        /\ r2.scope = envs[e].scope /\ r2.authorization = envs[e].authorization
        /\ r2.activated = envs[e].activated /\ r2.access = envs[e].access
        /\ r2.secret = envs[e].secret /\ r2.relay = envs[e].relay
        /\ r2.token = envs[e].token /\ r2.claimed = claimed
    BY <2>5, <2>6, EnvironmentUpdates DEF Environment
  <2> HIDE DEF r2
  <2>8. /\ r3 \in Environment /\ r3.status = envs[e].status
        /\ r3.scope = envs[e].scope /\ r3.authorization = envs[e].authorization
        /\ r3.activated = envs[e].activated /\ r3.access = envs[e].access
        /\ r3.secret = envs[e].secret /\ r3.relay = envs[e].relay
        /\ r3.token = envs[e].token /\ r3.claimed = claimed
    BY <2>5, <2>7, EnvironmentUpdates DEF Environment
  <2> HIDE DEF r3
  <2>9. /\ r4 \in Environment /\ r4.status = envs[e].status
        /\ r4.scope = envs[e].scope /\ r4.authorization = envs[e].authorization
        /\ r4.activated = envs[e].activated /\ r4.access = envs[e].access
        /\ r4.secret = envs[e].secret /\ r4.relay = envs[e].relay
        /\ r4.token = envs[e].token /\ r4.claimed = claimed
    BY <2>5, <2>8, EnvironmentUpdates DEF Environment
  <2> HIDE DEF r4
  <2>10. QED BY <2>2, <2>3, <2>9
<1>4. QED BY <1>1, <1>2, <1>3

\* What a tick does to each claim.
LEMMA TickClaims ==
  ASSUME TypeOK, Tick
  PROVE  /\ claims' \in [Workers -> Claim \cup {None}]
         /\ \A w \in Workers :
              /\ claims[w] = None => claims'[w] = None
              /\ claims[w] # None =>
                   /\ claims'[w] \in Claim /\ claims'[w].env = claims[w].env
                   /\ claims'[w].left = Sooner(claims[w].left)
<1>1. ASSUME NEW w \in Workers, claims[w] # None
      PROVE  /\ claims'[w] \in Claim /\ claims'[w].env = claims[w].env
             /\ claims'[w].left = Sooner(claims[w].left)
  <2>1. claims[w] \in Claim /\ claims[w].left \in 0..ClaimTime
    BY <1>1 DEF TypeOK, Claim
  <2>2. PICK left : left = Sooner(claims[w].left)
    OBVIOUS
  <2>3. left \in 0..ClaimTime
    BY <2>1, <2>2, Ticks, ConnectConstants
  <2>4. claims'[w] = [claims[w] EXCEPT !.left = left]
    BY <1>1, <2>2 DEF Tick
  <2>5. QED BY <2>1, <2>2, <2>3, <2>4 DEF Claim
<1>2. \A w \in Workers : claims[w] = None => claims'[w] = None
  BY DEF Tick
<1>3. claims' = [w \in Workers |-> claims'[w]]
  BY DEF Tick
<1>4. QED BY <1>1, <1>2, <1>3

\* Time leaves both tables as they are.
LEMMA TickDown ==
  ASSUME ConnectInv, Tick
  PROVE  TypeOK' /\ Downhill
<1>1. TypeOK /\ enrolled' = enrolled
  BY DEF ConnectInv, Tick
<1>2. \A a \in Auths : Continues(a)
  BY <1>1, TickRows DEF Continues
<1>3. \A e \in Envs : Stays(e)
  BY <1>1, TickRows DEF Stays
<1>4. auths' \in [Auths -> Authorization \cup {Unused, Purged}]
  <2>1. auths' = [a \in Auths |-> auths'[a]]
    BY DEF Tick
  <2>2. \A a \in Auths : auths'[a] \in Authorization \cup {Unused, Purged}
    BY <1>1, TickRows DEF Requested
  <2>3. QED BY <2>1, <2>2
<1>5. envs' \in [Envs -> Environment \cup {Unused, Purged}]
  <2>1. envs' = [e \in Envs |-> envs'[e]]
    BY DEF Tick
  <2>2. \A e \in Envs : envs'[e] \in Environment \cup {Unused, Purged}
    BY <1>1, TickRows DEF Present
  <2>3. QED BY <2>1, <2>2
<1>6. TypeOK'
  BY <1>1, <1>4, <1>5, TickClaims DEF TypeOK
<1>7. QED BY <1>2, <1>3, <1>6 DEF Downhill

-----------------------------------------------------------------------------
(* The two tables, without the secrets and the claims. *)

Tables ==
  /\ TypeOK /\ PointersAgree /\ DeliverableIsActive /\ ReservationPaired
  /\ EnrolledIsActivated /\ ReservationsWithinLimit

\* Going down keeps them in order.
LEMMA DownhillTables ==
  ASSUME ConnectInv, TypeOK', Downhill, enrolled' = enrolled
  PROVE  Tables'
BY DownhillPointers, DownhillDeliverable, DownhillPaired, DownhillEnrolled,
   DownhillLimit DEF ConnectInv, Tables

\* The first delivery does, and its environment is activated.
LEMMA DeliveryTables ==
  ASSUME ConnectInv, NEW a \in Auths, StartDelivery(a)
  PROVE  Tables'
<1>1. PICK e : e = auths[a].environment
  OBVIOUS
<1>2. /\ TypeOK' /\ Downhill /\ enrolled' = enrolled \cup {e}
      /\ e \in Envs /\ Present(e)
      /\ envs'[e] \in Environment /\ envs'[e].activated = TRUE
  BY <1>1, StartDeliveryDown
<1>3. Requested(a) /\ auths[a].status = "approved"
  BY DEF StartDelivery
<1>4. envs[e].status = "active"
  BY <1>1, <1>3 DEF ConnectInv, DeliverableIsActive
<1>5. envs'[e].status = "active"
  BY <1>1, <1>4 DEF StartDelivery, ConnectInv, TypeOK
<1>6. EnrolledIsActivated'
  BY <1>2, <1>5, DownhillEnrolled DEF ConnectInv
<1>7. QED
  BY <1>2, <1>6, DownhillPointers, DownhillDeliverable, DownhillPaired,
     DownhillLimit DEF ConnectInv, Tables

\* A new request concerns no environment.
LEMMA CreateTables ==
  ASSUME ConnectInv, NEW code \in Codes, createAuthorization(code)
  PROVE  Tables'
<1>1. PICK a : a = NewAuthorization
  OBVIOUS
<1>2. a \in Auths /\ auths[a] = Unused
  BY <1>1, Zenon DEF createAuthorization, NewAuthorization
<1>3. PICK row : row = [status |-> "pending", code |-> code, environment |-> None,
                        credential |-> None, left |-> AuthTime, redeliver |-> -1,
                        age |-> 0]
  OBVIOUS
<1>4. row \in Authorization
  BY <1>3, Durations DEF Authorization, AuthorizationStatus
<1>5. row.status = "pending" /\ row.environment = None /\ row.credential = None
  BY <1>3
<1>6. auths' = [auths EXCEPT ![a] = row] /\ UNCHANGED <<envs, claims, enrolled>>
  BY <1>1, <1>3 DEF createAuthorization
<1>7. /\ TypeOK' /\ auths'[a] = row
      /\ \A i \in Auths \ {a} : auths'[i] = auths[i]
  BY <1>2, <1>4, <1>6 DEF ConnectInv, TypeOK
<1>8. row \notin {Unused, Purged}
  BY <1>4, RowsArePresent
<1>9. PointersAgree'
  <2>1. \A i \in Auths : auths'[i] \notin {Unused, Purged} =>
          /\ auths'[i].environment # None => envs[auths'[i].environment] # Unused
          /\ auths'[i].status = "pending" => auths'[i].environment = None
          /\ auths'[i].status = "provisioning" => auths'[i].environment # None
    BY <1>2, <1>5, <1>7 DEF ConnectInv, PointersAgree, Requested
  <2>2. ASSUME NEW e \in Envs, Present(e), envs[e].authorization # None
        PROVE  /\ auths'[envs[e].authorization] # Unused
               /\ auths'[envs[e].authorization] \notin {Unused, Purged}
                    => auths'[envs[e].authorization].environment = e
    <3>1. envs[e].authorization \in Auths /\ envs[e].authorization # a
      BY <1>2, <2>2, PresentRows DEF ConnectInv, PointersAgree, Environment
    <3>2. QED BY <1>7, <2>2, <3>1 DEF ConnectInv, PointersAgree, Requested
  <2>3. QED BY <1>6, <2>1, <2>2 DEF PointersAgree, Requested, Present
<1>10. DeliverableIsActive'
  BY <1>2, <1>5, <1>6, <1>7 DEF ConnectInv, DeliverableIsActive, Requested, Present
<1>11. ReservationPaired'
  BY <1>2, <1>5, <1>6, <1>7 DEF ConnectInv, ReservationPaired, Requested, Present
<1>12. EnrolledIsActivated' /\ ReservationsWithinLimit'
  BY <1>6 DEF ConnectInv, EnrolledIsActivated, ReservationsWithinLimit, Present,
     Counted
<1>13. QED BY <1>7, <1>9, <1>10, <1>11, <1>12 DEF Tables

\* An environment that is inserted is named by nobody yet.
LEMMA InsertedEnvironment ==
  ASSUME ConnectInv, NEW a \in Auths, Pending(a), NEW row \in Authorization,
         NEW e \in Envs, envs[e] = Unused, NEW new \in Environment,
         auths' = [auths EXCEPT ![a] = row], envs' = [envs EXCEPT ![e] = new],
         row.environment = e, new.authorization \in {a, None},
         enrolled' = enrolled, claims' \in [Workers -> Claim \cup {None}],
         \/ /\ row.status = "approved" /\ new.status = "active"
         \/ /\ row.status = "provisioning" /\ new.status = "provisioning"
            /\ new.authorization = a /\ row.credential = None
  PROVE  TypeOK' /\ PointersAgree' /\ DeliverableIsActive' /\ ReservationPaired'
         /\ EnrolledIsActivated'
<1>1. /\ auths'[a] = row /\ \A i \in Auths \ {a} : auths'[i] = auths[i]
      /\ envs'[e] = new /\ \A f \in Envs \ {e} : envs'[f] = envs[f]
  BY DEF ConnectInv, TypeOK
<1>2. /\ Requested(a) /\ auths[a].status = "pending"
      /\ auths[a] \in Authorization /\ auths[a].environment = None
  BY RequestedRows DEF ConnectInv, Pending, PointersAgree
<1>3. /\ row \notin {Unused, Purged} /\ new \notin {Unused, Purged}
      /\ e # None /\ a # None
  BY RowsArePresent, ConnectConstants
<1>4. ASSUME NEW i \in Auths, Requested(i), auths[i].environment # None
      PROVE  auths[i].environment \in Envs \ {e}
  BY <1>4, RequestedRows DEF ConnectInv, PointersAgree, Authorization
<1>5. TypeOK'
  BY DEF ConnectInv, TypeOK
<1>6. PointersAgree'
  <2>1. ASSUME NEW i \in Auths, auths'[i] \notin {Unused, Purged}
        PROVE  /\ auths'[i].environment # None => envs'[auths'[i].environment] # Unused
               /\ auths'[i].status = "pending" => auths'[i].environment = None
               /\ auths'[i].status = "provisioning" => auths'[i].environment # None
    <3>1. CASE i = a
      BY <1>1, <1>3, <3>1
    <3>2. CASE i # a
      BY <1>1, <1>4, <2>1, <3>2 DEF ConnectInv, PointersAgree, Requested
    <3>3. QED BY <3>1, <3>2
  <2>2. ASSUME NEW f \in Envs, envs'[f] \notin {Unused, Purged},
               NEW b, b = envs'[f].authorization, b # None
        PROVE  auths'[b] # Unused
               /\ (auths'[b] \notin {Unused, Purged} => auths'[b].environment = f)
    <3>1. CASE f = e
      BY <1>1, <1>3, <2>2, <3>1
    <3>2. CASE f # e
      <4>1. envs[f].authorization = b /\ Present(f)
        BY <1>1, <2>2, <3>2 DEF Present
      <4>2. b \in Auths
        BY <2>2, <4>1, PresentRows DEF ConnectInv, Environment
      <4>3. auths[b] # Unused /\ (Requested(b) => auths[b].environment = f)
        BY <2>2, <4>1 DEF ConnectInv, PointersAgree
      <4>4. f # None
        BY ConnectConstants
      <4>5. b # a
        BY <1>2, <4>3, <4>4
      <4>6. QED BY <1>1, <4>2, <4>3, <4>5 DEF Requested
    <3>3. QED BY <3>1, <3>2
  <2>3. \A f \in Envs : envs'[f] \notin {Unused, Purged}
                        /\ envs'[f].authorization # None =>
          /\ auths'[envs'[f].authorization] # Unused
          /\ auths'[envs'[f].authorization] \notin {Unused, Purged}
               => auths'[envs'[f].authorization].environment = f
    BY <2>2
  <2>4. QED BY <2>1, <2>3 DEF PointersAgree, Requested, Present
<1>7. DeliverableIsActive'
  <2> SUFFICES ASSUME NEW i \in Auths, auths'[i] \notin {Unused, Purged}
               PROVE  /\ auths'[i].credential # None
                           => auths'[i].status \in {"approved", "delivering"}
                      /\ auths'[i].status \in {"approved", "delivering"} =>
                           /\ auths'[i].environment # None
                           /\ envs'[auths'[i].environment] \notin {Unused, Purged}
                           /\ envs'[auths'[i].environment].status = "active"
    BY DEF DeliverableIsActive, Requested, Present
  <2>1. CASE i = a
    BY <1>1, <1>3, <2>1
  <2>2. CASE i # a
    BY <1>1, <1>4, <2>2 DEF ConnectInv, DeliverableIsActive, Requested, Present
  <2>3. QED BY <2>1, <2>2
<1>8. ReservationPaired'
  <2> SUFFICES ASSUME NEW i \in Auths, auths'[i] \notin {Unused, Purged},
                      auths'[i].status = "provisioning"
               PROVE  /\ envs'[auths'[i].environment] \notin {Unused, Purged}
                      /\ envs'[auths'[i].environment].status = "provisioning"
                      /\ envs'[auths'[i].environment].authorization = i
    BY DEF ReservationPaired, Requested, Present
  <2>1. CASE i = a
    BY <1>1, <1>3, <2>1
  <2>2. CASE i # a
    <3>1. Requested(i) /\ auths'[i] = auths[i]
      BY <1>1, <2>2 DEF Requested
    <3>2. auths[i].environment \in Envs \ {e}
      BY <1>4, <3>1 DEF ConnectInv, PointersAgree
    <3>3. QED BY <1>1, <3>1, <3>2 DEF ConnectInv, ReservationPaired, Present
  <2>3. QED BY <2>1, <2>2
<1>9. EnrolledIsActivated'
  <2> SUFFICES ASSUME NEW f \in enrolled
               PROVE  /\ envs'[f] # Unused
                      /\ envs'[f] \notin {Unused, Purged} =>
                           /\ envs'[f].status # "provisioning"
                           /\ envs'[f].status = "active" => envs'[f].activated
    BY DEF EnrolledIsActivated, Present
  <2>1. f \in Envs \ {e}
    BY DEF ConnectInv, EnrolledIsActivated, TypeOK
  <2>2. envs'[f] = envs[f]
    BY <1>1, <2>1
  <2>3. QED BY <2>2 DEF ConnectInv, EnrolledIsActivated, Present
<1>10. QED BY <1>5, <1>6, <1>7, <1>8, <1>9

\* A direct approval inserts an environment that no limit counts as reserved.
LEMMA ApproveTables ==
  ASSUME ConnectInv, NEW a \in Auths, NEW s \in Scopes, NEW c \in Ciphertexts,
         NEW d \in Ciphertexts, approveAuthorization(a, s, c, d)
  PROVE  Tables'
<1>1. PICK e, new : e = NewEnvironment /\ new = [NewRow(s) EXCEPT !.access = d]
  OBVIOUS
<1>2. e \in Envs /\ envs[e] = Unused
  BY <1>1, Zenon DEF approveAuthorization, NewEnvironment
<1>3. /\ new \in Environment /\ new.status = "active" /\ new.authorization = None
  BY <1>1, ApprovedRow
<1>4. Pending(a) /\ Requested(a) /\ auths[a] \in Authorization
  BY RequestedRows DEF ConnectInv, approveAuthorization, Pending
<1> DEFINE r1 == [auths[a] EXCEPT !.status = "approved"]
           r2 == [r1 EXCEPT !.environment = e]
           r3 == [r2 EXCEPT !.credential = c]
<1>5. /\ auths' = [auths EXCEPT ![a] = r3] /\ envs' = [envs EXCEPT ![e] = new]
      /\ UNCHANGED <<claims, enrolled>>
  BY <1>1 DEF approveAuthorization
<1>6. r1 \in Authorization /\ r1.status = "approved"
  BY <1>4, AuthorizationUpdates, Statuses DEF Authorization, Open
<1> HIDE DEF r1
<1>7. r2 \in Authorization /\ r2.status = "approved" /\ r2.environment = e
  BY <1>2, <1>6, AuthorizationUpdates DEF Authorization
<1> HIDE DEF r2
<1>8. r3 \in Authorization /\ r3.status = "approved" /\ r3.environment = e
  BY <1>7, AuthorizationUpdates DEF Authorization
<1> HIDE DEF r3
<1>9. claims' \in [Workers -> Claim \cup {None}]
  BY <1>5 DEF ConnectInv, TypeOK
<1>10. /\ TypeOK' /\ PointersAgree' /\ DeliverableIsActive' /\ ReservationPaired'
       /\ EnrolledIsActivated'
  BY <1>2, <1>3, <1>4, <1>5, <1>8, <1>9, InsertedEnvironment
<1>11. ReservationsWithinLimit'
  <2>1. envs'[e] = new /\ \A f \in Envs \ {e} : envs'[f] = envs[f]
    BY <1>2, <1>5 DEF ConnectInv, TypeOK
  <2>2. \A f \in Envs : Present(f)' /\ envs'[f].status \in ReserveCounts
                          /\ envs'[f].authorization # None
          => /\ Present(f) /\ envs[f].status \in ReserveCounts
             /\ envs[f].authorization # None /\ envs'[f].scope = envs[f].scope
    BY <1>3, <2>1 DEF Present
  <2>3. QED BY <2>2, LimitKept DEF ConnectInv
<1>12. QED BY <1>10, <1>11 DEF Tables

\* Two callers of one account or workspace count the same environments.
LEMMA SameCount ==
  ASSUME TypeOK, NEW s \in Scopes, NEW t \in Scopes, s.user = t.user,
         LimitScope = "workspace" => s = t, NEW S
  PROVE  Counted(s, S) = Counted(t, S)
BY DEF Counted

\* A reservation inserts one more, where there is room for it.
LEMMA ReserveTables ==
  ASSUME ConnectInv, NEW a \in Auths, NEW s \in Scopes, NEW c \in Ciphertexts,
         NEW d \in Ciphertexts, NEW w \in Workers, reserveAuthorization(a, s, c, d, w)
  PROVE  Tables'
<1>1. PICK e, new, left : /\ e = NewEnvironment /\ new = Inserted(s, c, d, a, w)
                          /\ left = Longer(auths[a].left, ProvisionTime)
  OBVIOUS
<1>2. e \in Envs /\ envs[e] = Unused
  BY <1>1, Zenon DEF reserveAuthorization, NewEnvironment
<1>3. /\ new \in Environment /\ new.status = "provisioning" /\ new.scope = s
      /\ new.authorization = a
  BY <1>1, ReservedRow
<1>4. /\ Pending(a) /\ Requested(a) /\ auths[a] \in Authorization
      /\ auths[a].status = "pending"
  BY RequestedRows DEF ConnectInv, reserveAuthorization, Pending
<1>5. left \in 0..Longer(AuthTime, ProvisionTime)
  BY <1>1, <1>4, ConnectConstants DEF Authorization, Longer
<1>6. auths[a].credential = None
  BY <1>4 DEF ConnectInv, DeliverableIsActive
<1> DEFINE r1 == [auths[a] EXCEPT !.status = "provisioning"]
           r2 == [r1 EXCEPT !.environment = e]
           r3 == [r2 EXCEPT !.left = left]
           claim == [env |-> e, status |-> "provisioning", left |-> ClaimTime]
<1>7. auths' = [auths EXCEPT ![a] = r3] /\ envs' = [envs EXCEPT ![e] = new]
  BY <1>1 DEF reserveAuthorization, Inserted
<1>8. claims' = [claims EXCEPT ![w] = claim] /\ enrolled' = enrolled
  BY <1>1 DEF reserveAuthorization
<1>9. r1 \in Authorization /\ r1.status = "provisioning" /\ r1.credential = None
  BY <1>4, <1>6, AuthorizationUpdates, Statuses DEF Authorization, Open
<1> HIDE DEF r1
<1>10. /\ r2 \in Authorization /\ r2.status = "provisioning" /\ r2.environment = e
       /\ r2.credential = None
  BY <1>2, <1>9, AuthorizationUpdates DEF Authorization
<1> HIDE DEF r2
<1>11. /\ r3 \in Authorization /\ r3.status = "provisioning" /\ r3.environment = e
       /\ r3.credential = None
  BY <1>5, <1>10, AuthorizationUpdates DEF Authorization
<1> HIDE DEF r3
<1>12. claims' \in [Workers -> Claim \cup {None}]
  <2>1. claim \in Claim
    BY <1>2, Durations DEF Claim
  <2>2. QED BY <1>8, <2>1 DEF ConnectInv, TypeOK
<1> HIDE DEF claim
<1>13. /\ TypeOK' /\ PointersAgree' /\ DeliverableIsActive' /\ ReservationPaired'
       /\ EnrolledIsActivated'
  BY <1>2, <1>3, <1>4, <1>7, <1>8, <1>11, <1>12, InsertedEnvironment
<1>14. ASSUME NEW t \in Scopes
       PROVE  Cardinality(Reserved(t)') <= maxActiveEnvironments
  <2>1. envs'[e] = new /\ \A f \in Envs \ {e} : envs'[f] = envs[f]
    BY <1>2, <1>7 DEF ConnectInv, TypeOK
  <2>2. /\ Reserved(t)' \subseteq Reserved(t) \cup {e} /\ e \notin Reserved(t)
        /\ e \in Reserved(t)' =>
             s.user = t.user /\ (LimitScope = "workspace" => s = t)
    BY <1>2, <1>3, <2>1 DEF Reserved, Counted, Present
  <2>3. Cardinality(Reserved(t)) <= maxActiveEnvironments
    BY DEF ConnectInv, ReservationsWithinLimit, Reserved
  <2>4. /\ IsFiniteSet(Counted(t, ReserveCounts)) /\ IsFiniteSet(Reserved(t))
        /\ Cardinality(Counted(t, ReserveCounts)) \in Nat
        /\ Cardinality(Reserved(t)) \in Nat
        /\ Cardinality(Reserved(t)) <= Cardinality(Counted(t, ReserveCounts))
    <3>1. Counted(t, ReserveCounts) \subseteq Envs
      BY DEF Counted
    <3>2. Reserved(t) \subseteq Counted(t, ReserveCounts)
      BY DEF Reserved
    <3>3. IsFiniteSet(Counted(t, ReserveCounts))
      BY <3>1, ConnectConstants, FS_Subset
    <3>4. QED BY <3>2, <3>3, FS_Subset, FS_CardinalityType
  <2>5. /\ IsFiniteSet(Reserved(t) \cup {e})
        /\ Cardinality(Reserved(t) \cup {e}) = Cardinality(Reserved(t)) + 1
    BY <2>2, <2>4, FS_AddElement
  <2>6. CASE e \in Reserved(t)'
    <3>1. Counted(t, ReserveCounts) = Counted(s, ReserveCounts)
      BY <2>2, <2>6, SameCount DEF ConnectInv
    <3>2. Cardinality(Counted(t, ReserveCounts)) < maxActiveEnvironments
      BY <3>1 DEF reserveAuthorization, HasRoom
    <3>3. Cardinality(Reserved(t)') <= Cardinality(Reserved(t) \cup {e})
      BY <2>2, <2>5, FS_Subset
    <3>4. Cardinality(Reserved(t)') \in Nat
      BY <2>2, <2>5, FS_Subset, FS_CardinalityType
    <3>5. QED BY <2>4, <2>5, <3>2, <3>3, <3>4, ConnectConstants
  <2>7. CASE e \notin Reserved(t)'
    <3>1. Reserved(t)' \subseteq Reserved(t)
      BY <2>2, <2>7
    <3>2. Cardinality(Reserved(t)') <= Cardinality(Reserved(t))
      BY <2>4, <3>1, FS_Subset
    <3>3. Cardinality(Reserved(t)') \in Nat
      BY <2>4, <3>1, FS_Subset, FS_CardinalityType
    <3>4. QED BY <2>3, <2>4, <3>2, <3>3, ConnectConstants
  <2>8. QED BY <2>6, <2>7
<1>15. ReservationsWithinLimit'
  BY <1>14 DEF ReservationsWithinLimit, Reserved
<1>16. QED BY <1>13, <1>15 DEF Tables

\* The row of an environment that is ready.
LEMMA ActivatedRow ==
  ASSUME NEW row \in Environment
  PROVE  LET next == [row EXCEPT !.status = "active", !.secret = None,
                                 !.token = None, !.claimed = 0, !.next = 0] IN
         /\ next \in Environment
         /\ next.status = "active" /\ next.scope = row.scope
         /\ next.authorization = row.authorization
<1> DEFINE r1 == [row EXCEPT !.status = "active"]
           r2 == [r1 EXCEPT !.secret = None]
           r3 == [r2 EXCEPT !.token = None, !.claimed = 0, !.next = 0]
<1>1. /\ r1 \in Environment /\ r1.status = "active" /\ r1.scope = row.scope
      /\ r1.authorization = row.authorization
  BY EnvironmentUpdates, Statuses DEF Environment
<1> HIDE DEF r1
<1>2. /\ r2 \in Environment /\ r2.status = "active" /\ r2.scope = row.scope
      /\ r2.authorization = row.authorization
  BY <1>1, EnvironmentUpdates DEF Environment
<1> HIDE DEF r2
<1>3. /\ r3 \in Environment /\ r3.status = "active" /\ r3.scope = row.scope
      /\ r3.authorization = row.authorization
  BY <1>2, ReleasedRow, Durations
<1>4. QED BY <1>3 DEF r1, r2, r3

\* Provisioning ends with both halves of the pair: the one waits for its
\* device, the other is active.
LEMMA CompleteProvisioningTables ==
  ASSUME ConnectInv, NEW w \in Workers, NEW c \in Ciphertexts,
         completeEnvironmentProvisioning(w, c)
  PROVE  Tables'
<1>1. PICK e, a : e = claims[w].env /\ a = envs[e].authorization
  OBVIOUS
<1> DEFINE r == [envs[e] EXCEPT !.status = "active", !.secret = None,
                               !.token = None, !.claimed = 0, !.next = 0]
           q1 == [auths[a] EXCEPT !.status = "approved"]
           q2 == [q1 EXCEPT !.credential = c]
<1>2. /\ Holds(w, "provisioning")
      /\ a # None /\ Requested(a) /\ auths[a].status = "provisioning"
      /\ auths' = [auths EXCEPT ![a] = q2] /\ envs' = [envs EXCEPT ![e] = r]
      /\ claims' = [claims EXCEPT ![w] = None] /\ enrolled' = enrolled
  BY <1>1 DEF completeEnvironmentProvisioning
<1>3. /\ e \in Envs /\ Present(e) /\ e # None
      /\ envs[e] \in Environment /\ envs[e].status = "provisioning"
  BY <1>1, <1>2, HoldersRow, ConnectConstants DEF ConnectInv
<1>4. a \in Auths /\ auths[a] \in Authorization /\ auths[a].environment = e
  <2>1. a \in Auths
    BY <1>1, <1>2, <1>3 DEF Environment
  <2>2. QED BY <1>1, <1>2, <1>3, <2>1, RequestedRows DEF ConnectInv, PointersAgree
<1>5. /\ r \in Environment /\ r.status = "active" /\ r.scope = envs[e].scope
      /\ r.authorization = a
  BY <1>1, <1>3, ActivatedRow
<1> HIDE DEF r
<1>6. q1 \in Authorization /\ q1.status = "approved" /\ q1.environment = e
  BY <1>4, AuthorizationUpdates, Statuses DEF Authorization, Open
<1> HIDE DEF q1
<1>7. q2 \in Authorization /\ q2.status = "approved" /\ q2.environment = e
  BY <1>6, AuthorizationUpdates DEF Authorization
<1> HIDE DEF q2
<1>8. /\ auths'[a] = q2 /\ \A i \in Auths \ {a} : auths'[i] = auths[i]
      /\ envs'[e] = r /\ \A f \in Envs \ {e} : envs'[f] = envs[f]
  BY <1>2, <1>3, <1>4 DEF ConnectInv, TypeOK
<1>9. q2 \notin {Unused, Purged} /\ r \notin {Unused, Purged}
  BY <1>5, <1>7, RowsArePresent
<1>10. TypeOK'
  BY <1>2, <1>3, <1>4, <1>5, <1>7 DEF ConnectInv, TypeOK
<1>11. PointersAgree'
  <2>1. ASSUME NEW i \in Auths, auths'[i] \notin {Unused, Purged}
        PROVE  /\ auths'[i].environment # None => envs'[auths'[i].environment] # Unused
               /\ auths'[i].status = "pending" => auths'[i].environment = None
               /\ auths'[i].status = "provisioning" => auths'[i].environment # None
    <3>1. CASE i = a
      BY <1>3, <1>7, <1>8, <1>9, <3>1
    <3>2. CASE i # a
      <4>1. Requested(i) /\ auths'[i] = auths[i] /\ auths[i] \in Authorization
        BY <1>8, <2>1, <3>2, RequestedRows DEF ConnectInv, Requested
      <4>2. auths[i].environment # None => auths[i].environment \in Envs
        BY <4>1 DEF Authorization
      <4>3. QED BY <1>8, <1>9, <4>1, <4>2 DEF ConnectInv, PointersAgree
    <3>3. QED BY <3>1, <3>2
  <2>2. ASSUME NEW f \in Envs, envs'[f] \notin {Unused, Purged},
               NEW b, b = envs'[f].authorization, b # None
        PROVE  auths'[b] # Unused
               /\ (auths'[b] \notin {Unused, Purged} => auths'[b].environment = f)
    <3>1. envs[f].authorization = b /\ Present(f)
      BY <1>1, <1>3, <1>5, <1>8, <2>2 DEF Present
    <3>2. b \in Auths
      BY <2>2, <3>1, PresentRows DEF ConnectInv, Environment
    <3>3. auths[b] # Unused /\ (Requested(b) => auths[b].environment = f)
      BY <2>2, <3>1 DEF ConnectInv, PointersAgree
    <3>4. CASE b = a
      BY <1>2, <1>4, <1>7, <1>8, <1>9, <3>3, <3>4
    <3>5. CASE b # a
      BY <1>8, <3>2, <3>3, <3>5 DEF Requested
    <3>6. QED BY <3>4, <3>5
  <2>3. \A f \in Envs : envs'[f] \notin {Unused, Purged}
                        /\ envs'[f].authorization # None =>
          /\ auths'[envs'[f].authorization] # Unused
          /\ auths'[envs'[f].authorization] \notin {Unused, Purged}
               => auths'[envs'[f].authorization].environment = f
    BY <2>2
  <2>4. QED BY <2>1, <2>3 DEF PointersAgree, Requested, Present
<1>12. DeliverableIsActive'
  <2> SUFFICES ASSUME NEW i \in Auths, auths'[i] \notin {Unused, Purged}
               PROVE  /\ auths'[i].credential # None
                           => auths'[i].status \in {"approved", "delivering"}
                      /\ auths'[i].status \in {"approved", "delivering"} =>
                           /\ auths'[i].environment # None
                           /\ envs'[auths'[i].environment] \notin {Unused, Purged}
                           /\ envs'[auths'[i].environment].status = "active"
    BY DEF DeliverableIsActive, Requested, Present
  <2>1. CASE i = a
    BY <1>3, <1>5, <1>7, <1>8, <1>9, <2>1
  <2>2. CASE i # a
    <3>1. Requested(i) /\ auths'[i] = auths[i] /\ auths[i] \in Authorization
      BY <1>8, <2>2, RequestedRows DEF ConnectInv, Requested
    <3>2. auths[i].environment # None => auths[i].environment \in Envs
      BY <3>1 DEF Authorization
    <3>3. QED
      BY <1>5, <1>8, <1>9, <3>1, <3>2 DEF ConnectInv, DeliverableIsActive, Present
  <2>3. QED BY <2>1, <2>2
<1>13. ReservationPaired'
  <2> SUFFICES ASSUME NEW i \in Auths, auths'[i] \notin {Unused, Purged},
                      auths'[i].status = "provisioning"
               PROVE  /\ envs'[auths'[i].environment] \notin {Unused, Purged}
                      /\ envs'[auths'[i].environment].status = "provisioning"
                      /\ envs'[auths'[i].environment].authorization = i
    BY DEF ReservationPaired, Requested, Present
  <2>1. i # a
    BY <1>7, <1>8
  <2>2. Requested(i) /\ auths'[i] = auths[i] /\ auths[i] \in Authorization
    BY <1>8, <2>1, RequestedRows DEF ConnectInv, Requested
  <2>3. auths[i].environment \in Envs
    BY <2>2 DEF ConnectInv, PointersAgree, Authorization
  <2>4. /\ Present(auths[i].environment)
        /\ envs[auths[i].environment].status = "provisioning"
        /\ envs[auths[i].environment].authorization = i
    BY <2>2 DEF ConnectInv, ReservationPaired
  <2>5. auths[i].environment # e
    BY <1>1, <2>1, <2>4
  <2>6. QED BY <1>8, <2>2, <2>3, <2>4, <2>5 DEF Present
<1>14. EnrolledIsActivated'
  <2> SUFFICES ASSUME NEW f \in enrolled
               PROVE  /\ envs'[f] # Unused
                      /\ envs'[f] \notin {Unused, Purged} =>
                           /\ envs'[f].status # "provisioning"
                           /\ envs'[f].status = "active" => envs'[f].activated
    BY <1>2 DEF EnrolledIsActivated, Present
  <2>1. f \in Envs \ {e}
    BY <1>3 DEF ConnectInv, EnrolledIsActivated, TypeOK
  <2>2. envs'[f] = envs[f]
    BY <1>8, <2>1
  <2>3. QED BY <2>2 DEF ConnectInv, EnrolledIsActivated, Present
<1>15. ReservationsWithinLimit'
  <2>1. \A f \in Envs : Present(f)' /\ envs'[f].status \in ReserveCounts
                          /\ envs'[f].authorization # None
          => /\ Present(f) /\ envs[f].status \in ReserveCounts
             /\ envs[f].authorization # None /\ envs'[f].scope = envs[f].scope
    BY <1>1, <1>2, <1>3, <1>5, <1>8 DEF Present, ReserveCounts
  <2>2. QED BY <2>1, LimitKept DEF ConnectInv
<1>16. QED BY <1>10, <1>11, <1>12, <1>13, <1>14, <1>15 DEF Tables

-----------------------------------------------------------------------------
(* The secrets of revoked environments, and the claims of the workers. *)

Held == RevokedIsBare /\ ClaimBacked /\ ClaimExclusive

\* Environment e is not being revoked, or gets no secret.
KeepsBare(e) ==
  \/ envs'[e] = envs[e] \/ envs'[e] = Purged
  \/ envs'[e] \in Environment /\ envs'[e].status \notin {"revoking", "revoked"}
  \/ /\ envs'[e] \in Environment
     /\ envs'[e].access = None /\ envs'[e].secret = None
     /\ envs'[e].status = "revoked" => envs'[e].relay = {}
  \/ /\ Present(e) /\ envs'[e].status = envs[e].status
     /\ envs[e].access = None => envs'[e].access = None
     /\ envs[e].secret = None => envs'[e].secret = None
     /\ envs[e].status = "revoked" => envs'[e].relay = envs[e].relay

\* If that is so of all of them, the revoked ones stay bare.
LEMMA BareKept ==
  ASSUME RevokedIsBare, \A e \in Envs : KeepsBare(e)
  PROVE  RevokedIsBare'
<1> SUFFICES ASSUME NEW e \in Envs, envs'[e] \notin {Unused, Purged},
                    envs'[e].status \in {"revoking", "revoked"}
             PROVE  /\ envs'[e].access = None /\ envs'[e].secret = None
                    /\ envs'[e].status = "revoked" => envs'[e].relay = {}
  BY DEF RevokedIsBare, Present
<1>1. KeepsBare(e)
  OBVIOUS
<1>2. QED BY <1>1 DEF KeepsBare, RevokedIsBare, Present

\* Nobody can hold a claim on environment e that has not lapsed.
Free(e) ==
  \/ envs[e] = Unused
  \/ /\ Present(e) /\ envs[e].status # "revoked"
     /\ envs[e].status = "active" \/ envs[e].claimed = 0

\* Indeed nobody does.
LEMMA FreeIsUnclaimed ==
  ASSUME TypeOK, ClaimBacked, NEW w \in Workers, claims[w] # None,
         Free(claims[w].env)
  PROVE  claims[w].left = 0
<1>1. claims[w] \in Claim
  BY DEF TypeOK
<1>2. claims[w].left \in Nat /\ claims[w].env \in Envs
  BY <1>1, ConnectConstants DEF Claim
<1>3. ASSUME claims[w].left > 0
      PROVE  FALSE
  <2>1. PICK e : e = claims[w].env
    OBVIOUS
  <2>2. /\ envs[e] # Unused
        /\ Present(e) => envs[e].status # "active"
        /\ Present(e) /\ envs[e].status # "revoked" => envs[e].claimed >= claims[w].left
    BY <1>3, <2>1 DEF ClaimBacked
  <2>3. QED BY <1>2, <1>3, <2>1, <2>2 DEF Free
<1>4. QED BY <1>2, <1>3

\* Worker w gives its claim up, or keeps it for no longer.
KeepsClaim(w) ==
  \/ claims'[w] = None
  \/ /\ claims[w] # None /\ claims'[w].env = claims[w].env
     /\ claims'[w].left <= claims[w].left

\* Environment e backs the claims that are kept.
KeepsBacking(e) ==
  \/ envs'[e] = envs[e] \/ envs'[e] = Purged \/ Free(e)
  \/ envs'[e] \in Environment /\ envs'[e].status = "revoked"
  \/ /\ Present(e) /\ envs[e].status # "revoked"
     /\ envs'[e] \in Environment /\ envs'[e].status # "active"
     /\ envs'[e].token = envs[e].token /\ envs'[e].claimed = envs[e].claimed
  \/ /\ Present(e) /\ envs[e].status # "revoked"
     /\ \A w \in Workers : envs[e].token = w => claims'[w] = None

\* The time left of a claim is a number.
LEMMA ClaimTimes ==
  ASSUME TypeOK
  PROVE  \A w \in Workers : claims[w] # None =>
           claims[w] \in Claim /\ claims[w].env \in Envs /\ claims[w].left \in Nat
<1>1. \A w \in Workers : claims[w] # None => claims[w] \in Claim
  BY DEF TypeOK
<1>2. \A claim \in Claim : claim.env \in Envs /\ claim.left \in Nat
  BY ConnectConstants DEF Claim
<1>3. QED BY <1>1, <1>2

\* Claims that are only kept or given up stay exclusive.
LEMMA ExclusiveKept ==
  ASSUME TypeOK, TypeOK', ClaimExclusive, \A w \in Workers : KeepsClaim(w)
  PROVE  ClaimExclusive'
<1> SUFFICES ASSUME NEW v \in Workers, NEW w \in Workers, v # w,
                    claims'[v] # None, claims'[w] # None,
                    claims'[v].env = claims'[w].env
             PROVE  claims'[v].left = 0 \/ claims'[w].left = 0
  BY DEF ClaimExclusive
<1>1. /\ claims[v] # None /\ claims'[v].env = claims[v].env
      /\ claims'[v].left <= claims[v].left
      /\ claims[w] # None /\ claims'[w].env = claims[w].env
      /\ claims'[w].left <= claims[w].left
  BY DEF KeepsClaim
<1>2. claims[v].left = 0 \/ claims[w].left = 0
  BY <1>1 DEF ClaimExclusive
<1>3. /\ claims[v].left \in Nat /\ claims[w].left \in Nat
  BY <1>1, ClaimTimes
<1>4. \A x \in Workers : claims'[x] # None => claims'[x].left \in Nat
  <2>1. \A x \in Workers : claims'[x] # None => claims'[x] \in Claim
    BY DEF TypeOK
  <2>2. \A claim \in Claim : claim.left \in Nat
    BY ConnectConstants DEF Claim
  <2>3. QED BY <2>1, <2>2
<1>5. claims'[v].left \in Nat /\ claims'[w].left \in Nat
  BY <1>4
<1>6. QED BY <1>1, <1>2, <1>3, <1>5

\* So they do, and stay backed, if the environments back them.
LEMMA ClaimsKept ==
  ASSUME ConnectInv, TypeOK', \A w \in Workers : KeepsClaim(w),
         \A e \in Envs : KeepsBacking(e)
  PROVE  ClaimBacked' /\ ClaimExclusive'
<1>1. ASSUME NEW w \in Workers, claims'[w] # None, claims'[w].left > 0,
             NEW e, e = claims'[w].env
      PROVE  /\ envs'[e] # Unused
             /\ envs'[e] \notin {Unused, Purged} => envs'[e].status # "active"
             /\ envs'[e] \notin {Unused, Purged} /\ envs'[e].status # "revoked" =>
                  envs'[e].token = w /\ envs'[e].claimed >= claims'[w].left
  <2>1. /\ claims[w] # None /\ claims[w].env = e
        /\ claims'[w].left <= claims[w].left
    BY <1>1 DEF KeepsClaim
  <2>2. claims[w].left \in Nat /\ e \in Envs
    BY <2>1, ClaimTimes DEF ConnectInv
  <2>3. claims'[w].left \in Nat
    <3>1. claims'[w] \in Claim
      BY <1>1 DEF TypeOK
    <3>2. QED BY <3>1, ConnectConstants DEF Claim
  <2>4. claims[w].left > 0
    BY <1>1, <2>1, <2>2, <2>3
  <2>5. /\ envs[e] # Unused
        /\ Present(e) => envs[e].status # "active"
        /\ Present(e) /\ envs[e].status # "revoked" =>
             envs[e].token = w /\ envs[e].claimed >= claims[w].left
    BY <2>1, <2>4 DEF ConnectInv, ClaimBacked
  <2>6. Present(e) => envs[e].claimed \in Nat
    <3>1. ASSUME Present(e)
          PROVE  envs[e] \in Environment
      BY <2>2, <3>1, PresentRows DEF ConnectInv
    <3>2. QED BY <3>1, ConnectConstants DEF Environment
  <2>7. ~Free(e)
    BY <2>1, <2>4, FreeIsUnclaimed DEF ConnectInv
  <2>8. KeepsBacking(e)
    BY <2>2
  <2>9. CASE envs'[e] = envs[e]
    BY <2>1, <2>2, <2>3, <2>5, <2>6, <2>9 DEF Present
  <2>10. CASE envs'[e] = Purged
    BY <2>10, ConnectSentinels
  <2>11. CASE envs'[e] \in Environment /\ envs'[e].status = "revoked"
    BY <2>11, RowsArePresent
  <2>12. CASE /\ Present(e) /\ envs[e].status # "revoked"
              /\ envs'[e] \in Environment /\ envs'[e].status # "active"
              /\ envs'[e].token = envs[e].token /\ envs'[e].claimed = envs[e].claimed
    BY <2>1, <2>2, <2>3, <2>5, <2>6, <2>12, RowsArePresent
  <2>13. CASE /\ Present(e) /\ envs[e].status # "revoked"
              /\ \A v \in Workers : envs[e].token = v => claims'[v] = None
    BY <1>1, <2>5, <2>13
  <2>14. QED BY <2>7, <2>8, <2>9, <2>10, <2>11, <2>12, <2>13 DEF KeepsBacking
<1>2. ClaimBacked'
  BY <1>1 DEF ClaimBacked, Present
<1>3. QED BY <1>2, ExclusiveKept DEF ConnectInv

\* A worker that takes a claim takes it on a free environment, which backs it.
LEMMA ClaimTaken ==
  ASSUME ConnectInv, TypeOK', NEW w \in Workers, NEW e \in Envs, Free(e),
         claims'[w] \in Claim, claims'[w].env = e, claims'[w].left = ClaimTime,
         \A v \in Workers \ {w} : claims'[v] = claims[v],
         envs'[e] \in Environment, envs'[e].status # "active",
         envs'[e].token = w, envs'[e].claimed = ClaimTime,
         \A f \in Envs \ {e} : envs'[f] = envs[f]
  PROVE  ClaimBacked' /\ ClaimExclusive'
<1>1. ASSUME NEW v \in Workers \ {w}, claims'[v] # None, claims'[v].env = e
      PROVE  claims'[v].left = 0
  BY <1>1, FreeIsUnclaimed DEF ConnectInv
<1>2. ASSUME NEW v \in Workers, claims'[v] # None, claims'[v].left > 0,
             NEW f, f = claims'[v].env
      PROVE  /\ envs'[f] # Unused
             /\ envs'[f] \notin {Unused, Purged} => envs'[f].status # "active"
             /\ envs'[f] \notin {Unused, Purged} /\ envs'[f].status # "revoked" =>
                  envs'[f].token = v /\ envs'[f].claimed >= claims'[v].left
  <2>1. CASE v = w
    BY <1>2, <2>1, RowsArePresent, ConnectConstants
  <2>2. CASE v # w
    <3>1. claims'[v] = claims[v]
      BY <2>2
    <3>2. f # e
      BY <1>1, <1>2, <2>2, <3>1, ClaimTimes DEF ConnectInv
    <3>3. f \in Envs
      BY <1>2, <3>1, ClaimTimes DEF ConnectInv
    <3>4. envs'[f] = envs[f]
      BY <3>2, <3>3
    <3>5. QED BY <1>2, <3>1, <3>4 DEF ConnectInv, ClaimBacked, Present
  <2>3. QED BY <2>1, <2>2
<1>3. ClaimBacked'
  BY <1>2 DEF ClaimBacked, Present
<1>4. ASSUME NEW u \in Workers, NEW v \in Workers, u # v,
             claims'[u] # None, claims'[v] # None, claims'[u].env = claims'[v].env
      PROVE  claims'[u].left = 0 \/ claims'[v].left = 0
  <2>1. CASE u = w
    BY <1>1, <1>4, <2>1
  <2>2. CASE v = w
    BY <1>1, <1>4, <2>2
  <2>3. CASE u # w /\ v # w
    BY <1>4, <2>3 DEF ConnectInv, ClaimExclusive
  <2>4. QED BY <2>1, <2>2, <2>3
<1>5. ClaimExclusive'
  BY <1>4 DEF ClaimExclusive
<1>6. QED BY <1>3, <1>5

\* Steps on requests alone.
LEMMA RequestHeld ==
  ASSUME ConnectInv, UNCHANGED <<envs, claims>>
  PROVE  Held'
BY DEF ConnectInv, Held, RevokedIsBare, ClaimBacked, ClaimExclusive, Present

\* Steps that write one environment and leave the claims alone.
LEMMA OneEnvironmentHeld ==
  ASSUME ConnectInv, TypeOK', NEW e \in Envs, KeepsBare(e), KeepsBacking(e),
         \A f \in Envs \ {e} : envs'[f] = envs[f],
         \A w \in Workers : KeepsClaim(w)
  PROVE  Held'
<1>1. \A f \in Envs : KeepsBare(f) /\ KeepsBacking(f)
  BY DEF KeepsBare, KeepsBacking
<1>2. QED BY <1>1, BareKept, ClaimsKept DEF ConnectInv, Held

\* A claim that does not change is kept.
LEMMA SameClaims ==
  ASSUME TypeOK, claims' = claims
  PROVE  \A w \in Workers : KeepsClaim(w)
BY ClaimTimes DEF KeepsClaim

\* The first delivery writes an active environment.
LEMMA DeliveryHeld ==
  ASSUME ConnectInv, NEW a \in Auths, StartDelivery(a)
  PROVE  Held'
<1>1. PICK e : e = auths[a].environment
  OBVIOUS
<1>2. TypeOK' /\ e \in Envs /\ Present(e) /\ envs'[e] \in Environment
  BY <1>1, StartDeliveryDown
<1>3. Requested(a) /\ auths[a].status = "approved"
  BY DEF StartDelivery
<1>4. envs[e].status = "active"
  BY <1>1, <1>3 DEF ConnectInv, DeliverableIsActive
<1>5. /\ envs'[e].status = "active"
      /\ \A f \in Envs \ {e} : envs'[f] = envs[f]
      /\ claims' = claims
  BY <1>1, <1>4 DEF StartDelivery, ConnectInv, TypeOK
<1>6. KeepsBare(e) /\ KeepsBacking(e)
  BY <1>2, <1>4, <1>5 DEF KeepsBare, KeepsBacking, Free
<1>7. QED BY <1>2, <1>5, <1>6, SameClaims, OneEnvironmentHeld DEF ConnectInv

\* A direct approval inserts an active environment.
LEMMA ApproveHeld ==
  ASSUME ConnectInv, NEW a \in Auths, NEW s \in Scopes, NEW c \in Ciphertexts,
         NEW d \in Ciphertexts, approveAuthorization(a, s, c, d)
  PROVE  Held'
<1>1. PICK e, new : e = NewEnvironment /\ new = [NewRow(s) EXCEPT !.access = d]
  OBVIOUS
<1>2. e \in Envs /\ envs[e] = Unused
  BY <1>1, Zenon DEF approveAuthorization, NewEnvironment
<1>3. new \in Environment /\ new.status = "active"
  BY <1>1, ApprovedRow
<1>4. envs' = [envs EXCEPT ![e] = new] /\ claims' = claims
  BY <1>1 DEF approveAuthorization
<1>5. envs'[e] = new /\ \A f \in Envs \ {e} : envs'[f] = envs[f]
  BY <1>2, <1>4 DEF ConnectInv, TypeOK
<1>6. KeepsBare(e) /\ KeepsBacking(e)
  BY <1>2, <1>3, <1>5 DEF KeepsBare, KeepsBacking, Free
<1>7. TypeOK'
  BY ApproveTables DEF Tables
<1>8. QED BY <1>2, <1>4, <1>5, <1>6, <1>7, SameClaims, OneEnvironmentHeld DEF ConnectInv

\* A reservation inserts an environment under a claim.
LEMMA ReserveHeld ==
  ASSUME ConnectInv, NEW a \in Auths, NEW s \in Scopes, NEW c \in Ciphertexts,
         NEW d \in Ciphertexts, NEW w \in Workers, reserveAuthorization(a, s, c, d, w)
  PROVE  Held'
<1>1. PICK e, new : e = NewEnvironment /\ new = Inserted(s, c, d, a, w)
  OBVIOUS
<1>2. e \in Envs /\ envs[e] = Unused
  BY <1>1, Zenon DEF reserveAuthorization, NewEnvironment
<1>3. /\ new \in Environment /\ new.status = "provisioning"
      /\ new.token = w /\ new.claimed = ClaimTime
  BY <1>1, ReservedRow
<1>4. envs' = [envs EXCEPT ![e] = new] /\ ClaimFor(w, e, "provisioning")
  BY <1>1 DEF reserveAuthorization, Inserted, ClaimFor
<1>5. envs'[e] = new /\ \A f \in Envs \ {e} : envs'[f] = envs[f]
  BY <1>2, <1>4 DEF ConnectInv, TypeOK
<1>6. \A f \in Envs : KeepsBare(f)
  BY <1>3, <1>5 DEF KeepsBare
<1>7. Free(e) /\ TypeOK'
  BY <1>2, ReserveTables DEF Free, Tables
<1>8. /\ claims'[w] \in Claim /\ claims'[w].env = e /\ claims'[w].left = ClaimTime
      /\ \A v \in Workers \ {w} : claims'[v] = claims[v]
  BY <1>2, <1>4, NewClaim DEF ConnectInv
<1>9. RevokedIsBare'
  BY <1>6, BareKept DEF ConnectInv
<1>10. QED BY <1>2, <1>3, <1>5, <1>7, <1>8, <1>9, ClaimTaken DEF Held

\* Taking over a free environment to revoke it.
LEMMA TakeOverHeld ==
  ASSUME ConnectInv, NEW e \in Envs, NEW w \in Workers, Present(e), Free(e),
         auths' = CutOffDevicesOf(e), envs' = [envs EXCEPT ![e] = Revoking(@, w)],
         ClaimFor(w, e, "revoking"), enrolled' = enrolled
  PROVE  Held'
<1>1. envs[e] \in Environment /\ envs[e].status # "revoked"
  BY PresentRows DEF ConnectInv, Free, Present
<1>2. TypeOK'
  BY <1>1, TakeOverDown DEF ConnectInv
<1>3. /\ envs'[e] = Revoking(envs[e], w)
      /\ \A f \in Envs \ {e} : envs'[f] = envs[f]
  BY <1>1, RevokingRow, OneEnvironment DEF ConnectInv
<1>4. \A f \in Envs : KeepsBare(f)
  BY <1>1, <1>3, RevokingRow DEF KeepsBare
<1>5. /\ claims'[w] \in Claim /\ claims'[w].env = e /\ claims'[w].left = ClaimTime
      /\ \A v \in Workers \ {w} : claims'[v] = claims[v]
  BY NewClaim DEF ConnectInv
<1>6. /\ envs'[e] \in Environment /\ envs'[e].status # "active"
      /\ envs'[e].token = w /\ envs'[e].claimed = ClaimTime
  BY <1>1, <1>3, RevokingRow
<1>7. RevokedIsBare'
  BY <1>4, BareKept DEF ConnectInv
<1>8. QED BY <1>2, <1>3, <1>5, <1>6, <1>7, ClaimTaken DEF Held

\* A user takes over only what nobody holds.
LEMMA BeginHeld ==
  ASSUME ConnectInv, NEW e \in Envs, NEW s \in Scopes, NEW w \in Workers,
         beginEnvironmentRevocation(e, s, w)
  PROVE  Held'
<1>1. Present(e) /\ Free(e)
  BY DEF beginEnvironmentRevocation, Free, ClaimLapsed
<1>2. QED BY <1>1, TakeOverHeld DEF beginEnvironmentRevocation

\* So does the clean-up.
LEMMA RevokeAbandonedHeld ==
  ASSUME ConnectInv, NEW w \in Workers, RevokeAbandoned(w), enrolled' = enrolled
  PROVE  Held'
<1>1. PICK e \in Abandoned :
        /\ auths' = CutOffDevicesOf(e) /\ envs' = [envs EXCEPT ![e] = Revoking(@, w)]
        /\ ClaimFor(w, e, "revoking")
  BY DEF RevokeAbandoned
<1>2. e \in Envs /\ Present(e) /\ Free(e)
  BY DEF Abandoned, Free
<1>3. QED BY <1>1, <1>2, TakeOverHeld

\* And so does a worker that looks for work.
LEMMA ClaimDueHeld ==
  ASSUME ConnectInv, NEW w \in Workers, ClaimDue(w), enrolled' = enrolled
  PROVE  Held'
<1>1. PICK e \in Due :
        /\ envs' = [envs EXCEPT ![e].token = w, ![e].claimed = ClaimTime]
        /\ ClaimFor(w, e, envs[e].status)
  BY DEF ClaimDue
<1>2. /\ e \in Envs /\ Present(e) /\ Free(e) /\ envs[e] \in Environment
      /\ envs[e].status \in {"provisioning", "revoking"}
  BY PresentRows DEF ConnectInv, Due, Free, ClaimLapsed
<1> DEFINE r1 == [envs[e] EXCEPT !.token = w]
           r2 == [r1 EXCEPT !.claimed = ClaimTime]
<1>3. envs' = [envs EXCEPT ![e] = r2]
  BY <1>1
<1>4. /\ r1 \in Environment /\ r1.status = envs[e].status
      /\ r1.access = envs[e].access /\ r1.secret = envs[e].secret
      /\ r1.relay = envs[e].relay /\ r1.token = w
  BY <1>2, EnvironmentUpdates DEF Environment
<1> HIDE DEF r1
<1>5. /\ r2 \in Environment /\ r2.status = envs[e].status
      /\ r2.access = envs[e].access /\ r2.secret = envs[e].secret
      /\ r2.relay = envs[e].relay /\ r2.token = w /\ r2.claimed = ClaimTime
  BY <1>4, EnvironmentUpdates, Durations DEF Environment
<1> HIDE DEF r2
<1>6. envs'[e] = r2 /\ \A f \in Envs \ {e} : envs'[f] = envs[f]
  BY <1>2, <1>3, <1>5, OneEnvironment DEF ConnectInv
<1>7. \A f \in Envs : KeepsBare(f)
  BY <1>2, <1>5, <1>6 DEF KeepsBare
<1>8. /\ claims'[w] \in Claim /\ claims'[w].env = e /\ claims'[w].left = ClaimTime
      /\ \A v \in Workers \ {w} : claims'[v] = claims[v]
  BY <1>1, <1>2, NewClaim DEF ConnectInv
<1>9. TypeOK' /\ RevokedIsBare'
  BY <1>7, BareKept, ClaimDueDown DEF ConnectInv
<1>10. QED BY <1>2, <1>5, <1>6, <1>8, <1>9, ClaimTaken DEF Held

\* A revocation without workers leaves nothing to write, whoever believes it
\* holds a claim.
LEMMA RevokeHeld ==
  ASSUME ConnectInv, NEW e \in Envs, NEW s \in Scopes, revokeEnvironment(e, s)
  PROVE  Held'
<1>1. TypeOK /\ TypeOK' /\ claims' = claims
  BY RevokeDown DEF ConnectInv, revokeEnvironment
<1>2. CASE Present(e) /\ envs[e].scope = s /\ envs[e].status # "revoked"
  <2>1. envs[e] \in Environment /\ envs' = [envs EXCEPT ![e] = Revoked(envs[e])]
    BY <1>1, <1>2, PresentRows DEF revokeEnvironment
  <2>2. /\ envs'[e] = Revoked(envs[e])
        /\ \A f \in Envs \ {e} : envs'[f] = envs[f]
    BY <1>1, <2>1, RevokedRow, OneEnvironment
  <2>3. KeepsBare(e) /\ KeepsBacking(e)
    BY <2>1, <2>2, RevokedRow DEF KeepsBare, KeepsBacking
  <2>4. QED BY <1>1, <2>2, <2>3, SameClaims, OneEnvironmentHeld
<1>3. CASE ~(Present(e) /\ envs[e].scope = s /\ envs[e].status # "revoked")
  <2>1. envs' = envs
    BY <1>1, <1>3 DEF revokeEnvironment, TypeOK
  <2>2. QED BY <1>1, <2>1, RequestHeld
<1>4. QED BY <1>2, <1>3

\* A worker notes a part only of what it still provisions or revokes.
LEMMA ProgressHeld ==
  ASSUME ConnectInv, NEW w \in Workers, NEW part \in Parts,
         saveEnvironmentRelayProgress(w, part)
  PROVE  Held'
<1>1. PICK status \in {"provisioning", "revoking"} :
        /\ Holds(w, status)
        /\ envs' = [envs EXCEPT ![claims[w].env].relay =
             IF status = "provisioning" THEN @ \cup {part} ELSE @ \ {part}]
        /\ UNCHANGED <<auths, claims, enrolled>>
  BY DEF saveEnvironmentRelayProgress
<1>2. PICK e : e = claims[w].env
  OBVIOUS
<1>3. /\ e \in Envs /\ Present(e) /\ envs[e] \in Environment
      /\ envs[e].status = status
  BY <1>1, <1>2, HoldersRow DEF ConnectInv
<1>4. PICK parts : parts = IF status = "provisioning" THEN envs[e].relay \cup {part}
                                                      ELSE envs[e].relay \ {part}
  OBVIOUS
<1>5. parts \in SUBSET Parts
  BY <1>3, <1>4 DEF Environment
<1> DEFINE r == [envs[e] EXCEPT !.relay = parts]
<1>6. envs' = [envs EXCEPT ![e] = r]
  BY <1>1, <1>2, <1>4
<1>7. /\ r \in Environment /\ r.status = status
      /\ r.access = envs[e].access /\ r.secret = envs[e].secret
      /\ r.token = envs[e].token /\ r.claimed = envs[e].claimed
  BY <1>3, <1>5, EnvironmentUpdates DEF Environment
<1> HIDE DEF r
<1>8. envs'[e] = r /\ \A f \in Envs \ {e} : envs'[f] = envs[f]
  BY <1>3, <1>6, <1>7, OneEnvironment DEF ConnectInv
<1>9. KeepsBare(e) /\ KeepsBacking(e)
  BY <1>3, <1>7, <1>8 DEF KeepsBare, KeepsBacking
<1>10. TypeOK'
  BY ProgressDown
<1>11. QED BY <1>1, <1>3, <1>8, <1>9, <1>10, SameClaims, OneEnvironmentHeld DEF ConnectInv

\* A worker that drops its claim, or keeps the one it has.
LEMMA DroppedClaim ==
  ASSUME TypeOK, NEW w \in Workers, claims' = [claims EXCEPT ![w] = None]
  PROVE  claims'[w] = None /\ \A v \in Workers : KeepsClaim(v)
BY ClaimTimes DEF KeepsClaim, TypeOK

\* What is ready is held by nobody.
LEMMA CompleteProvisioningHeld ==
  ASSUME ConnectInv, NEW w \in Workers, NEW c \in Ciphertexts,
         completeEnvironmentProvisioning(w, c)
  PROVE  Held'
<1>1. PICK e : e = claims[w].env
  OBVIOUS
<1> DEFINE r == [envs[e] EXCEPT !.status = "active", !.secret = None,
                               !.token = None, !.claimed = 0, !.next = 0]
<1>2. /\ Holds(w, "provisioning") /\ envs' = [envs EXCEPT ![e] = r]
      /\ claims' = [claims EXCEPT ![w] = None]
  BY <1>1 DEF completeEnvironmentProvisioning
<1>3. /\ e \in Envs /\ Present(e) /\ envs[e] \in Environment
      /\ envs[e].status = "provisioning" /\ envs[e].token = w
  BY <1>1, <1>2, HoldersRow DEF ConnectInv
<1>4. r \in Environment /\ r.status = "active"
  BY <1>3, ActivatedRow
<1> HIDE DEF r
<1>5. envs'[e] = r /\ \A f \in Envs \ {e} : envs'[f] = envs[f]
  BY <1>2, <1>3, <1>4, OneEnvironment DEF ConnectInv
<1>6. claims'[w] = None /\ \A v \in Workers : KeepsClaim(v)
  BY <1>2, DroppedClaim DEF ConnectInv
<1>7. KeepsBare(e)
  BY <1>4, <1>5 DEF KeepsBare
<1>8. KeepsBacking(e)
  BY <1>3, <1>6 DEF KeepsBacking
<1>9. TypeOK'
  BY CompleteProvisioningTables DEF Tables
<1>10. QED BY <1>3, <1>5, <1>6, <1>7, <1>8, <1>9, OneEnvironmentHeld

\* A worker past its deadline keeps its claim on what it goes on to revoke.
LEMMA AbandonHeld ==
  ASSUME ConnectInv, NEW w \in Workers, abandonEnvironmentProvisioning(w)
  PROVE  Held'
<1>1. PICK e : e = claims[w].env
  OBVIOUS
<1> DEFINE r == [envs[e] EXCEPT !.status = "revoking", !.access = None,
                               !.secret = None, !.next = 0]
<1>2. /\ Holds(w, "provisioning") /\ envs' = [envs EXCEPT ![e] = r]
      /\ claims' = [claims EXCEPT ![w].status = "revoking"]
  BY <1>1 DEF abandonEnvironmentProvisioning
<1>3. /\ e \in Envs /\ Present(e) /\ envs[e] \in Environment
      /\ envs[e].status = "provisioning" /\ claims[w] \in Claim
  BY <1>1, <1>2, HoldersRow DEF ConnectInv
<1>4. /\ r \in Environment /\ r.status = "revoking"
      /\ r.access = None /\ r.secret = None
      /\ r.token = envs[e].token /\ r.claimed = envs[e].claimed
  BY <1>3, AbandonedRow
<1> HIDE DEF r
<1>5. envs'[e] = r /\ \A f \in Envs \ {e} : envs'[f] = envs[f]
  BY <1>2, <1>3, <1>4, OneEnvironment DEF ConnectInv
<1>6. \A v \in Workers : KeepsClaim(v)
  <2>1. \A v \in Workers \ {w} : claims'[v] = claims[v]
    BY <1>2 DEF ConnectInv, TypeOK
  <2>2. /\ claims'[w].env = claims[w].env /\ claims'[w].left = claims[w].left
        /\ claims[w] # None
    BY <1>2, <1>3, RowsArePresent DEF ConnectInv, TypeOK, Claim
  <2>3. QED BY <2>1, <2>2, ClaimTimes DEF ConnectInv, KeepsClaim
<1>7. KeepsBare(e) /\ KeepsBacking(e)
  BY <1>3, <1>4, <1>5 DEF KeepsBare, KeepsBacking
<1>8. TypeOK'
  BY AbandonDown
<1>9. QED BY <1>3, <1>5, <1>6, <1>7, <1>8, OneEnvironmentHeld

\* A revocation that ends leaves the row bare and free.
LEMMA CompleteRevocationHeld ==
  ASSUME ConnectInv, NEW w \in Workers, completeEnvironmentRevocation(w)
  PROVE  Held'
<1>1. PICK e, row : e = claims[w].env /\ row = Revoked(envs[e])
  OBVIOUS
<1> DEFINE r == [row EXCEPT !.token = None, !.claimed = 0, !.next = 0]
<1>2. /\ Holds(w, "revoking") /\ envs' = [envs EXCEPT ![e] = r]
      /\ claims' = [claims EXCEPT ![w] = None]
  BY <1>1 DEF completeEnvironmentRevocation
<1>3. e \in Envs /\ envs[e] \in Environment
  BY <1>1, <1>2, HoldersRow DEF ConnectInv
<1>4. /\ r \in Environment /\ r.status = "revoked"
      /\ r.access = None /\ r.secret = None /\ r.relay = {}
  <2>1. /\ row \in Environment /\ row.status = "revoked"
        /\ row.access = None /\ row.secret = None /\ row.relay = {}
    BY <1>1, <1>3, RevokedRow
  <2>2. QED BY <2>1, ReleasedRow, Durations
<1> HIDE DEF r
<1>5. envs'[e] = r /\ \A f \in Envs \ {e} : envs'[f] = envs[f]
  BY <1>2, <1>3, <1>4, OneEnvironment DEF ConnectInv
<1>6. \A v \in Workers : KeepsClaim(v)
  BY <1>2, DroppedClaim DEF ConnectInv
<1>7. KeepsBare(e) /\ KeepsBacking(e)
  BY <1>4, <1>5 DEF KeepsBare, KeepsBacking
<1>8. TypeOK'
  BY CompleteRevocationDown
<1>9. QED BY <1>3, <1>5, <1>6, <1>7, <1>8, OneEnvironmentHeld

\* A worker that failed holds nothing.
LEMMA FailureHeld ==
  ASSUME ConnectInv, NEW w \in Workers, recordEnvironmentLifecycleFailure(w)
  PROVE  Held'
<1>1. PICK status \in {"provisioning", "revoking"} :
        /\ Holds(w, status)
        /\ envs' = [envs EXCEPT ![claims[w].env].token = None,
             ![claims[w].env].claimed = 0, ![claims[w].env].next = RetryTime]
        /\ claims' = [claims EXCEPT ![w] = None]
  BY DEF recordEnvironmentLifecycleFailure
<1>2. PICK e : e = claims[w].env
  OBVIOUS
<1>3. /\ e \in Envs /\ Present(e) /\ envs[e] \in Environment
      /\ envs[e].status = status /\ envs[e].token = w
  BY <1>1, <1>2, HoldersRow DEF ConnectInv
<1> DEFINE r == [envs[e] EXCEPT !.token = None, !.claimed = 0, !.next = RetryTime]
<1>4. envs' = [envs EXCEPT ![e] = r]
  BY <1>1, <1>2
<1>5. /\ r \in Environment /\ r.status = status
      /\ r.access = envs[e].access /\ r.secret = envs[e].secret
  BY <1>3, ReleasedRow, Durations
<1> HIDE DEF r
<1>6. envs'[e] = r /\ \A f \in Envs \ {e} : envs'[f] = envs[f]
  BY <1>3, <1>4, <1>5, OneEnvironment DEF ConnectInv
<1>7. claims'[w] = None /\ \A v \in Workers : KeepsClaim(v)
  BY <1>1, DroppedClaim DEF ConnectInv
<1>8. KeepsBare(e)
  BY <1>3, <1>5, <1>6 DEF KeepsBare
<1>9. KeepsBacking(e)
  BY <1>3, <1>7 DEF KeepsBacking
<1>10. TypeOK'
  BY FailureDown
<1>11. QED BY <1>3, <1>6, <1>7, <1>8, <1>9, <1>10, OneEnvironmentHeld

\* A purge takes the rows away whole.
LEMMA PurgeHeld ==
  ASSUME ConnectInv, purgeConnectRecords
  PROVE  Held'
<1>1. PICK F \in SUBSET OldEnvironments :
        envs' = [e \in Envs |-> IF e \in F THEN Purged ELSE envs[e]]
  BY Zenon DEF purgeConnectRecords, Batches
<1>2. \A e \in Envs : KeepsBare(e) /\ KeepsBacking(e)
  BY <1>1 DEF KeepsBare, KeepsBacking
<1>3. TypeOK' /\ claims' = claims
  BY PurgeDown DEF purgeConnectRecords
<1>4. QED BY <1>2, <1>3, BareKept, ClaimsKept, SameClaims DEF ConnectInv, Held

\* Rotation, with whatever it read before, gives no revoked environment a secret.
LEMMA RotateEnvironmentHeld ==
  ASSUME ConnectInv, NEW e \in Envs, NEW c \in Ciphertexts, NEW d \in Ciphertexts,
         rotateEnvironmentCredential(e, c, d)
  PROVE  Held'
<1>1. TypeOK /\ Present(e) /\ envs[e] \in Environment /\ claims' = claims
  BY PresentRows DEF ConnectInv, rotateEnvironmentCredential
<1>2. PICK r \in Environment :
        /\ envs' = [envs EXCEPT ![e] = r]
        /\ r.status = envs[e].status /\ r.relay = envs[e].relay
        /\ r.token = envs[e].token /\ r.claimed = envs[e].claimed
        /\ envs[e].access = None => r.access = None
        /\ envs[e].secret = None => r.secret = None
  BY <1>1, RotatedEnvironment
<1>3. envs'[e] = r /\ \A f \in Envs \ {e} : envs'[f] = envs[f]
  BY <1>1, <1>2, OneEnvironment
<1>4. KeepsBare(e)
  BY <1>1, <1>2, <1>3 DEF KeepsBare
<1>5. KeepsBacking(e)
  BY <1>1, <1>2, <1>3 DEF KeepsBacking, Free
<1>6. TypeOK'
  BY RotateEnvironmentDown
<1>7. QED BY <1>1, <1>3, <1>4, <1>5, <1>6, SameClaims, OneEnvironmentHeld

\* Time runs for the rows and for the workers alike.
LEMMA TickHeld ==
  ASSUME ConnectInv, Tick
  PROVE  Held'
<1>1. TypeOK /\ TypeOK'
  BY TickDown DEF ConnectInv
<1>2. \A e \in Envs : KeepsBare(e)
  BY <1>1, TickRows DEF KeepsBare
<1>3. \A n \in Nat : Sooner(n) \in Nat /\ Sooner(n) <= n /\ (n > 0 => Sooner(n) = n - 1)
                    /\ (n = 0 => Sooner(n) = 0)
  BY DEF Sooner
<1>4. \A w \in Workers : KeepsClaim(w)
  BY <1>1, <1>3, ClaimTimes, TickClaims DEF KeepsClaim
<1>5. ASSUME NEW w \in Workers, claims'[w] # None, claims'[w].left > 0,
             NEW e, e = claims'[w].env
      PROVE  /\ envs'[e] # Unused
             /\ envs'[e] \notin {Unused, Purged} => envs'[e].status # "active"
             /\ envs'[e] \notin {Unused, Purged} /\ envs'[e].status # "revoked" =>
                  envs'[e].token = w /\ envs'[e].claimed >= claims'[w].left
  <2>1. /\ claims[w] # None /\ claims[w].env = e
        /\ claims'[w].left = Sooner(claims[w].left)
    BY <1>1, <1>5, TickClaims
  <2>2. claims[w].left \in Nat /\ e \in Envs
    BY <1>1, <2>1, ClaimTimes
  <2>3. claims[w].left > 0 /\ claims'[w].left = claims[w].left - 1
    BY <1>3, <1>5, <2>1, <2>2
  <2>4. /\ envs[e] # Unused
        /\ Present(e) => envs[e].status # "active"
        /\ Present(e) /\ envs[e].status # "revoked" =>
             envs[e].token = w /\ envs[e].claimed >= claims[w].left
    BY <2>1, <2>3 DEF ConnectInv, ClaimBacked
  <2>5. CASE Present(e)
    <3>1. envs[e] \in Environment
      BY <1>1, <2>2, <2>5, PresentRows
    <3>2. envs[e].claimed \in Nat
      BY <3>1, ConnectConstants DEF Environment
    <3>3. /\ envs'[e] \in Environment /\ envs'[e].status = envs[e].status
          /\ envs'[e].token = envs[e].token
          /\ envs'[e].claimed = Sooner(envs[e].claimed)
      BY <1>1, <2>2, <2>5, TickRows
    <3>4. envs'[e].claimed >= claims'[w].left \/ envs[e].status = "revoked"
      BY <1>3, <2>2, <2>3, <2>4, <2>5, <3>2, <3>3
    <3>5. QED BY <2>4, <2>5, <3>3, <3>4, RowsArePresent
  <2>6. CASE ~Present(e)
    BY <1>1, <2>2, <2>4, <2>6, TickRows DEF Present
  <2>7. QED BY <2>5, <2>6
<1>6. ClaimBacked'
  BY <1>5 DEF ClaimBacked, Present
<1>7. QED BY <1>1, <1>2, <1>4, <1>6, BareKept, ExclusiveKept DEF ConnectInv, Held

-----------------------------------------------------------------------------
(* The theorems. *)

\* What goes downhill and keeps the claims keeps the invariant.
LEMMA DownhillKeeps ==
  ASSUME ConnectInv, TypeOK' /\ Downhill, enrolled' = enrolled, Held'
  PROVE  ConnectInv'
BY DownhillTables DEF Tables, Held, ConnectInv

\* At first there is nothing.
LEMMA ConnectInitially ==
  ASSUME Init
  PROVE  ConnectInv
<1>1. TypeOK
  BY DEF Init, TypeOK
<1>2. /\ \A a \in Auths : ~Requested(a)
      /\ \A e \in Envs : ~Present(e)
      /\ \A w \in Workers : claims[w] = None
      /\ enrolled = {}
  BY DEF Init, Requested, Present
<1>3. /\ PointersAgree /\ DeliverableIsActive /\ ReservationPaired
      /\ EnrolledIsActivated /\ RevokedIsBare /\ ClaimBacked /\ ClaimExclusive
  BY <1>2 DEF PointersAgree, DeliverableIsActive, ReservationPaired,
     EnrolledIsActivated, RevokedIsBare, ClaimBacked, ClaimExclusive
<1>4. ASSUME NEW s \in Scopes
      PROVE  Cardinality(Reserved(s)) <= maxActiveEnvironments
  <2>1. Reserved(s) = {}
    BY <1>2 DEF Reserved, Counted
  <2>2. Cardinality(Reserved(s)) = 0
    BY <2>1, FS_EmptySet
  <2>3. QED BY <2>2, ConnectConstants
<1>5. ReservationsWithinLimit
  BY <1>4 DEF ReservationsWithinLimit, Reserved
<1>6. QED BY <1>1, <1>3, <1>5 DEF ConnectInv

\* Every operation keeps the invariant.
LEMMA ConnectStep ==
  ASSUME ConnectInv, [Next]_vars
  PROVE  ConnectInv'
<1>1. ASSUME NEW code \in Codes, createAuthorization(code)
      PROVE  ConnectInv'
  <2>1. UNCHANGED <<envs, claims>>
    BY <1>1 DEF createAuthorization
  <2>2. QED BY <1>1, <2>1, CreateTables, RequestHeld DEF Tables, Held, ConnectInv
<1>2. ASSUME NEW a \in Auths, denyAuthorization(a)
      PROVE  ConnectInv'
  <2>1. UNCHANGED <<envs, claims, enrolled>>
    BY <1>2 DEF denyAuthorization
  <2>2. QED BY <1>2, <2>1, DenyDown, RequestHeld, DownhillKeeps
<1>3. ASSUME NEW a \in Auths, getAuthorizationByDeviceHash(a)
      PROVE  ConnectInv'
  <2>1. CASE ExpireOnPoll(a)
    <3>1. UNCHANGED <<envs, claims, enrolled>>
      BY <2>1 DEF ExpireOnPoll
    <3>2. QED BY <2>1, <3>1, ExpireDown, RequestHeld, DownhillKeeps
  <2>2. CASE StartDelivery(a)
    BY <2>2, DeliveryTables, DeliveryHeld DEF Tables, Held, ConnectInv
  <2>3. CASE EndDelivery(a)
    <3>1. UNCHANGED <<envs, claims, enrolled>>
      BY <2>3 DEF EndDelivery
    <3>2. QED BY <2>3, <3>1, EndDeliveryDown, RequestHeld, DownhillKeeps
  <2>4. QED BY <1>3, <2>1, <2>2, <2>3 DEF getAuthorizationByDeviceHash
<1>4. ASSUME NEW a \in Auths, NEW s \in Approvers, NEW c \in Ciphertexts,
             NEW d \in Ciphertexts, approveAuthorization(a, s, c, d)
      PROVE  ConnectInv'
  <2>1. s \in Scopes
    BY ConnectConstants
  <2>2. QED BY <1>4, <2>1, ApproveTables, ApproveHeld DEF Tables, Held, ConnectInv
<1>5. ASSUME NEW a \in Auths, NEW s \in Approvers, NEW c \in Ciphertexts,
             NEW d \in Ciphertexts, NEW w \in Workers,
             reserveAuthorization(a, s, c, d, w)
      PROVE  ConnectInv'
  <2>1. s \in Scopes
    BY ConnectConstants
  <2>2. QED BY <1>5, <2>1, ReserveTables, ReserveHeld DEF Tables, Held, ConnectInv
<1>6. ASSUME NEW e \in Envs, NEW s \in Scopes, revokeEnvironment(e, s)
      PROVE  ConnectInv'
  <2>1. enrolled' = enrolled
    BY <1>6 DEF revokeEnvironment
  <2>2. QED BY <1>6, <2>1, RevokeDown, RevokeHeld, DownhillKeeps
<1>7. ASSUME NEW e \in Envs, NEW s \in Scopes, NEW w \in Workers,
             beginEnvironmentRevocation(e, s, w)
      PROVE  ConnectInv'
  <2>1. enrolled' = enrolled
    BY <1>7 DEF beginEnvironmentRevocation
  <2>2. QED BY <1>7, <2>1, BeginDown, BeginHeld, DownhillKeeps
<1>8. ASSUME NEW w \in Workers, claimNextEnvironmentLifecycle(w)
      PROVE  ConnectInv'
  <2>1. enrolled' = enrolled
    BY <1>8 DEF claimNextEnvironmentLifecycle
  <2>2. CASE RevokeAbandoned(w)
    BY <2>1, <2>2, RevokeAbandonedDown, RevokeAbandonedHeld, DownhillKeeps
  <2>3. CASE ClaimDue(w)
    BY <2>1, <2>3, ClaimDueDown, ClaimDueHeld, DownhillKeeps
  <2>4. QED BY <1>8, <2>2, <2>3 DEF claimNextEnvironmentLifecycle
<1>9. ASSUME NEW w \in Workers, NEW part \in Parts,
             saveEnvironmentRelayProgress(w, part)
      PROVE  ConnectInv'
  <2>1. enrolled' = enrolled
    BY <1>9 DEF saveEnvironmentRelayProgress
  <2>2. QED BY <1>9, <2>1, ProgressDown, ProgressHeld, DownhillKeeps
<1>10. ASSUME NEW w \in Workers, NEW c \in Ciphertexts,
              completeEnvironmentProvisioning(w, c)
       PROVE  ConnectInv'
  BY <1>10, CompleteProvisioningTables, CompleteProvisioningHeld
  DEF Tables, Held, ConnectInv
<1>11. ASSUME NEW w \in Workers, abandonEnvironmentProvisioning(w)
       PROVE  ConnectInv'
  <2>1. enrolled' = enrolled
    BY <1>11 DEF abandonEnvironmentProvisioning
  <2>2. QED BY <1>11, <2>1, AbandonDown, AbandonHeld, DownhillKeeps
<1>12. ASSUME NEW w \in Workers, completeEnvironmentRevocation(w)
       PROVE  ConnectInv'
  <2>1. enrolled' = enrolled
    BY <1>12 DEF completeEnvironmentRevocation
  <2>2. QED
    BY <1>12, <2>1, CompleteRevocationDown, CompleteRevocationHeld, DownhillKeeps
<1>13. ASSUME NEW w \in Workers, recordEnvironmentLifecycleFailure(w)
       PROVE  ConnectInv'
  <2>1. enrolled' = enrolled
    BY <1>13 DEF recordEnvironmentLifecycleFailure
  <2>2. QED BY <1>13, <2>1, FailureDown, FailureHeld, DownhillKeeps
<1>14. ASSUME purgeConnectRecords
       PROVE  ConnectInv'
  <2>1. enrolled' = enrolled
    BY <1>14 DEF purgeConnectRecords
  <2>2. QED BY <1>14, <2>1, PurgeDown, PurgeHeld, DownhillKeeps
<1>15. ASSUME NEW c \in Ciphertexts, NEW d \in Ciphertexts, NEW a \in Auths,
              rotateAuthorizationCredential(a, c, d)
       PROVE  ConnectInv'
  <2>1. UNCHANGED <<envs, claims, enrolled>>
    BY <1>15 DEF rotateAuthorizationCredential
  <2>2. QED BY <1>15, <2>1, RotateAuthorizationDown, RequestHeld, DownhillKeeps
<1>16. ASSUME NEW c \in Ciphertexts, NEW d \in Ciphertexts, NEW e \in Envs,
              rotateEnvironmentCredential(e, c, d)
       PROVE  ConnectInv'
  <2>1. enrolled' = enrolled
    BY <1>16 DEF rotateEnvironmentCredential
  <2>2. QED BY <1>16, <2>1, RotateEnvironmentDown, RotateEnvironmentHeld, DownhillKeeps
<1>17. ASSUME Tick
       PROVE  ConnectInv'
  <2>1. enrolled' = enrolled
    BY <1>17 DEF Tick
  <2>2. QED BY <1>17, <2>1, TickDown, TickHeld, DownhillKeeps
<1>18. CASE UNCHANGED vars
  BY <1>18 DEF vars, ConnectInv, TypeOK, PointersAgree, DeliverableIsActive,
     ReservationPaired, EnrolledIsActivated, RevokedIsBare, ClaimBacked,
     ClaimExclusive, ReservationsWithinLimit, Requested, Present, Counted
<1>19. QED
  BY <1>1, <1>2, <1>3, <1>4, <1>5, <1>6, <1>7, <1>8, <1>9, <1>10, <1>11, <1>12,
     <1>13, <1>14, <1>15, <1>16, <1>17, <1>18 DEF Next

\* Authorizations and environments are in order, secrets gone where they must
\* be, and claims backed, after any operations of any callers and workers.
THEOREM ConnectInvariant == Spec => []ConnectInv
<1>1. Init => ConnectInv
  BY ConnectInitially
<1>2. ConnectInv /\ [Next]_vars => ConnectInv'
  BY ConnectStep
<1>3. QED BY <1>1, <1>2, PTL DEF Spec

\* The rows are rows of the two tables, the claims are claims.
THEOREM ConnectTypeCorrect == Spec => []TypeOK
<1>1. ConnectInv => TypeOK
  BY DEF ConnectInv
<1>2. QED BY <1>1, ConnectInvariant, PTL

\* No device is ever handed a credential of an environment that is not active:
\* whatever ends an environment ends its authorizations in the same step.
THEOREM CredentialsAreLive == Spec => []CredentialHasLiveEnvironment
<1>1. ConnectInv => CredentialHasLiveEnvironment
  BY DEF ConnectInv, DeliverableIsActive, CredentialHasLiveEnvironment
<1>2. QED BY <1>1, ConnectInvariant, PTL

\* An authorization that only its worker can end has an environment that a
\* worker will be sent to.
THEOREM ReservationsArePaired == Spec => []ReservationPaired
<1>1. ConnectInv => ReservationPaired
  BY DEF ConnectInv
<1>2. QED BY <1>1, ConnectInvariant, PTL

\* No late worker and no key rotation puts a secret back.
THEOREM RevokedStaysBare == Spec => []RevokedIsBare
<1>1. ConnectInv => RevokedIsBare
  BY DEF ConnectInv
<1>2. QED BY <1>1, ConnectInvariant, PTL

\* Reservations stay within the limit of their account or workspace.
THEOREM ReservationsAreLimited == Spec => []ReservationsWithinLimit
<1>1. ConnectInv => ReservationsWithinLimit
  BY DEF ConnectInv
<1>2. QED BY <1>1, ConnectInvariant, PTL

\* No two workers hold unlapsed claims on one environment.
THEOREM ClaimsAreExclusive == Spec => []ClaimExclusive
<1>1. ConnectInv => ClaimExclusive
  BY DEF ConnectInv
<1>2. QED BY <1>1, ConnectInvariant, PTL

\* A worker that acts on a claim that has not lapsed passes the fence, unless
\* the environment was revoked or purged under it.
THEOREM UnlapsedClaimsAreBacked == Spec => []ClaimBacked
<1>1. ConnectInv => ClaimBacked
  BY DEF ConnectInv
<1>2. QED BY <1>1, ConnectInvariant, PTL

\* The clean-up of abandoned environments spares those whose device was served.
THEOREM EnrolledIsKept == Spec => EnrolledNotReclaimed
<1> DEFINE Spared == \A w \in Workers, e \in enrolled :
                       claimNextEnvironmentLifecycle(w) /\ Present(e)
                         /\ envs[e].status = "active"
                       => envs'[e].status = "active"
<1>1. ASSUME ConnectInv, NEW w \in Workers, NEW e \in enrolled,
             claimNextEnvironmentLifecycle(w), Present(e), envs[e].status = "active"
      PROVE  envs'[e].status = "active"
  <2>1. e \in Envs /\ envs[e].activated
    BY <1>1 DEF ConnectInv, TypeOK, EnrolledIsActivated
  <2>2. CASE RevokeAbandoned(w)
    <3>1. PICK f \in Abandoned : envs' = [envs EXCEPT ![f] = Revoking(@, w)]
      BY <2>2 DEF RevokeAbandoned
    <3>2. f \in Envs /\ f # e
      BY <2>1 DEF Abandoned
    <3>3. QED BY <1>1, <2>1, <3>1, <3>2 DEF ConnectInv, TypeOK
  <2>3. CASE ClaimDue(w)
    <3>1. PICK f \in Due : envs' = [envs EXCEPT ![f].token = w, ![f].claimed = ClaimTime]
      BY <2>3 DEF ClaimDue
    <3>2. f \in Envs /\ f # e
      BY <1>1 DEF Due
    <3>3. QED BY <1>1, <2>1, <3>1, <3>2 DEF ConnectInv, TypeOK
  <2>4. QED BY <1>1, <2>2, <2>3 DEF claimNextEnvironmentLifecycle
<1>2. ConnectInv => [Spared]_vars
  BY <1>1
<1>3. QED BY <1>2, ConnectInvariant, PTL DEF EnrolledNotReclaimed
=============================================================================
