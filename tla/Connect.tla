------------------------------ MODULE Connect ------------------------------
(***************************************************************************)
(* The Connect store of sqlite-connect-store.ts: a device asks for an      *)
(* authorization, a user approves it, an environment is provisioned by     *)
(* workers that hold claims on it, the device polls for its credential,    *)
(* and environments are revoked, at once or by workers.                    *)
(*                                                                         *)
(* Every operation is one statement or one synchronous transaction, hence  *)
(* one step.  The relay's calls happen between the steps of a worker: it   *)
(* acts on a claim that may have lapsed, or been taken over, meanwhile.    *)
(* A timestamp is kept as what is left until it, 0 once it is due.         *)
(***************************************************************************)
EXTENDS Integers, FiniteSets

CONSTANTS
  Auths, Envs,                \* ids, each used once
  Codes,                      \* the codes a user types
  Scopes,                     \* [user, workspace] pairs that callers act for
  Approvers,                  \* bound: those of them that approve requests
  Workers,                    \* executions of the life cycle, with their tokens
  Parts,                      \* hostname, tunnel, DNS record
  Ciphertexts,                \* of any credential; rotation replaces one by another
  None,                       \* NULL, '' and "no claim"
  Unused, Purged,             \* an id without a row: not inserted yet, deleted
  LimitScope,                 \* "account" or "workspace"
  maxActiveEnvironments,
  AuthTime, ProvisionTime,    \* expires_at of a request, of a reservation
  RedeliveryWindow, ActivationTime, ClaimTime, RetryTime, RetentionTime,
  batchSize

ASSUME ConnectConstants ==
  /\ IsFiniteSet(Envs)
  /\ LimitScope \in {"account", "workspace"}
  /\ maxActiveEnvironments \in Nat /\ batchSize \in Nat \ {0}
  /\ AuthTime \in Nat \ {0} /\ ProvisionTime \in Nat \ {0}
  /\ RedeliveryWindow \in Nat \ {0} /\ ActivationTime \in Nat
  /\ ClaimTime \in Nat \ {0} /\ RetryTime \in Nat /\ RetentionTime \in Nat
  /\ Approvers \subseteq Scopes
  /\ \A s \in Scopes : s = [user |-> s.user, workspace |-> s.workspace]
  /\ None \notin Auths \cup Envs \cup Workers \cup Ciphertexts

VARIABLES
  auths,      \* connect_device_authorizations, by id
  envs,       \* connect_environments, by id
  claims,     \* what each worker believes it holds
  enrolled    \* environments whose device got its credential (history variable)

vars == <<auths, envs, claims, enrolled>>

Longer(x, y) == IF x > y THEN x ELSE y

AuthorizationStatus ==
  {"pending", "provisioning", "approved", "delivering",
   "denied", "consumed", "expired"}

Terminal == {"denied", "consumed", "expired"}

Authorization ==
  [status: AuthorizationStatus, code: Codes,
   environment: Envs \cup {None},
   credential: Ciphertexts \cup {None},
   left: 0..Longer(AuthTime, ProvisionTime),  \* until expires_at
   redeliver: -1..RedeliveryWindow,   \* until credential_redeliver_until; past at -1
   age: 0..RetentionTime]             \* since updated_at, once terminal

\* The schema also allows 'error', which no statement writes.
EnvironmentStatus == {"provisioning", "active", "revoking", "revoked"}

Environment ==
  [scope: Scopes, authorization: Auths \cup {None},
   status: EnvironmentStatus,
   access: Ciphertexts \cup {None}, secret: Ciphertexts \cup {None},
   relay: SUBSET Parts,
   next: 0..RetryTime,                \* until lifecycle_next_attempt_at
   token: Workers \cup {None},
   claimed: 0..ClaimTime,             \* until lifecycle_claimed_until; 0 also for NULL
   activation: (0..ActivationTime) \cup {None},  \* until activation_deadline_at
   activated: BOOLEAN,                \* activation_claimed_at IS NOT NULL
   age: 0..RetentionTime]             \* since updated_at, once revoked

Claim == [env: Envs, status: {"provisioning", "revoking"}, left: 0..ClaimTime]

ASSUME ConnectSentinels ==
  /\ Unused # Purged
  /\ {Unused, Purged} \cap (Authorization \cup Environment) = {}
  /\ None \notin Claim /\ None \notin 0..ActivationTime

Init ==
  /\ auths = [a \in Auths |-> Unused]
  /\ envs = [e \in Envs |-> Unused]
  /\ claims = [w \in Workers |-> None]
  /\ enrolled = {}

-----------------------------------------------------------------------------
Requested(a) == auths[a] \notin {Unused, Purged}

Present(e) == envs[e] \notin {Unused, Purged}

Pending(a) == Requested(a) /\ auths[a].status = "pending" /\ auths[a].left > 0

\* randomUUID: an id not used before.  Ids are interchangeable.
NewAuthorization == CHOOSE a \in Auths : auths[a] = Unused
NewEnvironment == CHOOSE e \in Envs : envs[e] = Unused

createAuthorization(code) ==
  LET a == NewAuthorization IN
  /\ \E i \in Auths : auths[i] = Unused
  /\ ~\E i \in Auths : Pending(i) /\ auths[i].code = code
  /\ auths' = [auths EXCEPT ![a] =
       [status |-> "pending", code |-> code, environment |-> None,
        credential |-> None, left |-> AuthTime, redeliver |-> -1, age |-> 0]]
  /\ UNCHANGED <<envs, claims, enrolled>>

denyAuthorization(a) ==
  /\ Pending(a)
  /\ auths' = [auths EXCEPT ![a].status = "denied", ![a].age = 0]
  /\ UNCHANGED <<envs, claims, enrolled>>

-----------------------------------------------------------------------------
(* getAuthorizationByDeviceHash: the device's poll. *)

ExpireOnPoll(a) ==
  /\ Requested(a) /\ auths[a].status \in {"pending", "approved"}
  /\ auths[a].left = 0
  /\ auths' = [auths EXCEPT ![a].status = "expired",
                            ![a].credential = None, ![a].age = 0]
  /\ UNCHANGED <<envs, claims, enrolled>>

\* Mutant: the environment is not told.
StartDeliveryOnly(a) ==
  /\ Requested(a) /\ auths[a].status = "approved" /\ auths[a].left > 0
  /\ auths' = [auths EXCEPT ![a].status = "delivering",
                            ![a].redeliver = RedeliveryWindow]
  /\ enrolled' = enrolled \cup {auths[a].environment}
  /\ UNCHANGED <<envs, claims>>

\* The first poll after approval: the answer carries the credential.
StartDelivery(a) ==
  LET e == auths[a].environment IN
  /\ Requested(a) /\ auths[a].status = "approved" /\ auths[a].left > 0
  /\ auths' = [auths EXCEPT ![a].status = "delivering",
                            ![a].redeliver = RedeliveryWindow]
  /\ envs' = [envs EXCEPT ![e] =
       IF Present(e) /\ @.status = "active" /\ ~@.activated
       THEN [@ EXCEPT !.activated = TRUE, !.activation = None]
       ELSE @]
  /\ enrolled' = enrolled \cup {e}
  /\ UNCHANGED claims

\* A repeated poll answers with the credential until the window closes.
Redelivers(a) == auths[a].credential # None /\ auths[a].redeliver >= 0

EndDelivery(a) ==
  /\ Requested(a) /\ auths[a].status = "delivering" /\ ~Redelivers(a)
  /\ auths' = [auths EXCEPT ![a].status = "consumed",
                            ![a].credential = None, ![a].age = 0]
  /\ UNCHANGED <<envs, claims, enrolled>>

getAuthorizationByDeviceHash(a) ==
  ExpireOnPoll(a) \/ StartDelivery(a) \/ EndDelivery(a)

-----------------------------------------------------------------------------
(* Approval: directly, for an environment that exists, or by reserving one. *)

Counted(scope, statuses) ==
  {e \in Envs : /\ Present(e) /\ envs[e].status \in statuses
                /\ envs[e].scope.user = scope.user
                /\ LimitScope = "workspace" => envs[e].scope = scope}

\* approveAuthorization counts less than reserveAuthorization does.
ApproveCounts == {"active"}
ReserveCounts == {"provisioning", "active", "revoking"}

NewRow(scope) ==
  [scope |-> scope, authorization |-> None, status |-> "active",
   access |-> None, secret |-> None, relay |-> Parts, next |-> 0,
   token |-> None, claimed |-> 0, activation |-> None, activated |-> FALSE,
   age |-> 0]

approveAuthorization(a, scope, credential, access) ==
  LET e == NewEnvironment IN
  /\ Pending(a) /\ \E i \in Envs : envs[i] = Unused
  /\ Cardinality(Counted(scope, ApproveCounts)) < maxActiveEnvironments
  /\ envs' = [envs EXCEPT ![e] = [NewRow(scope) EXCEPT !.access = access]]
  /\ auths' = [auths EXCEPT ![a].status = "approved", ![a].environment = e,
                            ![a].credential = credential]
  /\ UNCHANGED <<claims, enrolled>>

\* Mutant: the count of a direct approval.
HasActiveRoom(scope) ==
  Cardinality(Counted(scope, ApproveCounts)) < maxActiveEnvironments

HasRoom(scope) ==
  Cardinality(Counted(scope, ReserveCounts)) < maxActiveEnvironments

reserveAuthorization(a, scope, access, secret, w) ==
  LET e == NewEnvironment IN
  /\ Pending(a) /\ \E i \in Envs : envs[i] = Unused
  /\ HasRoom(scope)
  /\ envs' = [envs EXCEPT ![e] =
       [NewRow(scope) EXCEPT !.authorization = a, !.status = "provisioning",
          !.access = access, !.secret = secret, !.relay = {},
          !.token = w, !.claimed = ClaimTime, !.activation = ActivationTime]]
  /\ auths' = [auths EXCEPT ![a].status = "provisioning", ![a].environment = e,
                            ![a].left = Longer(@, ProvisionTime)]
  /\ claims' = [claims EXCEPT ![w] =
       [env |-> e, status |-> "provisioning", left |-> ClaimTime]]
  /\ UNCHANGED enrolled

-----------------------------------------------------------------------------
(* Revocation cuts the device off in the same transaction. *)

Open == {"pending", "provisioning", "approved", "delivering"}

\* Mutant: the credential stays in the row.
CutOffStatus(row) ==
  [row EXCEPT !.status = IF @ \in Open THEN "expired" ELSE @, !.age = 0]

CutOff(row) ==
  [row EXCEPT !.status = IF @ \in Open THEN "expired" ELSE @,
              !.credential = None, !.age = 0]

CutOffDevicesOf(e) ==
  [a \in Auths |-> IF Requested(a) /\ auths[a].environment = e
                   THEN CutOff(auths[a]) ELSE auths[a]]

Revoking(row, w) ==
  [row EXCEPT !.status = "revoking", !.access = None, !.secret = None,
              !.token = w, !.claimed = ClaimTime, !.next = 0]

ClaimFor(w, e, status) ==
  claims' = [claims EXCEPT ![w] =
    [env |-> e, status |-> status, left |-> ClaimTime]]

\* Mutant: every due environment is free.
NoClaimCheck(row) == TRUE

ClaimLapsed(row) == row.claimed = 0

beginEnvironmentRevocation(e, scope, w) ==
  /\ Present(e) /\ envs[e].scope = scope
  /\ envs[e].status \in {"active", "revoking"}
  /\ envs[e].status = "active" \/ ClaimLapsed(envs[e])
  /\ auths' = CutOffDevicesOf(e)
  /\ envs' = [envs EXCEPT ![e] = Revoking(@, w)]
  /\ ClaimFor(w, e, "revoking")
  /\ UNCHANGED enrolled

Revoked(row) ==
  [row EXCEPT !.status = "revoked", !.access = None, !.secret = None,
              !.relay = {}, !.age = 0]

\* Without workers.  The authorizations are updated whatever the scope is, and
\* the environment's claim stays in the row.
revokeEnvironment(e, scope) ==
  /\ auths' = CutOffDevicesOf(e)
  /\ envs' = [envs EXCEPT ![e] =
       IF Present(e) /\ @.scope = scope /\ @.status # "revoked"
       THEN Revoked(@) ELSE @]
  /\ UNCHANGED <<claims, enrolled>>

-----------------------------------------------------------------------------
(* The life-cycle workers. *)

\* Mutant: only those whose authorization still waits.
AbandonedWaiting ==
  {e \in Envs : /\ Present(e) /\ envs[e].status = "active"
                /\ ~envs[e].activated /\ envs[e].activation = 0
                /\ \E a \in Auths : /\ Requested(a) /\ auths[a].environment = e
                                   /\ auths[a].status = "approved"}

\* Active environments whose device did not come for its credential in time.
Abandoned ==
  {e \in Envs : /\ Present(e) /\ envs[e].status = "active"
                /\ ~envs[e].activated /\ envs[e].activation = 0}

Due ==
  {e \in Envs : /\ Present(e) /\ envs[e].status \in {"provisioning", "revoking"}
                /\ envs[e].next = 0 /\ ClaimLapsed(envs[e])}

RevokeAbandoned(w) ==
  \E e \in Abandoned :
    /\ auths' = CutOffDevicesOf(e)
    /\ envs' = [envs EXCEPT ![e] = Revoking(@, w)]
    /\ ClaimFor(w, e, "revoking")

ClaimDue(w) ==
  \E e \in Due :
    /\ envs' = [envs EXCEPT ![e].token = w, ![e].claimed = ClaimTime]
    /\ ClaimFor(w, e, envs[e].status)
    /\ UNCHANGED auths

\* Abandoned environments go first; among equals any is taken.
claimNextEnvironmentLifecycle(w) ==
  /\ IF Abandoned # {} THEN RevokeAbandoned(w) ELSE ClaimDue(w)
  /\ UNCHANGED enrolled

\* The fence of every write of worker w: the status it expects and its token.
Holds(w, status) ==
  /\ claims[w] # None /\ claims[w].status = status
  /\ LET row == envs[claims[w].env] IN
     Present(claims[w].env) /\ row.status = status /\ row.token = w

\* A worker notes each part as the relay creates or deletes it.
saveEnvironmentRelayProgress(w, part) ==
  \E status \in {"provisioning", "revoking"} :
    /\ Holds(w, status)
    /\ envs' = [envs EXCEPT ![claims[w].env].relay =
         IF status = "provisioning" THEN @ \cup {part} ELSE @ \ {part}]
    /\ UNCHANGED <<auths, claims, enrolled>>

completeEnvironmentProvisioning(w, credential) ==
  LET e == claims[w].env  a == envs[e].authorization IN
  /\ Holds(w, "provisioning")
  /\ a # None /\ envs[e].relay = Parts
  /\ Requested(a) /\ auths[a].status = "provisioning"   \* else 'conflict'
  /\ auths' = [auths EXCEPT ![a].status = "approved",
                            ![a].credential = credential]
  /\ envs' = [envs EXCEPT ![e].status = "active", ![e].secret = None,
                ![e].token = None, ![e].claimed = 0, ![e].next = 0]
  /\ claims' = [claims EXCEPT ![w] = None]
  /\ UNCHANGED enrolled

\* Mutant: the authorization keeps its place.
AbandonOnlyEnvironment(w) ==
  LET e == claims[w].env IN
  /\ Holds(w, "provisioning")
  /\ envs' = [envs EXCEPT ![e].status = "revoking", ![e].access = None,
                ![e].secret = None, ![e].next = 0]
  /\ claims' = [claims EXCEPT ![w].status = "revoking"]
  /\ UNCHANGED <<auths, enrolled>>

\* The worker's provisioning deadline passed: it keeps its claim and goes on
\* to revoke what it created.
abandonEnvironmentProvisioning(w) ==
  LET e == claims[w].env  a == envs[e].authorization IN
  /\ Holds(w, "provisioning")
  /\ auths' = IF a # None /\ Requested(a) /\ auths[a].status = "provisioning"
              THEN [auths EXCEPT ![a] = CutOff(@)] ELSE auths
  /\ envs' = [envs EXCEPT ![e].status = "revoking", ![e].access = None,
                ![e].secret = None, ![e].next = 0]
  /\ claims' = [claims EXCEPT ![w].status = "revoking"]
  /\ UNCHANGED enrolled

completeEnvironmentRevocation(w) ==
  LET e == claims[w].env  a == envs[e].authorization IN
  /\ Holds(w, "revoking")
  /\ auths' = IF a # None /\ Requested(a)
              THEN [auths EXCEPT ![a] =
                     [CutOff(auths[a]) EXCEPT !.status =
                        IF auths[a].status = "pending" THEN "pending"
                        ELSE CutOff(auths[a]).status]]
              ELSE auths
  /\ envs' = [envs EXCEPT ![e] =
       [Revoked(@) EXCEPT !.token = None, !.claimed = 0, !.next = 0]]
  /\ claims' = [claims EXCEPT ![w] = None]
  /\ UNCHANGED enrolled

recordEnvironmentLifecycleFailure(w) ==
  \E status \in {"provisioning", "revoking"} :
    /\ Holds(w, status)
    /\ envs' = [envs EXCEPT ![claims[w].env].token = None,
                  ![claims[w].env].claimed = 0, ![claims[w].env].next = RetryTime]
    /\ claims' = [claims EXCEPT ![w] = None]
    /\ UNCHANGED <<auths, enrolled>>

-----------------------------------------------------------------------------
(* Retention and key rotation. *)

\* Up to batchSize of the ids that are old enough, the oldest first.
Batches(old, age) ==
  {D \in SUBSET old :
     /\ Cardinality(D) = IF Cardinality(old) < batchSize
                         THEN Cardinality(old) ELSE batchSize
     /\ \A d \in D, o \in old \ D : age[d] >= age[o]}

OldAuthorizations ==
  {a \in Auths : /\ Requested(a) /\ auths[a].status \in Terminal
                 /\ auths[a].age >= RetentionTime}

OldEnvironments ==
  {e \in Envs : /\ Present(e) /\ envs[e].status = "revoked"
                /\ envs[e].age >= RetentionTime}

purgeConnectRecords ==
  /\ OldAuthorizations \cup OldEnvironments # {}
  /\ \E D \in Batches(OldAuthorizations, [a \in OldAuthorizations |-> auths[a].age]),
        F \in Batches(OldEnvironments, [e \in OldEnvironments |-> envs[e].age]) :
       /\ auths' = [a \in Auths |-> IF a \in D THEN Purged ELSE auths[a]]
       /\ envs' = [e \in Envs |-> IF e \in F THEN Purged ELSE envs[e]]
  /\ UNCHANGED <<claims, enrolled>>

\* What an UPDATE ... WHERE column = expected leaves in the column.
Rotated(current, expected, replacement) ==
  IF current = expected THEN replacement ELSE current

\* The key rotation read some row earlier: expected may be stale by now.
rotateAuthorizationCredential(a, expected, replacement) ==
  /\ Requested(a)
  /\ auths' = [auths EXCEPT ![a].credential =
                              Rotated(@, expected, replacement)]
  /\ UNCHANGED <<envs, claims, enrolled>>

rotateEnvironmentCredential(e, expected, replacement) ==
  /\ Present(e)
  /\ \/ envs' = [envs EXCEPT ![e].access = Rotated(@, expected, replacement)]
     \/ envs' = [envs EXCEPT ![e].secret = Rotated(@, expected, replacement)]
  /\ UNCHANGED <<auths, claims, enrolled>>

-----------------------------------------------------------------------------
Sooner(n) == IF n > 0 THEN n - 1 ELSE 0

Older(n) == IF n < RetentionTime THEN n + 1 ELSE n

\* One unit of time.
Tick ==
  /\ auths' = [a \in Auths |-> IF ~Requested(a) THEN auths[a] ELSE
       [auths[a] EXCEPT !.left = Sooner(@),
          !.redeliver = IF @ >= 0 THEN @ - 1 ELSE @,
          !.age = IF auths[a].status \in Terminal THEN Older(@) ELSE @]]
  /\ envs' = [e \in Envs |-> IF ~Present(e) THEN envs[e] ELSE
       [envs[e] EXCEPT !.next = Sooner(@), !.claimed = Sooner(@),
          !.activation = IF @ = None THEN @ ELSE Sooner(@),
          !.age = IF envs[e].status = "revoked" THEN Older(@) ELSE @]]
  /\ claims' = [w \in Workers |-> IF claims[w] = None THEN None ELSE
       [claims[w] EXCEPT !.left = Sooner(@)]]
  /\ UNCHANGED enrolled

Next ==
  \/ \E code \in Codes : createAuthorization(code)
  \/ \E a \in Auths : denyAuthorization(a) \/ getAuthorizationByDeviceHash(a)
  \/ \E a \in Auths, s \in Approvers, c, d \in Ciphertexts :
       \/ approveAuthorization(a, s, c, d)
       \/ \E w \in Workers : reserveAuthorization(a, s, c, d, w)
  \/ \E e \in Envs, s \in Scopes :
       \/ revokeEnvironment(e, s)
       \/ \E w \in Workers : beginEnvironmentRevocation(e, s, w)
  \/ \E w \in Workers :
       \/ claimNextEnvironmentLifecycle(w)
       \/ \E part \in Parts : saveEnvironmentRelayProgress(w, part)
       \/ \E c \in Ciphertexts : completeEnvironmentProvisioning(w, c)
       \/ abandonEnvironmentProvisioning(w)
       \/ completeEnvironmentRevocation(w)
       \/ recordEnvironmentLifecycleFailure(w)
  \/ purgeConnectRecords
  \/ \E c, d \in Ciphertexts :
       \/ \E a \in Auths : rotateAuthorizationCredential(a, c, d)
       \/ \E e \in Envs : rotateEnvironmentCredential(e, c, d)
  \/ Tick

Spec == Init /\ [][Next]_vars

\* Time passes, and the host keeps running life-cycle workers.
Fairness ==
  /\ WF_vars(Tick)
  /\ WF_vars(\E w \in Workers : claimNextEnvironmentLifecycle(w))

FairSpec == Spec /\ Fairness

-----------------------------------------------------------------------------
TypeOK ==
  /\ auths \in [Auths -> Authorization \cup {Unused, Purged}]
  /\ envs \in [Envs -> Environment \cup {Unused, Purged}]
  /\ claims \in [Workers -> Claim \cup {None}]
  /\ enrolled \subseteq Envs

\* A credential waits in an authorization only while the environment it opens
\* is active: whoever revokes, abandons, purges or rotates, and in whatever
\* order, a device is never handed a credential of an environment that is
\* being revoked, is gone, or is not ready.
CredentialHasLiveEnvironment ==
  \A a \in Auths : Requested(a) /\ auths[a].credential # None =>
    /\ auths[a].status \in {"approved", "delivering"}
    /\ Present(auths[a].environment)
    /\ envs[auths[a].environment].status = "active"

\* Polling does not expire an authorization in 'provisioning': only the end of
\* its environment's provisioning does.  So each one has such an environment,
\* which names it back; otherwise its device would poll for ever.
ReservationPaired ==
  \A a \in Auths : Requested(a) /\ auths[a].status = "provisioning" =>
    LET e == auths[a].environment IN
    Present(e) /\ envs[e].status = "provisioning" /\ envs[e].authorization = a

\* Once an environment is being revoked it holds no secret, and once revoked
\* nothing of the relay either: no late worker or key rotation writes any back.
RevokedIsBare ==
  \A e \in Envs : Present(e) /\ envs[e].status \in {"revoking", "revoked"} =>
    /\ envs[e].access = None /\ envs[e].secret = None
    /\ envs[e].status = "revoked" => envs[e].relay = {}

\* Reserved environments stay within the limit of their account or workspace
\* while they are provisioned, active or being revoked, although direct
\* approvals, which count only active ones, may go on beside them.
ReservationsWithinLimit ==
  \A s \in Scopes :
    Cardinality({e \in Counted(s, ReserveCounts) :
                   envs[e].authorization # None}) <= maxActiveEnvironments

\* Two workers never hold unlapsed claims on one environment, so they do not
\* create, or delete, the same tunnel at the same time.
ClaimExclusive ==
  \A v, w \in Workers :
    /\ v # w /\ claims[v] # None /\ claims[w] # None
    /\ claims[v].env = claims[w].env
    => claims[v].left = 0 \/ claims[w].left = 0

\* The clean-up of abandoned environments never takes one whose device has
\* got its credential, even if the deadline passed in the meantime.
EnrolledNotReclaimed ==
  [][\A w \in Workers, e \in enrolled :
       claimNextEnvironmentLifecycle(w) /\ Present(e)
         /\ envs[e].status = "active"
       => envs'[e].status = "active"]_vars

\* A reserved environment whose device never comes for its credential does not
\* stay active, and in the account's quota, for ever.
UnclaimedIsReclaimed ==
  \A e \in Envs :
    LET waiting == /\ Present(e) /\ envs[e].status = "active"
                   /\ envs[e].authorization # None /\ e \notin enrolled
    IN waiting ~> ~waiting

\* The test 'never lists, resolves, or revokes an environment across
\* workspaces' has a revocation in another workspace answer false and the
\* environment stay active.  An authorization that has not lapsed is then cut
\* off only in the step that ends its environment.
CutOffOnlyWithEnvironment ==
  [][\A a \in Auths :
       /\ Requested(a) /\ auths[a].left > 0
       /\ auths[a].status \in {"provisioning", "approved", "delivering"}
       /\ auths'[a].status = "expired"
       => envs'[auths[a].environment] # envs[auths[a].environment]]_vars

-----------------------------------------------------------------------------
(* What makes the properties above inductive. *)

\* An authorization and its environment name each other, and ids are not
\* handed out twice.
PointersAgree ==
  /\ \A a \in Auths : Requested(a) =>
       /\ auths[a].environment # None => envs[auths[a].environment] # Unused
       /\ auths[a].status = "pending" => auths[a].environment = None
       /\ auths[a].status = "provisioning" => auths[a].environment # None
  /\ \A e \in Envs : Present(e) /\ envs[e].authorization # None =>
       LET a == envs[e].authorization IN
       auths[a] # Unused /\ (Requested(a) => auths[a].environment = e)

\* Not only the credential: the status itself promises an active environment.
DeliverableIsActive ==
  \A a \in Auths : Requested(a) =>
    /\ auths[a].credential # None => auths[a].status \in {"approved", "delivering"}
    /\ auths[a].status \in {"approved", "delivering"} =>
         /\ auths[a].environment # None
         /\ Present(auths[a].environment)
         /\ envs[auths[a].environment].status = "active"

\* What the first delivery leaves in the environment.
EnrolledIsActivated ==
  \A e \in enrolled :
    /\ envs[e] # Unused
    /\ Present(e) => /\ envs[e].status # "provisioning"
                     /\ envs[e].status = "active" => envs[e].activated

\* The row backs what a worker believes, unless the environment is revoked.
ClaimBacked ==
  \A w \in Workers : claims[w] # None /\ claims[w].left > 0 =>
    LET e == claims[w].env IN
    /\ envs[e] # Unused
    /\ Present(e) => envs[e].status # "active"
    /\ Present(e) /\ envs[e].status # "revoked" =>
         envs[e].token = w /\ envs[e].claimed >= claims[w].left

ConnectInv ==
  /\ TypeOK /\ PointersAgree /\ DeliverableIsActive /\ ReservationPaired
  /\ EnrolledIsActivated /\ RevokedIsBare /\ ClaimBacked /\ ClaimExclusive
  /\ ReservationsWithinLimit
=============================================================================
