------------------------------ MODULE Webhooks ------------------------------
(***************************************************************************)
(* The webhook store: registrations with their custom hooks, which are     *)
(* kept twice (a JSON column of the registration, and the table the hooks  *)
(* are looked up in), and the log of deliveries that workers claim, answer *)
(* and give back.  Local drivers only: D1 has no raw connection.           *)
(*                                                                         *)
(* Every call is one statement or one raw transaction, but updateWebhook,  *)
(* which reads the registration, awaits, and writes the whole row back.    *)
(* The URL, the events, the label and the health of a registration are     *)
(* left out, and so is claimed_by, which no statement reads.  Time is kept *)
(* as whether a retry is due, and how long ago a claim was made.           *)
(***************************************************************************)
EXTENDS Integers, FiniteSets

CONSTANTS
  Webhooks, Deliveries,   \* ids, each used once
  Hooks,                  \* custom hook names
  Updates,                \* concurrent updateWebhook calls
  Workers,
  limit,                  \* how many deliveries a worker claims at once
  Unused, Deleted,        \* no row yet; the row is gone
  NoUpdate

ASSUME WebhookConstants ==
  /\ IsFiniteSet(Deliveries)
  /\ limit \in Nat
  /\ Unused # Deleted

VARIABLES
  webhooks,   \* webhook_registrations, by id
  hookTable,  \* webhook_custom_hooks, by webhook
  updates,    \* the updateWebhook calls in flight
  deliveries, \* webhook_delivery_logs, by id
  claims,     \* what each worker is delivering
  raced,      \* webhooks whose hooks an update wrote back stale (history)
  taken       \* <<worker, delivery>>: claims that were taken away (history)

registrations == <<webhooks, hookTable, updates, raced>>
log == <<deliveries, claims, taken>>
vars == <<registrations, log>>

Registration == [enabled: BOOLEAN, hooks: SUBSET Hooks]

\* A patch holds the values of the fields it names.
Patch == [enabled: {{}} \cup {{b} : b \in BOOLEAN},
          hooks: {{}} \cup {{h} : h \in SUBSET Hooks}]

Update == [webhook: Webhooks, patch: Patch, read: Registration]

Ended == {"success", "failed", "cancelled"}

Delivery == [webhook: Webhooks,
             status: {"pending", "in_flight"} \cup Ended,
             due: BOOLEAN,       \* next_retry_at is not in the future
             claimed: {"never", "lately", "long ago"}]  \* claimed_at: NULL,
                                 \* or before the reset's cutoff or not

ASSUME WebhookSentinels ==
  /\ Unused \notin Registration \cup Delivery
  /\ Deleted \notin Registration \cup Delivery
  /\ NoUpdate \notin Update

Init ==
  /\ webhooks = [w \in Webhooks |-> Unused]
  /\ hookTable = [w \in Webhooks |-> {}]
  /\ updates = [x \in Updates |-> NoUpdate]
  /\ deliveries = [d \in Deliveries |-> Unused]
  /\ claims = [k \in Workers |-> {}]
  /\ raced = {}
  /\ taken = {}

-----------------------------------------------------------------------------
\* Registrations.

Registered(w) == webhooks[w] \notin {Unused, Deleted}

createWebhook(w, enabled, hooks) ==
  /\ webhooks[w] = Unused
  /\ webhooks' = [webhooks EXCEPT ![w] = [enabled |-> enabled, hooks |-> hooks]]
  /\ hookTable' = [hookTable EXCEPT ![w] = hooks]
  /\ UNCHANGED <<updates, raced, log>>

BeginUpdate(x, w, patch) ==
  /\ updates[x] = NoUpdate
  /\ Registered(w)
  /\ updates' = [updates EXCEPT ![x] =
       [webhook |-> w, patch |-> patch, read |-> webhooks[w]]]
  /\ UNCHANGED <<webhooks, hookTable, raced, log>>

Patched(field, old) == IF field = {} THEN old ELSE CHOOSE v \in field : TRUE

\* Mutant: the table keeps the hooks that the patch no longer has.
FinishUpdateAdding(x) ==
  LET u == updates[x]
      w == u.webhook
      row == [enabled |-> Patched(u.patch.enabled, u.read.enabled),
              hooks |-> Patched(u.patch.hooks, u.read.hooks)]
  IN  /\ u # NoUpdate
      /\ updates' = [updates EXCEPT ![x] = NoUpdate]
      /\ Registered(w)
      /\ webhooks' = [webhooks EXCEPT ![w] = row]
      /\ hookTable' = [hookTable EXCEPT ![w] = @ \cup row.hooks]
      /\ raced' = raced \ {w}
      /\ UNCHANGED log

\* The whole row goes back; the table of hooks only when the patch has hooks.
\* A registration deleted meanwhile is not brought back, nor are its hooks:
\* no row is updated, and the foreign key refuses hooks without one.
FinishUpdate(x) ==
  LET u == updates[x]
      w == u.webhook
      row == [enabled |-> Patched(u.patch.enabled, u.read.enabled),
              hooks |-> Patched(u.patch.hooks, u.read.hooks)]
  IN  /\ u # NoUpdate
      /\ updates' = [updates EXCEPT ![x] = NoUpdate]
      /\ IF Registered(w)
         THEN /\ webhooks' = [webhooks EXCEPT ![w] = row]
              /\ hookTable' = IF u.patch.hooks = {} THEN hookTable
                              ELSE [hookTable EXCEPT ![w] = row.hooks]
              /\ raced' = IF u.patch.hooks # {} THEN raced \ {w}
                          ELSE IF u.read.hooks # webhooks[w].hooks
                          THEN raced \cup {w} ELSE raced
         ELSE UNCHANGED <<webhooks, hookTable, raced>>
      /\ UNCHANGED log

\* ws: the webhooks of one user in one workspace.
disableAllWebhooks(ws) ==
  /\ webhooks' = [w \in Webhooks |->
       IF w \in ws /\ Registered(w) THEN [webhooks[w] EXCEPT !.enabled = FALSE]
       ELSE webhooks[w]]
  /\ UNCHANGED <<hookTable, updates, raced, log>>

-----------------------------------------------------------------------------
\* Deliveries.

Present(d) == deliveries[d] \notin {Unused, Deleted}

Without(ds) ==
  [d \in Deliveries |-> IF d \in ds THEN Deleted ELSE deliveries[d]]

Of(w) == {d \in Deliveries : Present(d) /\ deliveries[d].webhook = w}

\* The hooks and the deliveries go with the registration (ON DELETE CASCADE).
deleteWebhook(w) ==
  /\ Registered(w)
  /\ webhooks' = [webhooks EXCEPT ![w] = Deleted]
  /\ hookTable' = [hookTable EXCEPT ![w] = {}]
  /\ deliveries' = Without(Of(w))
  /\ raced' = raced \ {w}
  /\ UNCHANGED <<updates, claims, taken>>

\* Mutant: a status the table does not know.
QueuedDeliveries(w) ==
  {[webhook |-> w, status |-> "queued", due |-> TRUE, claimed |-> "never"]}

\* Status, claim and next retry are the caller's.
NewDeliveries(w) == {row \in Delivery : row.webhook = w}

\* What k logs as in flight, with a claim or without, it delivers itself.
createDeliveryLog(k, d, w) ==
  /\ deliveries[d] = Unused
  /\ Registered(w)
  /\ \E row \in NewDeliveries(w) :
       /\ deliveries' = [deliveries EXCEPT ![d] = row]
       /\ claims' = IF row.status = "in_flight"
                    THEN [claims EXCEPT ![k] = @ \cup {d}] ELSE claims
  /\ UNCHANGED <<registrations, taken>>

\* Mutant: a delivery in flight is claimed again.
DueDelivery(d) ==
  /\ Present(d) /\ deliveries[d].due
  /\ deliveries[d].status \in {"pending", "in_flight"}

Claimable(d) ==
  Present(d) /\ deliveries[d].status = "pending" /\ deliveries[d].due

\* The next `limit' deliveries, whatever their order.
claimPendingDeliveries(k) ==
  LET due == {d \in Deliveries : Claimable(d)}
  IN  \E ds \in SUBSET due :
        /\ ds # {}
        /\ Cardinality(ds) <= limit
        /\ ds = due \/ Cardinality(ds) = limit
        /\ deliveries' = [d \in Deliveries |->
             IF d \in ds
             THEN [deliveries[d] EXCEPT !.status = "in_flight",
                                        !.claimed = "lately"]
             ELSE deliveries[d]]
        /\ claims' = [claims EXCEPT ![k] = @ \cup ds]
        /\ taken' = taken \ ({k} \X ds)
        /\ UNCHANGED registrations

\* What the workers believe they are delivering of ds.
HeldOf(ds) == {p \in Workers \X ds : p[2] \in claims[p[1]]}

\* A worker's answer: an end, or a retry, due at once or later.  Whose claim
\* the row has is not tested: another's is taken away.
updateDeliveryLog(k, d, status, due) ==
  /\ d \in claims[k]
  /\ Present(d)
  /\ deliveries' = [deliveries EXCEPT ![d].status = status, ![d].due = due,
                      ![d].claimed = "never"]
  /\ claims' = [claims EXCEPT ![k] = @ \ {d}]
  /\ taken' = (taken \cup HeldOf({d})) \ {<<k, d>>}
  /\ UNCHANGED registrations

\* 'Webhook delivery log not found'
AnswerNotFound(k, d) ==
  /\ d \in claims[k]
  /\ ~ Present(d)
  /\ claims' = [claims EXCEPT ![k] = @ \ {d}]
  /\ taken' = taken \ {<<k, d>>}
  /\ UNCHANGED <<registrations, deliveries>>

\* Mutant: only claims whose worker is gone are reset.
StaleAndFree(d) ==
  /\ Present(d) /\ deliveries[d].status = "in_flight"
  /\ deliveries[d].claimed = "long ago"
  /\ HeldOf({d}) = {}

\* A delivery in flight without a claim is never stale.
Stale(d) ==
  /\ Present(d) /\ deliveries[d].status = "in_flight"
  /\ deliveries[d].claimed = "long ago"

resetStaleInFlightDeliveries ==
  /\ \E d \in Deliveries : Stale(d)
  /\ deliveries' = [d \in Deliveries |->
       IF Stale(d) THEN [deliveries[d] EXCEPT !.status = "pending",
                                              !.claimed = "never"]
       ELSE deliveries[d]]
  /\ taken' = taken \cup HeldOf({d \in Deliveries : Stale(d)})
  /\ UNCHANGED <<registrations, claims>>

\* Mutant: what has ended is cancelled too.
Cancelled(w) == Of(w)

Cancellable(w) == {d \in Of(w) : deliveries[d].status \notin Ended}

cancelDeliveriesByWebhook(w) ==
  /\ deliveries' = [d \in Deliveries |->
       IF d \in Cancellable(w)
       THEN [deliveries[d] EXCEPT !.status = "cancelled",
                                  !.claimed = "never", !.due = TRUE]
       ELSE deliveries[d]]
  /\ taken' = taken \cup HeldOf(Cancellable(w))
  /\ UNCHANGED <<registrations, claims>>

\* deleteDeliveryLogsByWebhook, and purgeExpiredLogs of the oldest.
DeleteLogs(ds) ==
  /\ ds # {} /\ \A d \in ds : Present(d)
  /\ deliveries' = Without(ds)
  /\ UNCHANGED <<registrations, claims, taken>>

deleteDeliveryLogsByWebhook(w) == DeleteLogs(Of(w))

purgeExpiredLogs(ds) == DeleteLogs(ds)

\* Time passes next_retry_at, and makes a claim older than the cutoff.
FallDue(d) ==
  /\ Present(d) /\ deliveries[d].status = "pending" /\ ~ deliveries[d].due
  /\ deliveries' = [deliveries EXCEPT ![d].due = TRUE]
  /\ UNCHANGED <<registrations, claims, taken>>

GetStale(d) ==
  /\ Present(d) /\ deliveries[d].status = "in_flight"
  /\ deliveries[d].claimed = "lately"
  /\ deliveries' = [deliveries EXCEPT ![d].claimed = "long ago"]
  /\ UNCHANGED <<registrations, claims, taken>>

WorkerDies(k) ==
  /\ claims[k] # {}
  /\ claims' = [claims EXCEPT ![k] = {}]
  /\ taken' = taken \ ({k} \X Deliveries)
  /\ UNCHANGED <<registrations, deliveries>>

\* The process starts again: initialize() adds the hooks of the column to
\* the table.
Restart ==
  /\ updates' = [x \in Updates |-> NoUpdate]
  /\ claims' = [k \in Workers |-> {}]
  /\ taken' = {}
  /\ hookTable' = [w \in Webhooks |->
       IF Registered(w) THEN hookTable[w] \cup webhooks[w].hooks ELSE {}]
  /\ UNCHANGED <<webhooks, raced, deliveries>>

Next ==
  \/ \E w \in Webhooks, enabled \in BOOLEAN, hooks \in SUBSET Hooks :
       createWebhook(w, enabled, hooks)
  \/ \E x \in Updates : \/ \E w \in Webhooks, patch \in Patch :
                             BeginUpdate(x, w, patch)
                        \/ FinishUpdate(x)
  \/ \E ws \in SUBSET Webhooks : disableAllWebhooks(ws)
  \/ \E w \in Webhooks : \/ deleteWebhook(w)
                         \/ cancelDeliveriesByWebhook(w)
                         \/ deleteDeliveryLogsByWebhook(w)
  \/ \E k \in Workers :
       \/ claimPendingDeliveries(k)
       \/ WorkerDies(k)
       \/ \E d \in Deliveries :
            \/ AnswerNotFound(k, d)
            \/ \E w \in Webhooks : createDeliveryLog(k, d, w)
            \/ \E status \in {"success", "failed", "pending"}, due \in BOOLEAN :
                 updateDeliveryLog(k, d, status, due)
  \/ resetStaleInFlightDeliveries
  \/ \E ds \in SUBSET Deliveries : purgeExpiredLogs(ds)
  \/ \E d \in Deliveries : FallDue(d) \/ GetStale(d)
  \/ Restart

Spec == Init /\ [][Next]_vars

\* Time passes, and the host resets stale deliveries again and again.
Fairness == /\ \A d \in Deliveries : WF_vars(GetStale(d))
            /\ WF_vars(resetStaleInFlightDeliveries)

FairSpec == Spec /\ Fairness

-----------------------------------------------------------------------------
\* Type correctness of the tables, the calls in flight and the claims.
TypeOK ==
  /\ webhooks \in [Webhooks -> Registration \cup {Unused, Deleted}]
  /\ hookTable \in [Webhooks -> SUBSET Hooks]
  /\ updates \in [Updates -> Update \cup {NoUpdate}]
  /\ deliveries \in [Deliveries -> Delivery \cup {Unused, Deleted}]
  /\ claims \in [Workers -> SUBSET Deliveries]
  /\ raced \subseteq Webhooks
  /\ taken \subseteq Workers \X Deliveries

\* A custom hook is looked up in webhook_custom_hooks and shown from the
\* registration's column: the two agree, through concurrent updates, deletion
\* and the back-fill at a restart.  They part in one way only, until the next
\* update of the hooks, which makes them agree again: an update that leaves
\* the hooks alone writes back those it read before another changed them
\* (updateWebhook).
HooksAgree ==
  \A w \in Webhooks \ raced :
    hookTable[w] = IF Registered(w) THEN webhooks[w].hooks ELSE {}

\* k is delivering d, and nobody took the claim from it.
Intact(k, d) == d \in claims[k] /\ <<k, d>> \notin taken

\* Of all the workers that are delivering something at once, stalled ones and
\* late ones included, one at most has a claim that no reset, cancellation or
\* answer of another took away (claimPendingDeliveries, createDeliveryLog,
\* updateDeliveryLog, resetStaleInFlightDeliveries, cancelDeliveriesByWebhook).
OneWorker ==
  \A k, l \in Workers, d \in Deliveries : Intact(k, d) /\ Intact(l, d) => k = l

\* What makes OneWorker inductive: what a worker has an intact claim of is in
\* flight, or it was deleted.
HeldInFlight ==
  \A k \in Workers, d \in Deliveries :
    Intact(k, d) =>
      \/ deliveries[d] = Deleted
      \/ Present(d) /\ deliveries[d].status = "in_flight"

\* What has ended is not sent or cancelled again: an ended delivery keeps its
\* row until it is deleted, and only the late answer of a worker whose claim
\* was taken away overwrites it, once for each such claim (updateDeliveryLog,
\* claimPendingDeliveries, cancelDeliveriesByWebhook).
EndedStaysEnded ==
  [][\A d \in Deliveries :
       (Present(d) /\ deliveries[d].status \in Ended)
         => \/ deliveries'[d] \in {deliveries[d], Deleted}
            \/ \E k \in Workers : <<k, d>> \in taken /\ d \in claims[k] \ claims'[k]]_vars

\* A delivery in flight does not stay so for ever when its worker is gone:
\* it is answered, cancelled, deleted or reset to pending, unless it was
\* logged in flight without the time of a claim (createDeliveryLog,
\* resetStaleInFlightDeliveries).
InFlightIsReturned ==
  \A d \in Deliveries :
    (Present(d) /\ deliveries[d].status = "in_flight"
       /\ deliveries[d].claimed # "never")
      ~> ~ (Present(d) /\ deliveries[d].status = "in_flight")
=============================================================================
