--------------------------- MODULE Webhooks_proofs ---------------------------
(***************************************************************************)
(* The store of registrations and deliveries keeps its types, the two      *)
(* copies of the hooks agree, and a delivery has one worker and one end,   *)
(* for any number of webhooks, deliveries, updates and workers.            *)
(***************************************************************************)
EXTENDS Webhooks, TLAPS

\* The inductive invariant.
WebhooksInv == TypeOK /\ HooksAgree /\ OneWorker /\ HeldInFlight

-----------------------------------------------------------------------------
(* Registrations and their hooks. *)

\* A patched field is the old one or the one of the patch.
LEMMA PatchedTypes ==
  ASSUME NEW x \in Updates, TypeOK, updates[x] # NoUpdate
  PROVE  /\ updates[x] \in Update
         /\ [enabled |-> Patched(updates[x].patch.enabled,
                                 updates[x].read.enabled),
             hooks |-> Patched(updates[x].patch.hooks,
                               updates[x].read.hooks)] \in Registration
<1> DEFINE u == updates[x]
<1>1. u \in Update
  BY DEF TypeOK
<1>2. /\ u.patch.enabled \in {{}} \cup {{b} : b \in BOOLEAN}
      /\ u.patch.hooks \in {{}} \cup {{h} : h \in SUBSET Hooks}
      /\ u.read.enabled \in BOOLEAN /\ u.read.hooks \in SUBSET Hooks
  BY <1>1 DEF Update, Patch, Registration
<1>3. ASSUME NEW S, NEW field \in {{}} \cup {{v} : v \in S}, NEW old \in S
      PROVE  Patched(field, old) \in S
  <2>1. CASE field = {}
    BY <1>3, <2>1 DEF Patched
  <2>2. CASE field # {}
    <3>1. PICK v \in S : field = {v}
      BY <1>3, <2>2
    <3>2. (CHOOSE y \in field : TRUE) = v
      BY <3>1
    <3>3. QED BY <2>2, <3>1, <3>2 DEF Patched
  <2>3. QED BY <2>1, <2>2
<1>4. Patched(u.patch.enabled, u.read.enabled) \in BOOLEAN
  BY <1>2, <1>3
<1>5. Patched(u.patch.hooks, u.read.hooks) \in SUBSET Hooks
  BY <1>2, <1>3
<1>6. QED BY <1>1, <1>4, <1>5 DEF Registration

\* The steps of the registrations keep their types and the agreement of the
\* two copies of the hooks.
LEMMA CreateKeeps ==
  ASSUME TypeOK, HooksAgree, NEW w \in Webhooks, NEW enabled \in BOOLEAN,
         NEW hooks \in SUBSET Hooks, createWebhook(w, enabled, hooks)
  PROVE  /\ TypeOK' /\ HooksAgree'
         /\ UNCHANGED log
<1>1. [enabled |-> enabled, hooks |-> hooks] \in Registration
  BY DEF Registration
<1>2. TypeOK'
  BY <1>1 DEF TypeOK, createWebhook, log
<1>3. ASSUME NEW v \in Webhooks \ raced
      PROVE  hookTable'[v] = IF Registered(v)' THEN webhooks'[v].hooks ELSE {}
  BY <1>1, <1>3, WebhookSentinels
     DEF TypeOK, HooksAgree, createWebhook, Registered
<1>4. QED BY <1>2, <1>3 DEF HooksAgree, createWebhook, log

LEMMA BeginUpdateKeeps ==
  ASSUME TypeOK, HooksAgree, NEW x \in Updates, NEW w \in Webhooks,
         NEW patch \in Patch, BeginUpdate(x, w, patch)
  PROVE  /\ TypeOK' /\ HooksAgree'
         /\ UNCHANGED log
<1>1. webhooks[w] \in Registration
  BY DEF BeginUpdate, TypeOK, Registered
<1>2. [webhook |-> w, patch |-> patch, read |-> webhooks[w]] \in Update
  BY <1>1 DEF Update
<1>3. QED BY <1>2 DEF TypeOK, HooksAgree, BeginUpdate, Registered, log

LEMMA FinishUpdateKeeps ==
  ASSUME TypeOK, HooksAgree, NEW x \in Updates, FinishUpdate(x)
  PROVE  /\ TypeOK' /\ HooksAgree'
         /\ UNCHANGED log
<1> DEFINE u == updates[x]
           w == u.webhook
           row == [enabled |-> Patched(u.patch.enabled, u.read.enabled),
                   hooks |-> Patched(u.patch.hooks, u.read.hooks)]
<1>1. u # NoUpdate /\ updates' = [updates EXCEPT ![x] = NoUpdate]
      /\ UNCHANGED log
  BY DEF FinishUpdate
<1>2. u \in Update /\ row \in Registration
  BY <1>1, PatchedTypes
<1>3. w \in Webhooks
  BY <1>2 DEF Update
<1>4. CASE Registered(w)
  <2>1. /\ webhooks' = [webhooks EXCEPT ![w] = row]
        /\ hookTable' = IF u.patch.hooks = {} THEN hookTable
                        ELSE [hookTable EXCEPT ![w] = row.hooks]
        /\ raced' = IF u.patch.hooks # {} THEN raced \ {w}
                    ELSE IF u.read.hooks # webhooks[w].hooks
                    THEN raced \cup {w} ELSE raced
    BY <1>4 DEF FinishUpdate
  <2>2. row.hooks \in SUBSET Hooks /\ row # Unused /\ row # Deleted
    BY <1>2, WebhookSentinels DEF Registration
  <2>3. TypeOK'
    <3>1. /\ webhooks' \in [Webhooks -> Registration \cup {Unused, Deleted}]
          /\ hookTable' \in [Webhooks -> SUBSET Hooks]
          /\ raced' \subseteq Webhooks
      <4> HIDE DEF row
      <4>1. QED BY <1>2, <1>3, <2>1, <2>2 DEF TypeOK
    <3>2. updates' \in [Updates -> Update \cup {NoUpdate}]
      BY <1>1 DEF TypeOK
    <3>3. QED BY <1>1, <3>1, <3>2 DEF TypeOK, log
  <2>4. ASSUME NEW v \in Webhooks, v \notin raced'
        PROVE  hookTable'[v] = IF Registered(v)' THEN webhooks'[v].hooks
                               ELSE {}
    <3>2. CASE v # w
      <4>1. v \notin raced
        BY <2>1, <2>4, <3>2
      <4>2. QED BY <2>1, <3>2, <4>1 DEF TypeOK, HooksAgree, Registered
    <3>3. CASE v = w
      <4>2. webhooks'[v] = row /\ Registered(v)'
        <5>1. webhooks'[v] = row
          BY <2>1, <3>3 DEF TypeOK
        <5> HIDE DEF row
        <5>2. QED BY <2>2, <5>1 DEF Registered
      <4>3. CASE u.patch.hooks = {}
        <5>1. row.hooks = u.read.hooks
          BY <4>3 DEF Patched
        <5>2. hookTable' = hookTable
          BY <2>1, <4>3
        <5>3. w \notin raced /\ webhooks[w].hooks = u.read.hooks
          BY <2>1, <2>4, <3>3, <4>3
        <5>4. hookTable[w] = u.read.hooks
          BY <1>3, <1>4, <5>3 DEF HooksAgree
        <5> HIDE DEF row
        <5>5. QED BY <3>3, <4>2, <5>1, <5>2, <5>4
      <4>4. CASE u.patch.hooks # {}
        <5>1. hookTable'[v] = row.hooks
          BY <2>1, <3>3, <4>4 DEF TypeOK
        <5> HIDE DEF row
        <5>2. QED BY <4>2, <5>1
      <4>5. QED BY <4>3, <4>4
    <3>4. QED BY <3>2, <3>3
  <2>5. QED BY <1>1, <2>3, <2>4 DEF HooksAgree
<1>5. CASE ~ Registered(w)
  <2>1. UNCHANGED <<webhooks, hookTable, raced>>
    BY <1>5 DEF FinishUpdate
  <2>2. QED BY <1>1, <2>1 DEF TypeOK, HooksAgree, Registered, log
<1>6. QED BY <1>4, <1>5

LEMMA DisableKeeps ==
  ASSUME TypeOK, HooksAgree, NEW ws \in SUBSET Webhooks,
         disableAllWebhooks(ws)
  PROVE  /\ TypeOK' /\ HooksAgree'
         /\ UNCHANGED log
<1>1. ASSUME NEW w \in Webhooks
      PROVE  /\ webhooks'[w] \in Registration \cup {Unused, Deleted}
             /\ Registered(w)' = Registered(w)
             /\ Registered(w) => webhooks'[w].hooks = webhooks[w].hooks
  <2>1. CASE w \in ws /\ Registered(w)
    <3>1. webhooks[w] \in Registration
      BY <2>1 DEF TypeOK, Registered
    <3>2. webhooks'[w] = [webhooks[w] EXCEPT !.enabled = FALSE]
      BY <1>1, <2>1 DEF disableAllWebhooks
    <3>3. /\ webhooks'[w] \in Registration
          /\ webhooks'[w].hooks = webhooks[w].hooks
      BY <3>1, <3>2 DEF Registration
    <3>4. QED BY <2>1, <3>3, WebhookSentinels DEF Registered
  <2>2. CASE ~ (w \in ws /\ Registered(w))
    BY <1>1, <2>2 DEF disableAllWebhooks, TypeOK, Registered
  <2>3. QED BY <2>1, <2>2
<1>2. webhooks' \in [Webhooks -> Registration \cup {Unused, Deleted}]
  <2>1. DOMAIN webhooks' = Webhooks /\ webhooks' = [w \in Webhooks |-> webhooks'[w]]
    BY DEF disableAllWebhooks
  <2>2. QED BY <1>1, <2>1
<1>3. UNCHANGED <<hookTable, updates, raced, log>>
  BY DEF disableAllWebhooks
<1>4. TypeOK'
  BY <1>2, <1>3 DEF TypeOK, log
<1>5. QED BY <1>1, <1>3, <1>4 DEF HooksAgree

LEMMA RestartKeeps ==
  ASSUME TypeOK, HooksAgree, Restart
  PROVE  TypeOK' /\ HooksAgree'
<1>1. /\ UNCHANGED <<webhooks, raced, deliveries>> /\ taken' = {}
      /\ updates' = [x \in Updates |-> NoUpdate]
      /\ claims' = [k \in Workers |-> {}]
      /\ hookTable' = [w \in Webhooks |->
           IF Registered(w) THEN hookTable[w] \cup webhooks[w].hooks ELSE {}]
  BY DEF Restart
<1>2. ASSUME NEW w \in Webhooks, Registered(w)
      PROVE  webhooks[w].hooks \in SUBSET Hooks
  BY <1>2 DEF TypeOK, Registered, Registration
<1>3. TypeOK'
  BY <1>1, <1>2 DEF TypeOK
<1>4. QED BY <1>1, <1>3 DEF HooksAgree, Registered

-----------------------------------------------------------------------------
(* Deliveries. *)

\* Row d is as it was, or deleted.
Untouched(d) == deliveries'[d] = deliveries[d] \/ deliveries'[d] = Deleted

\* What the registrations do keeps what is said of the log.
LEMMA LogUntouched ==
  ASSUME OneWorker, HeldInFlight, UNCHANGED log
  PROVE  OneWorker' /\ HeldInFlight'
BY DEF log, OneWorker, HeldInFlight, Present, Intact

\* A row of the log has the fields of a delivery.
LEMMA PresentTypes ==
  ASSUME TypeOK, NEW d \in Deliveries, Present(d)
  PROVE  deliveries[d] \in Delivery
BY DEF TypeOK, Present

\* What is held is a claim of a worker.
LEMMA HeldOfTypes ==
  ASSUME NEW ds \in SUBSET Deliveries
  PROVE  /\ HeldOf(ds) \subseteq Workers \X Deliveries
         /\ \A k \in Workers, d \in ds :
              d \in claims[k] => <<k, d>> \in HeldOf(ds)
BY DEF HeldOf

\* A step that hands no delivery to a worker keeps OneWorker and HeldInFlight
\* if the rows that stay with a worker are left alone.
LEMMA HoldersKept ==
  ASSUME OneWorker, HeldInFlight,
         \A k \in Workers, d \in Deliveries :
           Intact(k, d)' => Intact(k, d) /\ Untouched(d)
  PROVE  OneWorker' /\ HeldInFlight'
<1>1. OneWorker'
  BY DEF OneWorker
<1>2. ASSUME NEW k \in Workers, NEW d \in Deliveries, Intact(k, d)'
      PROVE  \/ deliveries'[d] = Deleted
             \/ Present(d)' /\ deliveries'[d].status = "in_flight"
  BY <1>2 DEF HeldInFlight, Untouched, Present
<1>3. QED BY <1>1, <1>2 DEF HeldInFlight

\* One that changes rows and no claims does, when it takes the claims of the
\* rows it changes away.
LEMMA HoldersTaken ==
  ASSUME OneWorker, HeldInFlight, NEW ds \in SUBSET Deliveries,
         UNCHANGED claims, taken' = taken \cup HeldOf(ds),
         \A d \in Deliveries \ ds : Untouched(d)
  PROVE  OneWorker' /\ HeldInFlight'
<1>1. ASSUME NEW k \in Workers, NEW d \in Deliveries, Intact(k, d)'
      PROVE  Intact(k, d) /\ Untouched(d)
  BY <1>1, HeldOfTypes DEF Intact
<1>2. QED BY <1>1, HoldersKept

\* Deleting rows keeps the types and leaves the other rows alone.
LEMMA WithoutTypes ==
  ASSUME TypeOK, NEW ds, deliveries' = Without(ds)
  PROVE  /\ deliveries' \in [Deliveries -> Delivery \cup {Unused, Deleted}]
         /\ \A d \in Deliveries : Untouched(d)
BY DEF TypeOK, Without, Untouched

LEMMA DeleteWebhookKeeps ==
  ASSUME WebhooksInv, NEW w \in Webhooks, deleteWebhook(w)
  PROVE  WebhooksInv'
<1>1. /\ webhooks' = [webhooks EXCEPT ![w] = Deleted]
      /\ hookTable' = [hookTable EXCEPT ![w] = {}]
      /\ deliveries' = Without(Of(w))
      /\ raced' = raced \ {w}
      /\ UNCHANGED <<updates, claims, taken>>
  BY DEF deleteWebhook
<1>2. /\ deliveries' \in [Deliveries -> Delivery \cup {Unused, Deleted}]
      /\ \A d \in Deliveries : Untouched(d)
  BY <1>1, WithoutTypes DEF WebhooksInv
<1>3. TypeOK'
  BY <1>1, <1>2 DEF WebhooksInv, TypeOK
<1>4. HooksAgree'
  BY <1>1 DEF WebhooksInv, TypeOK, HooksAgree, Registered
<1>5. OneWorker' /\ HeldInFlight'
  BY <1>1, <1>2, HoldersKept DEF WebhooksInv, Intact
<1>6. QED BY <1>3, <1>4, <1>5 DEF WebhooksInv

\* What touches only the log keeps what is said of the registrations.
LEMMA RegistrationsKept ==
  ASSUME WebhooksInv, UNCHANGED registrations,
         deliveries' \in [Deliveries -> Delivery \cup {Unused, Deleted}],
         claims' \in [Workers -> SUBSET Deliveries],
         taken' \subseteq Workers \X Deliveries,
         OneWorker' /\ HeldInFlight'
  PROVE  WebhooksInv'
BY DEF WebhooksInv, registrations, TypeOK, HooksAgree, Registered

\* The first worker to have a delivery is the one that logs it in flight.
LEMMA CreateLogKeeps ==
  ASSUME WebhooksInv, NEW k \in Workers, NEW d \in Deliveries,
         NEW w \in Webhooks, createDeliveryLog(k, d, w)
  PROVE  WebhooksInv'
<1>1. PICK row \in NewDeliveries(w) :
        /\ deliveries' = [deliveries EXCEPT ![d] = row]
        /\ claims' = IF row.status = "in_flight"
                     THEN [claims EXCEPT ![k] = @ \cup {d}] ELSE claims
  BY DEF createDeliveryLog
<1>2. /\ deliveries[d] = Unused
      /\ UNCHANGED <<registrations, taken>>
  BY DEF createDeliveryLog
<1>3. row \in Delivery /\ row # Unused /\ row # Deleted
  BY WebhookSentinels DEF NewDeliveries
<1>4. deliveries' \in [Deliveries -> Delivery \cup {Unused, Deleted}]
  BY <1>1, <1>3 DEF WebhooksInv, TypeOK
<1>5. /\ deliveries'[d] = row
      /\ \A x \in Deliveries \ {d} : deliveries'[x] = deliveries[x]
  BY <1>1 DEF WebhooksInv, TypeOK
<1>6. \A l \in Workers : ~ Intact(l, d)
  BY <1>2, WebhookConstants DEF WebhooksInv, HeldInFlight, Present
<1>7. claims' \in [Workers -> SUBSET Deliveries]
  BY <1>1 DEF WebhooksInv, TypeOK
<1>8. ASSUME NEW l \in Workers, NEW x \in Deliveries, Intact(l, x)'
      PROVE  Intact(l, x) \/ (l = k /\ x = d /\ row.status = "in_flight")
  <2>1. claims'[l] = IF l = k /\ row.status = "in_flight"
                     THEN claims[l] \cup {d} ELSE claims[l]
    BY <1>1 DEF WebhooksInv, TypeOK
  <2>2. QED BY <1>2, <1>8, <2>1 DEF Intact
<1>9. OneWorker'
  BY <1>6, <1>8 DEF WebhooksInv, OneWorker
<1>10. ASSUME NEW l \in Workers, NEW x \in Deliveries, Intact(l, x)'
       PROVE  \/ deliveries'[x] = Deleted
              \/ Present(x)' /\ deliveries'[x].status = "in_flight"
  <2>1. CASE x = d
    BY <1>3, <1>5, <1>6, <1>8, <1>10, <2>1 DEF Present
  <2>2. CASE x # d
    BY <1>5, <1>8, <1>10, <2>2 DEF WebhooksInv, HeldInFlight, Present
  <2>3. QED BY <2>1, <2>2
<1>11. HeldInFlight'
  BY <1>10 DEF HeldInFlight
<1>12. QED BY <1>2, <1>4, <1>7, <1>9, <1>11, RegistrationsKept
           DEF WebhooksInv, TypeOK

\* A claim takes only what nobody has an intact claim of.
LEMMA ClaimKeeps ==
  ASSUME WebhooksInv, NEW k \in Workers, claimPendingDeliveries(k)
  PROVE  WebhooksInv'
<1>1. PICK ds \in SUBSET {d \in Deliveries : Claimable(d)} :
        /\ deliveries' = [d \in Deliveries |->
             IF d \in ds
             THEN [deliveries[d] EXCEPT !.status = "in_flight",
                                        !.claimed = "lately"]
             ELSE deliveries[d]]
        /\ claims' = [claims EXCEPT ![k] = @ \cup ds]
        /\ taken' = taken \ ({k} \X ds)
        /\ UNCHANGED registrations
  BY DEF claimPendingDeliveries
<1>2. ASSUME NEW d \in ds
      PROVE  /\ deliveries'[d] \in Delivery
             /\ Present(d)' /\ deliveries'[d].status = "in_flight"
             /\ \A l \in Workers : ~ Intact(l, d)
  <2>1. Claimable(d) /\ Present(d) /\ d \in Deliveries
    BY <1>2 DEF Claimable
  <2>2. deliveries[d] \in Delivery
    BY <2>1, PresentTypes DEF WebhooksInv
  <2>3. deliveries'[d] = [deliveries[d] EXCEPT !.status = "in_flight",
                                               !.claimed = "lately"]
    BY <1>1, <1>2, <2>1
  <2>4. deliveries'[d] \in Delivery /\ deliveries'[d].status = "in_flight"
    BY <2>2, <2>3 DEF Delivery
  <2>5. \A l \in Workers : ~ Intact(l, d)
    BY <2>1 DEF WebhooksInv, HeldInFlight, Claimable, Present
  <2>6. QED BY <2>4, <2>5, WebhookSentinels DEF Present
<1>3. ASSUME NEW d \in Deliveries \ ds
      PROVE  deliveries'[d] = deliveries[d]
  BY <1>1, <1>3
<1>4. deliveries' \in [Deliveries -> Delivery \cup {Unused, Deleted}]
  <2>1. \A d \in Deliveries :
          deliveries'[d] \in Delivery \cup {Unused, Deleted}
    BY <1>2, <1>3 DEF WebhooksInv, TypeOK
  <2>2. deliveries' = [d \in Deliveries |-> deliveries'[d]]
    BY <1>1
  <2>3. QED BY <2>1, <2>2
<1>5. /\ claims' \in [Workers -> SUBSET Deliveries]
      /\ claims'[k] = claims[k] \cup ds
      /\ \A l \in Workers \ {k} : claims'[l] = claims[l]
  BY <1>1 DEF WebhooksInv, TypeOK
<1>6. taken' \subseteq Workers \X Deliveries
  BY <1>1 DEF WebhooksInv, TypeOK
<1>7. ASSUME NEW l \in Workers, NEW d \in Deliveries, Intact(l, d)'
      PROVE  IF d \in ds THEN l = k ELSE Intact(l, d)
  <2>1. CASE l = k
    BY <1>1, <1>5, <1>7, <2>1 DEF Intact
  <2>2. CASE l # k
    <3>1. Intact(l, d)
      BY <1>1, <1>5, <1>7, <2>2 DEF Intact
    <3>2. QED BY <1>2, <3>1
  <2>3. QED BY <2>1, <2>2
<1>8. OneWorker'
  BY <1>7 DEF WebhooksInv, OneWorker
<1>9. ASSUME NEW l \in Workers, NEW d \in Deliveries, Intact(l, d)'
      PROVE  \/ deliveries'[d] = Deleted
             \/ Present(d)' /\ deliveries'[d].status = "in_flight"
  <2>1. CASE d \in ds
    BY <1>2, <2>1
  <2>2. CASE d \notin ds
    BY <1>3, <1>7, <1>9, <2>2 DEF WebhooksInv, HeldInFlight, Present
  <2>3. QED BY <2>1, <2>2
<1>10. HeldInFlight'
  BY <1>9 DEF HeldInFlight
<1>11. QED BY <1>1, <1>4, <1>5, <1>6, <1>8, <1>10, RegistrationsKept

\* Rows rewritten one by one are rows of the log.
LEMMA RowsTypes ==
  ASSUME deliveries' = [d \in Deliveries |-> deliveries'[d]],
         \A d \in Deliveries :
           deliveries'[d] \in Delivery \cup {Unused, Deleted}
  PROVE  deliveries' \in [Deliveries -> Delivery \cup {Unused, Deleted}]
OBVIOUS

\* An answer ends the claim, and takes away who else has the delivery.
LEMMA AnswerKeeps ==
  ASSUME WebhooksInv, NEW k \in Workers, NEW d \in Deliveries,
         NEW status \in {"success", "failed", "pending"}, NEW due \in BOOLEAN,
         updateDeliveryLog(k, d, status, due)
  PROVE  WebhooksInv'
<1>1. /\ d \in claims[k] /\ Present(d)
      /\ deliveries' = [deliveries EXCEPT ![d].status = status, ![d].due = due,
                          ![d].claimed = "never"]
      /\ claims' = [claims EXCEPT ![k] = @ \ {d}]
      /\ taken' = (taken \cup HeldOf({d})) \ {<<k, d>>}
      /\ UNCHANGED registrations
  BY DEF updateDeliveryLog
<1>2. deliveries[d] \in Delivery
  BY <1>1, PresentTypes DEF WebhooksInv
<1>3. /\ deliveries'[d] = [deliveries[d] EXCEPT !.status = status, !.due = due,
                             !.claimed = "never"]
      /\ deliveries' = [x \in Deliveries |-> deliveries'[x]]
      /\ \A x \in Deliveries \ {d} : deliveries'[x] = deliveries[x]
  BY <1>1 DEF WebhooksInv, TypeOK
<1>4. deliveries'[d] \in Delivery
  BY <1>2, <1>3 DEF Delivery, Ended
<1>5. deliveries' \in [Deliveries -> Delivery \cup {Unused, Deleted}]
  BY <1>3, <1>4, RowsTypes DEF WebhooksInv, TypeOK
<1>6. /\ claims' \in [Workers -> SUBSET Deliveries]
      /\ claims'[k] = claims[k] \ {d}
      /\ \A l \in Workers \ {k} : claims'[l] = claims[l]
  BY <1>1 DEF WebhooksInv, TypeOK
<1>7. taken' \subseteq Workers \X Deliveries
  BY <1>1, HeldOfTypes DEF WebhooksInv, TypeOK
<1>8. ASSUME NEW l \in Workers, NEW x \in Deliveries, Intact(l, x)'
      PROVE  Intact(l, x) /\ Untouched(x)
  <2>1. CASE x = d
    <3>1. l # k /\ d \in claims[l]
      BY <1>6, <1>8, <2>1 DEF Intact
    <3>2. <<l, d>> \in taken'
      BY <1>1, <3>1, HeldOfTypes
    <3>3. QED BY <1>8, <2>1, <3>2 DEF Intact
  <2>2. CASE x # d
    <3>1. x \in claims[l]
      BY <1>6, <1>8, <2>2 DEF Intact
    <3>2. <<l, x>> \notin taken
      BY <1>1, <1>8, <2>2 DEF Intact
    <3>3. QED BY <1>3, <2>2, <3>1, <3>2 DEF Intact, Untouched
  <2>3. QED BY <2>1, <2>2
<1>9. OneWorker' /\ HeldInFlight'
  BY <1>8, HoldersKept DEF WebhooksInv
<1>10. QED BY <1>1, <1>5, <1>6, <1>7, <1>9, RegistrationsKept

\* A worker that lets go of what it has.
LEMMA ReleaseKeeps ==
  ASSUME WebhooksInv, NEW k \in Workers, NEW ds \in SUBSET Deliveries,
         claims' = [claims EXCEPT ![k] = @ \ ds],
         taken' = taken \ ({k} \X ds),
         UNCHANGED <<registrations, deliveries>>
  PROVE  WebhooksInv'
<1>1. /\ claims' \in [Workers -> SUBSET Deliveries]
      /\ claims'[k] = claims[k] \ ds
      /\ \A l \in Workers \ {k} : claims'[l] = claims[l]
  BY DEF WebhooksInv, TypeOK
<1>2. ASSUME NEW l \in Workers, NEW x \in Deliveries, Intact(l, x)'
      PROVE  Intact(l, x) /\ Untouched(x)
  <2>1. l = k => x \notin ds
    BY <1>1, <1>2 DEF Intact
  <2>2. QED BY <1>1, <1>2, <2>1 DEF Intact, Untouched
<1>3. OneWorker' /\ HeldInFlight'
  BY <1>2, HoldersKept DEF WebhooksInv
<1>4. taken' \subseteq Workers \X Deliveries
  BY DEF WebhooksInv, TypeOK
<1>5. QED BY <1>1, <1>3, <1>4, RegistrationsKept DEF WebhooksInv, TypeOK

LEMMA NotFoundKeeps ==
  ASSUME WebhooksInv, NEW k \in Workers, NEW d \in Deliveries,
         AnswerNotFound(k, d)
  PROVE  WebhooksInv'
<1>1. {<<k, d>>} = {k} \X {d}
  OBVIOUS
<1>2. /\ claims' = [claims EXCEPT ![k] = @ \ {d}]
      /\ taken' = taken \ ({k} \X {d})
      /\ UNCHANGED <<registrations, deliveries>>
  BY <1>1 DEF AnswerNotFound
<1>3. {d} \in SUBSET Deliveries
  OBVIOUS
<1>4. QED BY <1>2, <1>3, ReleaseKeeps

LEMMA WorkerDiesKeeps ==
  ASSUME WebhooksInv, NEW k \in Workers, WorkerDies(k)
  PROVE  WebhooksInv'
<1>1. claims[k] \ Deliveries = {}
  BY DEF WebhooksInv, TypeOK
<1>2. claims' = [claims EXCEPT ![k] = @ \ Deliveries]
  BY <1>1 DEF WorkerDies
<1>3. QED BY <1>2, ReleaseKeeps DEF WorkerDies

\* A claim that is reset under its worker is remembered as taken.
LEMMA ResetKeeps ==
  ASSUME WebhooksInv, resetStaleInFlightDeliveries
  PROVE  WebhooksInv'
<1> DEFINE ds == {d \in Deliveries : Stale(d)}
<1>1. /\ deliveries' = [d \in Deliveries |->
           IF Stale(d) THEN [deliveries[d] EXCEPT !.status = "pending",
                                                  !.claimed = "never"]
           ELSE deliveries[d]]
      /\ taken' = taken \cup HeldOf(ds)
      /\ UNCHANGED <<registrations, claims>>
  BY DEF resetStaleInFlightDeliveries
<1>2. ASSUME NEW d \in Deliveries
      PROVE  deliveries'[d] \in Delivery \cup {Unused, Deleted}
  <2>1. CASE Stale(d)
    <3>1. deliveries[d] \in Delivery
      BY <2>1, PresentTypes DEF WebhooksInv, Stale
    <3>2. deliveries'[d] = [deliveries[d] EXCEPT !.status = "pending",
                                                 !.claimed = "never"]
      BY <1>1, <2>1
    <3>3. QED BY <3>1, <3>2 DEF Delivery
  <2>2. CASE ~ Stale(d)
    BY <1>1, <2>2 DEF WebhooksInv, TypeOK
  <2>3. QED BY <2>1, <2>2
<1>3. deliveries' \in [Deliveries -> Delivery \cup {Unused, Deleted}]
  BY <1>1, <1>2, RowsTypes
<1>4. \A d \in Deliveries \ ds : Untouched(d)
  BY <1>1 DEF Untouched
<1>5. OneWorker' /\ HeldInFlight'
  <2> HIDE DEF ds
  <2>1. ds \in SUBSET Deliveries
    BY DEF ds
  <2>2. QED BY <1>1, <1>4, <2>1, HoldersTaken DEF WebhooksInv
<1>6. taken' \subseteq Workers \X Deliveries
  BY <1>1, HeldOfTypes DEF WebhooksInv, TypeOK
<1>7. QED BY <1>1, <1>3, <1>5, <1>6, RegistrationsKept
          DEF WebhooksInv, TypeOK

\* So is one that is cancelled.
LEMMA CancelKeeps ==
  ASSUME WebhooksInv, NEW w \in Webhooks, cancelDeliveriesByWebhook(w)
  PROVE  WebhooksInv'
<1>1. /\ deliveries' = [d \in Deliveries |->
           IF d \in Cancellable(w)
           THEN [deliveries[d] EXCEPT !.status = "cancelled",
                                      !.claimed = "never", !.due = TRUE]
           ELSE deliveries[d]]
      /\ taken' = taken \cup HeldOf(Cancellable(w))
      /\ UNCHANGED <<registrations, claims>>
  BY DEF cancelDeliveriesByWebhook
<1>2. ASSUME NEW d \in Deliveries
      PROVE  deliveries'[d] \in Delivery \cup {Unused, Deleted}
  <2>1. CASE d \in Cancellable(w)
    <3>1. deliveries[d] \in Delivery
      BY <2>1, PresentTypes DEF WebhooksInv, Cancellable, Of
    <3>2. deliveries'[d] = [deliveries[d] EXCEPT !.status = "cancelled",
                              !.claimed = "never", !.due = TRUE]
      BY <1>1, <2>1
    <3>3. QED BY <3>1, <3>2 DEF Delivery, Ended
  <2>2. CASE d \notin Cancellable(w)
    BY <1>1, <2>2 DEF WebhooksInv, TypeOK
  <2>3. QED BY <2>1, <2>2
<1>3. deliveries' \in [Deliveries -> Delivery \cup {Unused, Deleted}]
  BY <1>1, <1>2, RowsTypes
<1>4. \A d \in Deliveries \ Cancellable(w) : Untouched(d)
  BY <1>1 DEF Untouched
<1>5. Cancellable(w) \in SUBSET Deliveries
  BY DEF Cancellable, Of
<1>6. OneWorker' /\ HeldInFlight'
  BY <1>1, <1>4, <1>5, HoldersTaken DEF WebhooksInv
<1>7. taken' \subseteq Workers \X Deliveries
  BY <1>1, <1>5, HeldOfTypes DEF WebhooksInv, TypeOK
<1>8. QED BY <1>1, <1>3, <1>6, <1>7, RegistrationsKept
          DEF WebhooksInv, TypeOK

LEMMA DeleteLogsKeeps ==
  ASSUME WebhooksInv, NEW ds, DeleteLogs(ds)
  PROVE  WebhooksInv'
<1>1. /\ deliveries' = Without(ds)
      /\ UNCHANGED <<registrations, claims, taken>>
  BY DEF DeleteLogs
<1>2. /\ deliveries' \in [Deliveries -> Delivery \cup {Unused, Deleted}]
      /\ \A d \in Deliveries : Untouched(d)
  BY <1>1, WithoutTypes DEF WebhooksInv
<1>3. OneWorker' /\ HeldInFlight'
  BY <1>1, <1>2, HoldersKept DEF WebhooksInv, Intact
<1>4. QED BY <1>1, <1>2, <1>3, RegistrationsKept DEF WebhooksInv, TypeOK

\* The passage of time changes no status.
LEMMA TimeKeeps ==
  ASSUME WebhooksInv, NEW d \in Deliveries, FallDue(d) \/ GetStale(d)
  PROVE  WebhooksInv'
<1>1. /\ Present(d)
      /\ UNCHANGED <<registrations, claims, taken>>
      /\ \/ deliveries' = [deliveries EXCEPT ![d].due = TRUE]
         \/ deliveries' = [deliveries EXCEPT ![d].claimed = "long ago"]
  BY DEF FallDue, GetStale
<1>2. deliveries[d] \in Delivery
  BY <1>1, PresentTypes DEF WebhooksInv
<1>3. /\ deliveries' = [x \in Deliveries |-> deliveries'[x]]
      /\ \/ deliveries'[d] = [deliveries[d] EXCEPT !.due = TRUE]
         \/ deliveries'[d] = [deliveries[d] EXCEPT !.claimed = "long ago"]
      /\ \A x \in Deliveries \ {d} : deliveries'[x] = deliveries[x]
  BY <1>1 DEF WebhooksInv, TypeOK
<1>4. /\ deliveries'[d] \in Delivery
      /\ deliveries'[d].status = deliveries[d].status
  BY <1>2, <1>3 DEF Delivery
<1>5. deliveries' \in [Deliveries -> Delivery \cup {Unused, Deleted}]
  BY <1>3, <1>4, RowsTypes DEF WebhooksInv, TypeOK
<1>6. OneWorker'
  BY <1>1 DEF WebhooksInv, OneWorker, Intact
<1>7. ASSUME NEW k \in Workers, NEW x \in Deliveries, Intact(k, x)'
      PROVE  \/ deliveries'[x] = Deleted
             \/ Present(x)' /\ deliveries'[x].status = "in_flight"
  <2>1. \/ deliveries[x] = Deleted
        \/ Present(x) /\ deliveries[x].status = "in_flight"
    BY <1>1, <1>7 DEF WebhooksInv, HeldInFlight, Intact
  <2>2. CASE x = d
    BY <1>1, <1>4, <2>1, <2>2, WebhookSentinels DEF Present
  <2>3. CASE x # d
    BY <1>3, <2>1, <2>3 DEF Present
  <2>4. QED BY <2>2, <2>3
<1>8. HeldInFlight'
  BY <1>7 DEF HeldInFlight
<1>9. QED BY <1>1, <1>5, <1>6, <1>8, RegistrationsKept
          DEF WebhooksInv, TypeOK

-----------------------------------------------------------------------------
(* The specification. *)

LEMMA InitInv == Init => WebhooksInv
BY DEF Init, WebhooksInv, TypeOK, HooksAgree, OneWorker, HeldInFlight, Intact,
       Registered

LEMMA StepInv == WebhooksInv /\ [Next]_vars => WebhooksInv'
<1> SUFFICES ASSUME WebhooksInv, [Next]_vars
             PROVE  WebhooksInv'
  OBVIOUS
<1>1. ASSUME NEW w \in Webhooks, NEW enabled \in BOOLEAN,
             NEW hooks \in SUBSET Hooks, createWebhook(w, enabled, hooks)
      PROVE  WebhooksInv'
  BY <1>1, CreateKeeps, LogUntouched DEF WebhooksInv
<1>2. ASSUME NEW x \in Updates, NEW w \in Webhooks, NEW patch \in Patch,
             BeginUpdate(x, w, patch)
      PROVE  WebhooksInv'
  BY <1>2, BeginUpdateKeeps, LogUntouched DEF WebhooksInv
<1>3. ASSUME NEW x \in Updates, FinishUpdate(x)
      PROVE  WebhooksInv'
  BY <1>3, FinishUpdateKeeps, LogUntouched DEF WebhooksInv
<1>4. ASSUME NEW ws \in SUBSET Webhooks, disableAllWebhooks(ws)
      PROVE  WebhooksInv'
  BY <1>4, DisableKeeps, LogUntouched DEF WebhooksInv
<1>5. ASSUME NEW w \in Webhooks
      PROVE  /\ deleteWebhook(w) => WebhooksInv'
             /\ cancelDeliveriesByWebhook(w) => WebhooksInv'
             /\ deleteDeliveryLogsByWebhook(w) => WebhooksInv'
  BY <1>5, DeleteWebhookKeeps, CancelKeeps, DeleteLogsKeeps
     DEF deleteDeliveryLogsByWebhook
<1>6. ASSUME NEW k \in Workers
      PROVE  /\ claimPendingDeliveries(k) => WebhooksInv'
             /\ WorkerDies(k) => WebhooksInv'
  BY <1>6, ClaimKeeps, WorkerDiesKeeps
<1>7. ASSUME NEW k \in Workers, NEW d \in Deliveries
      PROVE  /\ AnswerNotFound(k, d) => WebhooksInv'
             /\ \A w \in Webhooks : createDeliveryLog(k, d, w) => WebhooksInv'
             /\ \A status \in {"success", "failed", "pending"},
                   due \in BOOLEAN :
                  updateDeliveryLog(k, d, status, due) => WebhooksInv'
  BY <1>7, NotFoundKeeps, CreateLogKeeps, AnswerKeeps
<1>8. resetStaleInFlightDeliveries => WebhooksInv'
  BY ResetKeeps
<1>9. ASSUME NEW ds \in SUBSET Deliveries, purgeExpiredLogs(ds)
      PROVE  WebhooksInv'
  BY <1>9, DeleteLogsKeeps DEF purgeExpiredLogs
<1>10. ASSUME NEW d \in Deliveries, FallDue(d) \/ GetStale(d)
       PROVE  WebhooksInv'
  BY <1>10, TimeKeeps
<1>11. ASSUME Restart
       PROVE  WebhooksInv'
  <2>1. TypeOK' /\ HooksAgree'
    BY <1>11, RestartKeeps DEF WebhooksInv
  <2>2. OneWorker' /\ HeldInFlight'
    BY <1>11 DEF Restart, OneWorker, HeldInFlight, Intact
  <2>3. QED BY <2>1, <2>2 DEF WebhooksInv
<1>12. CASE UNCHANGED vars
  BY <1>12 DEF vars, registrations, log, WebhooksInv, TypeOK, HooksAgree,
               OneWorker, HeldInFlight, Intact, Registered, Present
<1>13. QED
  BY <1>1, <1>2, <1>3, <1>4, <1>5, <1>6, <1>7, <1>8, <1>9, <1>10, <1>11,
     <1>12 DEF Next

\* The invariant holds of the store, whatever the number of webhooks,
\* deliveries, updates and workers.
THEOREM WebhooksInvariant == Spec => []WebhooksInv
BY InitInv, StepInv, PTL DEF Spec

\* The tables, the calls in flight and the claims keep their types.
THEOREM WebhooksTypes == Spec => []TypeOK
<1>1. WebhooksInv => TypeOK
  BY DEF WebhooksInv
<1>2. QED BY <1>1, WebhooksInvariant, PTL

\* The two copies of a registration's hooks agree, but between an update that
\* wrote stale hooks back with the rest of the row and the next that sets them.
THEOREM HooksAlwaysAgree == Spec => []HooksAgree
<1>1. WebhooksInv => HooksAgree
  BY DEF WebhooksInv
<1>2. QED BY <1>1, WebhooksInvariant, PTL

\* Of the workers that are delivering something, one at most has a claim that
\* no reset, cancellation or answer of another took away.
THEOREM DeliveryHasOneWorker == Spec => []OneWorker
<1>1. WebhooksInv => OneWorker
  BY DEF WebhooksInv
<1>2. QED BY <1>1, WebhooksInvariant, PTL

\* A worker whose claim was taken away answers.
LateAnswer(d) ==
  \E k \in Workers : <<k, d>> \in taken /\ d \in claims[k] \ claims'[k]

\* The row d is the one it was, or it was deleted.
KeptOrDeleted(d) == deliveries'[d] \in {deliveries[d], Deleted}

\* No step changes the row of a delivery that has ended, but the late answer
\* of a worker whose claim was taken away: an intact one would have the row in
\* flight.
LEMMA EndedKept ==
  ASSUME WebhooksInv, [Next]_vars, NEW d \in Deliveries,
         Present(d), deliveries[d].status \in Ended
  PROVE  KeptOrDeleted(d) \/ LateAnswer(d)
<1> deliveries \in [Deliveries -> Delivery \cup {Unused, Deleted}]
  BY DEF WebhooksInv, TypeOK
<1>1. CASE UNCHANGED deliveries
  BY <1>1 DEF KeptOrDeleted
<1>2. ASSUME NEW ds, deliveries' = Without(ds)
      PROVE  KeptOrDeleted(d)
  BY <1>2 DEF Without, KeptOrDeleted
<1>3. ASSUME NEW k \in Workers, NEW x \in Deliveries, NEW w \in Webhooks,
             createDeliveryLog(k, x, w)
      PROVE  KeptOrDeleted(d)
  BY <1>3 DEF createDeliveryLog, Present, KeptOrDeleted
<1>4. ASSUME NEW k \in Workers, claimPendingDeliveries(k)
      PROVE  KeptOrDeleted(d)
  BY <1>4 DEF claimPendingDeliveries, Claimable, Ended, KeptOrDeleted
<1>5. ASSUME NEW k \in Workers, NEW x \in Deliveries,
             NEW status \in {"success", "failed", "pending"},
             NEW due \in BOOLEAN, updateDeliveryLog(k, x, status, due)
      PROVE  KeptOrDeleted(d) \/ LateAnswer(d)
  <2>1. CASE x = d
    <3>1. d \in claims[k] /\ claims' = [claims EXCEPT ![k] = @ \ {d}]
      BY <1>5, <2>1 DEF updateDeliveryLog
    <3>2. ~ Intact(k, d)
      BY DEF WebhooksInv, HeldInFlight, Present, Ended
    <3>3. d \notin claims'[k]
      BY <3>1 DEF WebhooksInv, TypeOK
    <3>4. QED BY <3>1, <3>2, <3>3 DEF Intact, LateAnswer
  <2>2. CASE x # d
    BY <1>5, <2>2 DEF updateDeliveryLog, KeptOrDeleted
  <2>3. QED BY <2>1, <2>2
<1>6. CASE resetStaleInFlightDeliveries
  BY <1>6 DEF resetStaleInFlightDeliveries, Stale, Ended, KeptOrDeleted
<1>7. ASSUME NEW w \in Webhooks, cancelDeliveriesByWebhook(w)
      PROVE  KeptOrDeleted(d)
  BY <1>7 DEF cancelDeliveriesByWebhook, Cancellable, KeptOrDeleted
<1>8. ASSUME NEW x \in Deliveries, FallDue(x) \/ GetStale(x)
      PROVE  KeptOrDeleted(d)
  <2>1. x # d
    BY <1>8 DEF FallDue, GetStale, Ended
  <2>2. QED BY <1>8, <2>1 DEF FallDue, GetStale, KeptOrDeleted
<1>9. QED
  <2>1. CASE UNCHANGED vars
    BY <1>1, <2>1 DEF vars, log
  <2>2. CASE Next
    BY <1>1, <1>2, <1>3, <1>4, <1>5, <1>6, <1>7, <1>8, <2>2
       DEF Next, createWebhook, BeginUpdate, FinishUpdate, disableAllWebhooks,
           deleteWebhook, deleteDeliveryLogsByWebhook, purgeExpiredLogs,
           DeleteLogs, WorkerDies, AnswerNotFound, Restart, log
  <2>3. QED BY <2>1, <2>2

\* What has ended is not sent or cancelled again: only the late answer of a
\* worker whose claim was taken away overwrites it.
THEOREM EndedDeliveriesStayEnded == Spec => EndedStaysEnded
<1>1. WebhooksInv /\ [Next]_vars =>
        \A d \in Deliveries :
          (Present(d) /\ deliveries[d].status \in Ended)
            => \/ deliveries'[d] \in {deliveries[d], Deleted}
               \/ \E k \in Workers : <<k, d>> \in taken /\ d \in claims[k] \ claims'[k]
  BY EndedKept DEF KeptOrDeleted, LateAnswer
<1>2. WebhooksInv /\ [Next]_vars =>
        [\A d \in Deliveries :
           (Present(d) /\ deliveries[d].status \in Ended)
             => \/ deliveries'[d] \in {deliveries[d], Deleted}
                \/ \E k \in Workers : <<k, d>> \in taken /\ d \in claims[k] \ claims'[k]]_vars
  BY <1>1
<1>3. QED BY <1>2, WebhooksInvariant, PTL DEF Spec, EndedStaysEnded

=============================================================================
