----------------------------- MODULE Workspaces -----------------------------
(***************************************************************************)
(* Users, workspaces, members and invites: the auth store and the          *)
(* workspace part of the admin store.                                      *)
(*                                                                         *)
(* With a local driver both stores share one SQLite connection.  Kysely    *)
(* takes turns on it: while a Kysely transaction is open, every other      *)
(* Kysely statement waits.  The raw transactions of getOrCreateUser,       *)
(* acceptInviteAndProvisionUser and consumeInvite do not wait; inside an   *)
(* open transaction they are savepoints of it.  D1 has no transaction:     *)
(* every statement, or batch, stands alone.  The admin store needs Kysely  *)
(* transactions, so its role changes are local only.                       *)
(***************************************************************************)
EXTENDS Integers, FiniteSets, FiniteSetsExt

CONSTANTS
  Users, Workspaces,       \* ids that uid() may return, each used once
  Identities, EmailOf,     \* provider accounts, and the email of each
  Invites,                 \* invites 1..n, in the order of created_at
  Callers,                 \* concurrent requests
  Granted,                 \* the roles that requests ask for
  Lookups,                 \* how upsertMember names people
  Null, NoCall, NoTx,
  Founder, FounderId, Home,  \* the user, account and workspace there are
  Outset,                  \* ... and the invites the founder may have sent
  Drivers,
  MaxCalls                 \* bound: the requests other than sign-ins

Roles == {"owner", "editor", "viewer"}

Emails == {EmailOf[a] : a \in Identities}

Invite == [ws: Workspaces, email: Emails, role: Roles,
           status: {"pending", "accepted", "revoked", "expired"},
           due: BOOLEAN,                \* expires_at <= now
           user: Users \cup {Null}]     \* accepted_user_id

ASSUME WorkspaceConstants ==
  /\ IsFiniteSet(Users) /\ IsFiniteSet(Workspaces)
  /\ Invites \subseteq Nat
  /\ DOMAIN EmailOf = Identities
  /\ Granted \subseteq Roles
  /\ Lookups \subseteq {k \in [account: Identities \cup {Null},
                                email: Emails \cup {Null}] :
                           (k.account = Null) # (k.email = Null)}
  /\ Founder \in Users /\ FounderId \in Identities /\ Home \in Workspaces
  /\ Null \notin Users \cup Workspaces \cup Identities \cup Roles
  /\ Outset \subseteq [Invites -> Invite \cup {Null}]
  /\ \A sent \in Outset, i \in Invites : sent[i] # Null =>
       sent[i].ws = Home /\ sent[i].status = "pending" /\ sent[i].user = Null
  /\ Drivers \subseteq {"local", "d1"}
  /\ MaxCalls \in Nat

VARIABLES
  driver,   \* "local" or "d1", fixed by the configuration
  db,       \* the tables, as the shared connection sees them
  tx,       \* the open Kysely transaction: its caller, the tables before it
  calls,    \* the requests in flight
  spent,    \* the requests begun so far, sign-ins not counted
  seen      \* what was answered, and what races happened (history)

vars == <<driver, db, tx, calls, spent, seen>>

Tables == [users: SUBSET Users,
           active: [Users -> Workspaces \cup {Null}],
           email: [Users -> Emails \cup {Null}],
           accounts: [Identities -> Users \cup {Null}],
           owner: [Workspaces -> Users \cup {Null}],   \* Null: no workspace
           deleted: SUBSET Workspaces,
           role: [Workspaces -> [Users -> Roles \cup {Null}]],
           invites: [Invites -> Invite \cup {Null}]]

\* What a request in flight knows.  others: the users it has read and not
\* dealt with; overtaken (history): what a sign-in has found out, or put
\* right, another request has changed since.
Call == [pc: {"membership", "repair", "batch", "begin", "check", "owners",
              "transfer", "write", "rehome", "insert", "commit", "activate",
              "revoke", "user", "oldest", "accept",
              "find", "addUser", "addAccount", "readMember", "addMember"},
         op: {"signIn", "create", "remove", "setActive", "revoke", "accept",
              "member"},
         user: Users \cup {Null}, ws: Workspaces \cup {Null},
         role: Roles \cup {Null}, account: Identities \cup {Null}, email: Emails \cup {Null},
         invite: Invites \cup {Null}, others: SUBSET Users,
         overtaken: BOOLEAN]

ASSUME WorkspaceSentinels ==
  /\ Null \notin Invite
  /\ NoCall \notin Call
  /\ NoTx \notin [caller: Callers, saved: Tables]

Seen == [accepted: [Invites -> SUBSET Users],  \* acceptances answered ok
         twice: SUBSET Invites,     \* answered ok more than once
         nested: SUBSET Invites,    \* ... inside another's transaction
         undone: SUBSET Invites,    \* ... and rolled back
         revoked: SUBSET Invites,   \* a revocation was carried out
         overlapped: SUBSET Invites,  \* accepted while being revoked
         lowered: SUBSET Workspaces]  \* an owner accepted a lower role

Init ==
  /\ driver \in Drivers
  /\ \E invites \in Outset :
       db = [users |-> {Founder},
             active |-> [u \in Users |-> IF u = Founder THEN Home ELSE Null],
             email |-> [u \in Users |->
                          IF u = Founder THEN EmailOf[FounderId] ELSE Null],
             accounts |-> [a \in Identities |->
                             IF a = FounderId THEN Founder ELSE Null],
             owner |-> [w \in Workspaces |->
                          IF w = Home THEN Founder ELSE Null],
             deleted |-> {},
             role |-> [w \in Workspaces |-> [u \in Users |->
                         IF w = Home /\ u = Founder THEN "owner" ELSE Null]],
             invites |-> invites]
  /\ tx = NoTx
  /\ calls = [c \in Callers |-> NoCall]
  /\ spent = 0
  /\ seen = [accepted |-> [i \in Invites |-> {}], twice |-> {},
             nested |-> {}, undone |-> {}, revoked |-> {}, overlapped |-> {},
             lowered |-> {}]

-----------------------------------------------------------------------------
\* Workspaces and their members.

Live(d, w) == d.owner[w] # Null /\ w \notin d.deleted

Member(d, u, w) == d.role[w][u] # Null

Homes(d, u) == {w \in Workspaces : Live(d, w) /\ Member(d, u, w)}

Settled(d, u) == d.active[u] \in Homes(d, u)

-----------------------------------------------------------------------------
\* The connection.

Idle(c) == calls[c] = NoCall

At(c, pc) == ~ Idle(c) /\ calls[c].pc = pc

\* Kysely runs a statement of c: no other request has a transaction open.
Kysely(c) == tx # NoTx => tx.caller = c

\* Tables d take from a sign-in the membership it read, give its user one
\* though it read none, or move the user out of the workspace it created.
Belies(d, call) ==
  /\ call.op = "signIn"
  /\ \/ call.pc = "repair" /\ call.ws \in Homes(db, call.user) \ Homes(d, call.user)
     \/ /\ call.pc \in {"begin", "insert", "batch"}
        /\ ~ Homes(d, call.user) \subseteq Homes(db, call.user)
     \/ call.pc = "commit" /\ Settled(db, call.user) /\ ~ Settled(d, call.user)

\* The tables become d: a sign-in goes on with what it knows.
Overtake(d, cs) ==
  [c \in Callers |-> IF cs[c] # NoCall /\ Belies(d, cs[c])
                     THEN [cs[c] EXCEPT !.overtaken = TRUE]
                     ELSE cs[c]]

\* Request c writes d and goes on as `next'; the transaction stays as it is.
Step(c, d, next) ==
  /\ db' = d
  /\ calls' = [Overtake(d, calls) EXCEPT ![c] = next]

Continue(c, pc) == Step(c, db, [calls[c] EXCEPT !.pc = pc])

Start(c, call) ==
  /\ Idle(c) /\ Kysely(c)
  /\ calls' = [calls EXCEPT ![c] = call]
  /\ UNCHANGED <<driver, db, tx, seen>>

NewCall(op, pc) ==
  [pc |-> pc, op |-> op, user |-> Null, ws |-> Null, role |-> Null,
   account |-> Null, email |-> Null, invite |-> Null, others |-> {}, overtaken |-> FALSE]

Spend == spent < MaxCalls /\ spent' = spent + 1

\* The first step of each operation inside its transaction.
FirstStep(op) == CASE op = "member" -> "check" [] op = "remove" -> "write"
                   [] OTHER -> "insert"

Begin(c) ==
  /\ At(c, "begin") /\ tx = NoTx
  /\ tx' = [caller |-> c, saved |-> db]
  /\ Continue(c, FirstStep(calls[c].op))
  /\ UNCHANGED <<driver, spent, seen>>

Commit(c) ==
  /\ At(c, "commit")
  /\ tx' = NoTx
  /\ calls' = [calls EXCEPT ![c] = NoCall]
  /\ UNCHANGED <<driver, db, spent, seen>>

\* The acceptances whose rows are gone when the tables become d again.
Undone(d) == {i \in Invites : /\ seen.accepted[i] # {}
                              /\ \/ d.invites[i] = Null
                                 \/ d.invites[i].user \notin seen.accepted[i]}

\* The transaction of c throws: SQLite goes back to the tables before it.
Rollback(c) ==
  /\ Step(c, tx.saved, NoCall)
  /\ tx' = NoTx
  /\ seen' = [seen EXCEPT !.undone = @ \cup Undone(tx.saved)]
  /\ UNCHANGED <<driver, spent>>

\* The process ends: the requests are gone, the open transaction with them.
Crash ==
  LET d == IF tx = NoTx THEN db ELSE tx.saved
  IN  /\ Spend
      /\ db' = d
      /\ tx' = NoTx
      /\ calls' = [c \in Callers |-> NoCall]
      /\ seen' = [seen EXCEPT !.undone = @ \cup Undone(d)]
      /\ UNCHANGED driver

-----------------------------------------------------------------------------
\* Users and their active workspace.

NewUser(d) == CHOOSE u \in Users : u \notin d.users

NewWorkspace(d) == CHOOSE w \in Workspaces : d.owner[w] = Null

WithUser(d, email) ==
  [d EXCEPT !.users = @ \cup {NewUser(d)}, !.email[NewUser(d)] = email]

\* The account exists, or is created with its user.
WithAccount(d, a) ==
  IF d.accounts[a] # Null THEN d
  ELSE [WithUser(d, EmailOf[a]) EXCEPT !.accounts[a] = NewUser(d)]

CanCreateUser(d, a) == d.accounts[a] # Null \/ Users # d.users

WithWorkspace(d, w, u) ==
  [d EXCEPT !.owner[w] = u, !.role[w][u] = "owner"]

\* One raw transaction, or one D1 batch.
getOrCreateUser(a) ==
  /\ db.accounts[a] = Null /\ CanCreateUser(db, a)
  /\ db' = WithAccount(db, a)
  /\ calls' = Overtake(db', calls)
  /\ UNCHANGED <<driver, tx, spent, seen>>

\* getOrCreateDefaultWorkspace: nothing to do when the active one is valid.
BeginSignIn(c, u) ==
  /\ u \in db.users
  /\ ~ Settled(db, u)
  /\ Start(c, [NewCall("signIn", "membership") EXCEPT !.user = u])
  /\ UNCHANGED spent

\* Mutant: the membership may be one of a deleted workspace.
ReadAnyMembership(c) ==
  /\ At(c, "membership") /\ Kysely(c)
  /\ \/ \E w \in Workspaces :
          /\ Member(db, calls[c].user, w)
          /\ Step(c, db, [calls[c] EXCEPT !.pc = "repair", !.ws = w])
     \/ /\ Homes(db, calls[c].user) = {}
        /\ Continue(c, IF driver = "d1" THEN "batch" ELSE "begin")
  /\ UNCHANGED <<driver, tx, spent, seen>>

ReadMembership(c) ==
  /\ At(c, "membership") /\ Kysely(c)
  /\ \/ \E w \in Homes(db, calls[c].user) :
          Step(c, db, [calls[c] EXCEPT !.pc = "repair", !.ws = w])
     \/ /\ Homes(db, calls[c].user) = {}
        /\ Continue(c, IF driver = "d1" THEN "batch" ELSE "begin")
  /\ UNCHANGED <<driver, tx, spent, seen>>

RepairActive(c) ==
  /\ At(c, "repair") /\ Kysely(c)
  /\ Step(c, [db EXCEPT !.active[calls[c].user] = calls[c].ws], NoCall)
  /\ UNCHANGED <<driver, tx, spent, seen>>

\* The inserts of a default workspace, which also becomes the active one,
\* and of createWorkspace.
Inserted(c) ==
  LET u == calls[c].user
      w == NewWorkspace(db)
      d == WithWorkspace(db, w, u)
  IN  IF calls[c].op = "signIn" THEN [d EXCEPT !.active[u] = w] ELSE d

InsertWorkspace(c) ==
  /\ \E w \in Workspaces : db.owner[w] = Null
  /\ \/ /\ At(c, "insert")
        /\ Step(c, Inserted(c), [calls[c] EXCEPT !.pc = "commit",
                                                 !.overtaken = FALSE])
     \/ /\ At(c, "batch") /\ calls[c].op # "remove"
        /\ Step(c, Inserted(c), NoCall)
  /\ UNCHANGED <<driver, tx, spent, seen>>

createWorkspace(c, u) ==
  /\ u \in db.users
  /\ Start(c, [NewCall("create", IF driver = "d1" THEN "batch" ELSE "begin")
                 EXCEPT !.user = u])
  /\ Spend

setActiveWorkspace(c, u, w) ==
  /\ w \in Homes(db, u)
  /\ Start(c, [NewCall("setActive", "activate") EXCEPT !.user = u, !.ws = w])
  /\ Spend

Activate(c) ==
  /\ At(c, "activate") /\ Kysely(c)
  /\ Step(c, [db EXCEPT !.active[calls[c].user] = calls[c].ws], NoCall)
  /\ UNCHANGED <<driver, tx, spent, seen>>

-----------------------------------------------------------------------------
\* Removing and restoring a workspace.

removeWorkspace(c, u, w) ==
  /\ db.role[w][u] = "owner"
  /\ Start(c, [NewCall("remove", IF driver = "d1" THEN "batch" ELSE "begin")
                 EXCEPT !.user = u, !.ws = w])
  /\ Spend

In(d, w) == {u \in d.users : d.active[u] = w}

DeleteWorkspace(c) ==
  LET w == calls[c].ws
      d == [db EXCEPT !.deleted = @ \cup {w}]
  IN  /\ At(c, "write") /\ calls[c].op = "remove"
      /\ Step(c, d, [calls[c] EXCEPT !.pc = "rehome", !.others = In(d, w)])
      /\ UNCHANGED <<driver, tx, spent, seen>>

\* The users read are moved one by one to a workspace they have left.
Rehome(c) ==
  LET others == calls[c].others
  IN  /\ At(c, "rehome")
      /\ IF others = {} THEN Continue(c, "commit")
         ELSE \E u \in others :
                \E w \in IF Homes(db, u) = {} THEN {Null} ELSE Homes(db, u) :
                  Step(c, [db EXCEPT !.active[u] = w],
                          [calls[c] EXCEPT !.others = @ \ {u}])
      /\ UNCHANGED <<driver, tx, spent, seen>>

\* D1: the same in one batch.
RemoveInBatch(c) ==
  LET w == calls[c].ws
      d == [db EXCEPT !.deleted = @ \cup {w}]
  IN  /\ At(c, "batch") /\ calls[c].op = "remove"
      /\ \E active \in [Users -> Workspaces \cup {Null}] :
           /\ \A u \in Users :
                active[u] \in IF u \notin In(d, w) THEN {d.active[u]}
                              ELSE IF Homes(d, u) = {} THEN {Null}
                              ELSE Homes(d, u)
           /\ Step(c, [d EXCEPT !.active = active], NoCall)
      /\ UNCHANGED <<driver, tx, spent, seen>>

\* A Kysely statement of its own.
Statement(d) ==
  /\ tx = NoTx
  /\ db' = d
  /\ calls' = Overtake(d, calls)
  /\ Spend
  /\ UNCHANGED <<driver, tx>>

softDeleteWorkspace(w) ==
  /\ Live(db, w)
  /\ Statement([db EXCEPT !.deleted = @ \cup {w}])
  /\ UNCHANGED seen

restoreWorkspace(w) ==
  /\ w \in db.deleted
  /\ Statement([db EXCEPT !.deleted = @ \ {w}])
  /\ UNCHANGED seen

-----------------------------------------------------------------------------
\* Invites.  A token names one invite.

Sent(d, i) == d.invites[i] # Null

createInvite(i, w, email, role) ==
  /\ db.owner[w] # Null
  /\ ~ Sent(db, i) /\ \A j \in Invites : j < i => Sent(db, j)
  /\ Statement([db EXCEPT !.invites[i] =
       [ws |-> w, email |-> email, role |-> role, status |-> "pending",
        due |-> FALSE, user |-> Null]])
  /\ UNCHANGED seen

\* Time passes the expires_at of an invite.
FallDue(i) ==
  /\ Sent(db, i) /\ ~ db.invites[i].due
  /\ db' = [db EXCEPT !.invites[i].due = TRUE]
  /\ tx' = IF tx = NoTx \/ ~ Sent(tx.saved, i) THEN tx
           ELSE [tx EXCEPT !.saved.invites[i].due = TRUE]
  /\ Spend
  /\ UNCHANGED <<driver, calls, seen>>

Pending(d, i) == Sent(d, i) /\ d.invites[i].status = "pending"

\* Mutant: a status the readers do not know.
LapseDue(d, w) ==
  [d EXCEPT !.invites = [i \in Invites |->
     IF Pending(d, i) /\ d.invites[i].ws = w /\ d.invites[i].due
     THEN [d.invites[i] EXCEPT !.status = "lapsed"] ELSE d.invites[i]]]

ExpireDue(d, w) ==
  [d EXCEPT !.invites = [i \in Invites |->
     IF Pending(d, i) /\ d.invites[i].ws = w /\ d.invites[i].due
     THEN [d.invites[i] EXCEPT !.status = "expired"] ELSE d.invites[i]]]

listInvites(w) ==
  /\ ExpireDue(db, w) # db
  /\ Statement(ExpireDue(db, w))
  /\ UNCHANGED seen

revokeInvite(c, i) ==
  /\ Pending(db, i)
  /\ Start(c, [NewCall("revoke", "revoke") EXCEPT !.invite = i])
  /\ Spend

\* The update does not look at the status again.
Revoke(c) ==
  LET i == calls[c].invite
  IN  /\ At(c, "revoke") /\ Kysely(c)
      /\ Step(c, [db EXCEPT !.invites[i].status = "revoked"], NoCall)
      /\ seen' = [seen EXCEPT !.revoked = @ \cup {i}]
      /\ UNCHANGED <<driver, tx, spent>>

\* Mutant: only the expiry of an invite is tested.
NotDue(d, a, i) ==
  Sent(d, i) /\ ~ d.invites[i].due /\ d.invites[i].email = EmailOf[a]

Valid(d, a, i) ==
  /\ Pending(d, i) /\ ~ d.invites[i].due
  /\ d.invites[i].email = EmailOf[a]

\* The user of an accepted invite is a member, and active there.
Joined(d, i, u) ==
  LET w == d.invites[i].ws
  IN  [d EXCEPT !.role[w][u] = d.invites[i].role, !.active[u] = w]

Accepted(d, i, u) ==
  Joined([d EXCEPT !.invites[i].status = "accepted", !.invites[i].user = u],
         i, u)

\* The request is answered ok.
Answer(i, u) ==
  LET w == db.invites[i].ws
      revoking == \E c \in Callers : At(c, "revoke") /\ calls[c].invite = i
      lowers == db.role[w][u] = "owner" /\ db.invites[i].role # "owner"
  IN  seen' = [seen EXCEPT
         !.accepted[i] = @ \cup {u},
         !.twice = @ \cup IF seen.accepted[i] # {} THEN {i} ELSE {},
         !.nested = @ \cup IF tx # NoTx THEN {i} ELSE {},
         !.overlapped = @ \cup IF revoking THEN {i} ELSE {},
         !.lowered = @ \cup IF lowers THEN {w} ELSE {}]

\* One raw transaction.
acceptInviteAndProvisionUser(a, i) ==
  LET d == WithAccount(db, a)
      u == d.accounts[a]
  IN  /\ driver = "local"
      /\ Valid(db, a, i) /\ CanCreateUser(db, a)
      /\ Spend
      /\ db' = Accepted(d, i, u)
      /\ calls' = Overtake(db', calls)
      /\ Answer(i, u)
      /\ UNCHANGED <<driver, tx>>

BeginAcceptInD1(c, a, i) ==
  /\ driver = "d1"
  /\ Valid(db, a, i)
  /\ Start(c, [NewCall("accept", "user") EXCEPT !.account = a, !.invite = i])
  /\ Spend

GetUserInD1(c) ==
  LET d == WithAccount(db, calls[c].account)
  IN  /\ At(c, "user") /\ CanCreateUser(db, calls[c].account)
      /\ Step(c, d, [calls[c] EXCEPT !.pc = "accept",
                                     !.user = d.accounts[calls[c].account]])
      /\ UNCHANGED <<driver, tx, spent, seen>>

\* The oldest invite of the workspace to an email: consumeInvite looks at
\* no other.
Oldest(d, i) ==
  \A j \in Invites : j < i => \/ d.invites[j].ws # d.invites[i].ws
                              \/ d.invites[j].email # d.invites[i].email

\* One raw transaction, for a user that exists.  What is due expires also
\* when the token is refused.
consumeInvite(a, i) ==
  LET u == db.accounts[a]
      d == ExpireDue(db, db.invites[i].ws)
  IN  /\ driver = "local"
      /\ u # Null /\ Sent(db, i)
      /\ Spend
      /\ \/ /\ Valid(db, a, i) /\ Oldest(db, i)
            /\ db' = Accepted(d, i, u)
            /\ Answer(i, u)
         \/ /\ ~ (Valid(db, a, i) /\ Oldest(db, i)) /\ d # db
            /\ db' = d
            /\ UNCHANGED seen
      /\ calls' = Overtake(db', calls)
      /\ UNCHANGED <<driver, tx>>

BeginConsumeInD1(c, a, i) ==
  LET d == ExpireDue(db, db.invites[i].ws)
  IN  /\ driver = "d1"
      /\ db.accounts[a] # Null
      /\ Sent(db, i) /\ db.invites[i].email = EmailOf[a]
      /\ Idle(c)
      /\ Step(c, d, [NewCall("accept", "oldest")
                       EXCEPT !.user = db.accounts[a], !.invite = i])
      /\ Spend
      /\ UNCHANGED <<driver, tx, seen>>

ReadOldest(c) ==
  LET i == calls[c].invite
  IN  /\ At(c, "oldest")
      /\ IF Pending(db, i) /\ Oldest(db, i) THEN Continue(c, "accept")
         ELSE Step(c, db, NoCall)
      /\ UNCHANGED <<driver, tx, spent, seen>>

\* Mutant: the update of the batch does not test the status.
StillSent(i) == Sent(db, i)

StillPending(i) == Pending(db, i)

\* The batch of both: when the invite is no longer pending it joins the user
\* who had accepted it, and makes the workspace active for a member of it.
AcceptBatch(c) ==
  LET i == calls[c].invite
      u == calls[c].user
      row == db.invites[i]
  IN  /\ At(c, "accept")
      /\ IF StillPending(i)
         THEN Step(c, Accepted(db, i, u), NoCall) /\ Answer(i, u)
         ELSE /\ IF row.status = "accepted" /\ row.user = u
                 THEN Step(c, Joined(db, i, u), NoCall)
                 ELSE Step(c, IF Member(db, u, row.ws)
                              THEN [db EXCEPT !.active[u] = row.ws] ELSE db,
                           NoCall)
              /\ UNCHANGED seen
      /\ UNCHANGED <<driver, tx, spent>>

-----------------------------------------------------------------------------
\* Roles.  A removal sets the role Null.

StartMember(c, w, u, role) ==
  /\ driver = "local"
  /\ u \in db.users /\ db.owner[w] # Null
  /\ Start(c, [NewCall("member", "begin")
                 EXCEPT !.ws = w, !.user = u, !.role = role])
  /\ Spend

setMemberRole(c, w, u, role) == StartMember(c, w, u, role)

removeMember(c, w, u) == StartMember(c, w, u, Null)

\* upsertMember names the person by an email or by a provider account.
upsertMember(c, w, lookup, role) ==
  /\ Live(db, w)
  /\ Start(c, [NewCall("member", "find") EXCEPT !.ws = w, !.role = role,
                 !.account = lookup.account, !.email = lookup.email])
  /\ Spend

Named(call) ==
  IF call.email # Null THEN {u \in db.users : db.email[u] = call.email}
  ELSE {db.accounts[call.account]} \ {Null}

FindUser(c) ==
  /\ At(c, "find") /\ Kysely(c)
  /\ IF Named(calls[c]) = {} THEN Continue(c, "addUser")
     ELSE \E u \in Named(calls[c]) :
            Step(c, db, [calls[c] EXCEPT !.pc = "readMember", !.user = u])
  /\ UNCHANGED <<driver, tx, spent, seen>>

AddUser(c) ==
  /\ At(c, "addUser") /\ Kysely(c) /\ db.users # Users
  /\ Step(c, WithUser(db, calls[c].email),
          [calls[c] EXCEPT !.user = NewUser(db),
             !.pc = IF calls[c].email = Null THEN "addAccount" ELSE "readMember"])
  /\ UNCHANGED <<driver, tx, spent, seen>>

\* ON CONFLICT DO NOTHING: the call keeps the user it has added.
AddAccount(c) ==
  LET a == calls[c].account
  IN  /\ At(c, "addAccount") /\ Kysely(c)
      /\ Step(c, IF db.accounts[a] = Null
                 THEN [db EXCEPT !.accounts[a] = calls[c].user] ELSE db,
              [calls[c] EXCEPT !.pc = "readMember"])
      /\ UNCHANGED <<driver, tx, spent, seen>>

\* A member changes its role as in setMemberRole, which D1 refuses.
ReadMember(c) ==
  /\ At(c, "readMember") /\ Kysely(c)
  /\ IF ~ Member(db, calls[c].user, calls[c].ws) THEN Continue(c, "addMember")
     ELSE IF driver = "local" THEN Continue(c, "begin")
     ELSE Step(c, db, NoCall)
  /\ UNCHANGED <<driver, tx, spent, seen>>

\* The unique index refuses a second membership.
AddMember(c) ==
  LET call == calls[c]
      row == db.role[call.ws][call.user]
  IN  /\ At(c, "addMember") /\ Kysely(c)
      /\ Step(c, [db EXCEPT !.role[call.ws][call.user] =
                    IF row = Null THEN call.role ELSE row], NoCall)
      /\ UNCHANGED <<driver, tx, spent, seen>>

CheckMember(c) ==
  LET role == db.role[calls[c].ws][calls[c].user]
  IN  /\ At(c, "check")
      /\ \/ role = Null /\ Rollback(c)
         \/ /\ role # Null
            /\ Continue(c, IF role = "owner" /\ calls[c].role # "owner"
                           THEN "owners" ELSE "write")
            /\ UNCHANGED <<driver, tx, spent, seen>>

Owners(d, w) == {u \in Users : d.role[w][u] = "owner"}

\* Cannot demote or remove the last workspace owner.
IsLastOwner(owners) == Cardinality(owners) <= 1

CheckOwners(c) ==
  LET owners == Owners(db, calls[c].ws)
  IN  /\ At(c, "owners")
      /\ \/ IsLastOwner(owners) /\ Rollback(c)
         \/ /\ ~ IsLastOwner(owners)
            /\ Step(c, db, [calls[c] EXCEPT !.pc = "transfer",
                              !.others = owners \ {calls[c].user}])
            /\ UNCHANGED <<driver, tx, spent, seen>>

\* Mutant: the workspace keeps its recorded owner.
KeepOwner(c) ==
  At(c, "transfer") /\ Continue(c, "write")
                    /\ UNCHANGED <<driver, tx, spent, seen>>

\* The recorded owner hands the workspace to another one.
TransferOwner(c) ==
  LET w == calls[c].ws
      next == [calls[c] EXCEPT !.pc = "write"]
  IN  /\ At(c, "transfer")
      /\ IF db.owner[w] = calls[c].user
         THEN \E u \in calls[c].others : Step(c, [db EXCEPT !.owner[w] = u], next)
         ELSE Step(c, db, next)
      /\ UNCHANGED <<driver, tx, spent, seen>>

WriteMember(c) ==
  LET call == calls[c]
  IN  /\ At(c, "write") /\ call.op = "member"
      /\ Step(c, [db EXCEPT !.role[call.ws][call.user] = call.role],
                 [call EXCEPT !.pc = "commit"])
      /\ UNCHANGED <<driver, tx, spent, seen>>

-----------------------------------------------------------------------------
Requests ==
  \/ \E a \in Identities : getOrCreateUser(a)
  \/ \E c \in Callers, u \in Users : \/ BeginSignIn(c, u)
                                     \/ createWorkspace(c, u)
  \/ \E c \in Callers, u \in Users, w \in Workspaces :
       \/ setActiveWorkspace(c, u, w)
       \/ removeWorkspace(c, u, w)
       \/ removeMember(c, w, u)
       \/ \E role \in Granted : setMemberRole(c, w, u, role)
  \/ \E c \in Callers, w \in Workspaces, lookup \in Lookups, role \in Granted :
       upsertMember(c, w, lookup, role)
  \/ \E w \in Workspaces :
       \/ softDeleteWorkspace(w) \/ restoreWorkspace(w) \/ listInvites(w)
       \/ \E i \in Invites, email \in Emails, role \in Granted :
            createInvite(i, w, email, role)
  \/ \E c \in Callers, i \in Invites : revokeInvite(c, i)
  \/ \E a \in Identities, i \in Invites :
       \/ acceptInviteAndProvisionUser(a, i)
       \/ consumeInvite(a, i)
       \/ \E c \in Callers : BeginAcceptInD1(c, a, i) \/ BeginConsumeInD1(c, a, i)

Steps(c) ==
  \/ Begin(c) \/ Commit(c)
  \/ ReadMembership(c) \/ RepairActive(c) \/ InsertWorkspace(c) \/ Activate(c)
  \/ DeleteWorkspace(c) \/ Rehome(c) \/ RemoveInBatch(c)
  \/ Revoke(c) \/ GetUserInD1(c) \/ ReadOldest(c) \/ AcceptBatch(c)
  \/ FindUser(c) \/ AddUser(c) \/ AddAccount(c) \/ ReadMember(c) \/ AddMember(c)
  \/ CheckMember(c) \/ CheckOwners(c) \/ TransferOwner(c) \/ WriteMember(c)

Next ==
  \/ Requests
  \/ \E c \in Callers : Steps(c)
  \/ \E i \in Invites : FallDue(i)
  \/ Crash

Spec == Init /\ [][Next]_vars

-----------------------------------------------------------------------------
\* Type correctness of the tables, the requests in flight and the history.
TypeOK ==
  /\ driver \in Drivers
  /\ db \in Tables
  /\ tx = NoTx \/ tx \in [caller: Callers, saved: Tables]
  /\ calls \in [Callers -> Call \cup {NoCall}]
  /\ spent \in 0..MaxCalls
  /\ seen \in Seen

\* The recorded owner of a workspace (owner_user_id) is one of its owner
\* members, whatever role changes and removals race (setMemberRole,
\* removeMember), unless an owner accepted an invite to a lower role, which
\* no check of the stores prevents.
OwnersKept ==
  tx = NoTx =>
    \A w \in Workspaces \ seen.lowered :
      db.owner[w] # Null => db.owner[w] \in Owners(db, w)

\* An invite lets one person in: of concurrent acceptances of one token one
\* only is answered ok, unless an earlier one was rolled back; and only an
\* acceptance that joined another request's open transaction, as the raw
\* transactions do on the shared connection, can be rolled back after its
\* answer, whatever role change fails or crash comes
\* (acceptInviteAndProvisionUser, consumeInvite).
InviteUsedOnce == seen.twice \subseteq seen.undone /\ seen.undone \subseteq seen.nested

\* Who revoked an invite keeps the invitee out: an invite that was revoked is
\* accepted by nobody, except by a request that ran between the two
\* statements of revokeInvite.
RevocationHolds ==
  \A i \in seen.revoked :
    db.invites[i].user # Null => i \in seen.overlapped

\* The last step of a sign-in whose answer no other request has belied; the
\* batch of D1 puts the user right in any case.
SignInEnds(c) ==
  /\ ~ Idle(c) /\ calls[c].op = "signIn"
  /\ ~ calls[c].overtaken \/ At(c, "batch")
  /\ calls'[c] = NoCall /\ spent' = spent

\* A sign-in creates a workspace, in a transaction or in a D1 batch, with
\* what it has read still true.
SignInCreates(c) ==
  /\ ~ Idle(c) /\ calls[c].op = "signIn" /\ ~ calls[c].overtaken
  /\ \/ At(c, "insert") /\ At(c, "commit")'
     \/ At(c, "batch") /\ Idle(c)' /\ spent' = spent

\* Whatever earlier races left in the pointer to the active workspace, and
\* whatever runs between its statements, a sign-in ends with its user in a
\* live workspace of which the user is a member, and creates one only for a
\* user who has none, unless another request took, gave or moved away from
\* just that workspace since the sign-in read or wrote it
\* (getOrCreateDefaultWorkspace, with either driver).
SignInSettles ==
  [][\A c \in Callers :
       /\ SignInEnds(c) => Settled(db', calls[c].user)
       /\ SignInCreates(c) => Homes(db, calls[c].user) = {}]_vars

\* What acceptInviteAndProvisionUser and consumeInvite answered ok stays
\* done: the invite names the user it was accepted for.
AcceptanceLasts ==
  \A i \in Invites :
    seen.accepted[i] # {} => /\ Sent(db, i)
                             /\ db.invites[i].user \in seen.accepted[i]
=============================================================================
