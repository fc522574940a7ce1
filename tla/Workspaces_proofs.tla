-------------------------- MODULE Workspaces_proofs --------------------------
(***************************************************************************)
(* The recorded owner of a workspace is one of its owners, an invite is    *)
(* used once and not after its revocation, and a sign-in that nobody       *)
(* overtook ends in a workspace of its user, for any number of users,      *)
(* workspaces, invites and concurrent requests, with either driver.        *)
(*                                                                         *)
(* What is promised of the tables is promised of the tables before an open *)
(* transaction as well, because a rollback returns to them.                *)
(***************************************************************************)
EXTENDS Workspaces, FiniteSetTheorems, TLAPS

\* Where a request is inside a Kysely transaction, and where only D1 gets.
InTx == {"check", "owners", "transfer", "write", "rehome", "insert", "commit"}

InD1 == {"batch", "user", "oldest", "accept"}

\* What a request must have found out by the time it is where it is.
Knows(call) ==
  /\ call.pc \in {"find", "addUser", "addAccount", "readMember", "addMember",
                  "check", "owners", "transfer"} => call.op = "member"
  /\ call.pc \in {"membership", "repair"} => call.op = "signIn"
  /\ call.pc = "rehome" => call.op = "remove"
  /\ call.pc = "insert" => call.op \in {"signIn", "create"}
  /\ call.pc = "activate" => call.op = "setActive"
  /\ call.pc = "revoke" => call.op = "revoke"
  /\ call.pc \in {"user", "oldest", "accept"} => call.op = "accept"
  /\ call.pc \in {"begin", "batch"} =>
       call.op \in {"signIn", "create", "remove", "member"}
  /\ call.pc = "batch" => call.op # "member"
  /\ call.op \in {"member", "remove", "setActive"} => call.ws \in Workspaces
  /\ call.pc = "repair" => call.ws \in Workspaces
  /\ call.op \in {"signIn", "create", "setActive"} => call.user \in Users
  /\ (call.op = "member" /\ call.pc \notin {"find", "addUser"})
       => call.user \in Users
  /\ call.pc \in {"oldest", "accept"} => call.user \in Users
  /\ call.op \in {"revoke", "accept"} => call.invite \in Invites
  /\ call.pc \in {"user", "addAccount"} => call.account \in Identities
  /\ call.pc \in {"find", "addUser"} =>
       (call.account = Null) # (call.email = Null)
  /\ call.pc \in {"find", "addUser", "addAccount", "readMember", "addMember"}
       => call.role \in Roles
  /\ call.pc \in {"owners", "transfer"} => call.role # "owner"

\* Where request c may be.
PlacedAt(c, call) ==
  /\ call.pc \in InTx => tx # NoTx /\ tx.caller = c
  /\ call.pc \in InD1 => driver = "d1"
  /\ call.pc = "begin" => driver = "local"
  /\ Knows(call)

\* One transaction is open at a time, and its caller is inside it.
OneTransaction ==
  /\ tx # NoTx => /\ driver = "local"
                  /\ ~ Idle(tx.caller) /\ calls[tx.caller].pc \in InTx
  /\ \A c \in Callers : ~ Idle(c) => PlacedAt(c, calls[c])

\* A pending invite is nobody's, and its workspace exists.
InvitesOK(d) ==
  \A i \in Invites : Sent(d, i) =>
    /\ d.owner[d.invites[i].ws] # Null
    /\ d.invites[i].status = "pending" => d.invites[i].user = Null

\* The recorded owner is one of the owners.
OwnersOK(d) ==
  \A w \in Workspaces \ seen.lowered :
    d.owner[w] # Null => d.owner[w] \in Owners(d, w)

\* An invite that was, or is about to be, revoked.
RevokedOK(d) ==
  /\ \A i \in seen.revoked :
       /\ Sent(d, i) /\ d.invites[i].status # "pending"
       /\ d.invites[i].user # Null => i \in seen.overlapped
  /\ \A c \in Callers : At(c, "revoke") =>
       /\ Sent(d, calls[c].invite)
       /\ d.invites[calls[c].invite].user # Null
            => calls[c].invite \in seen.overlapped

\* Holds of the tables, and of what a rollback goes back to.
TablesOK(d) == InvitesOK(d) /\ OwnersOK(d) /\ RevokedOK(d)

\* In D1 a late batch joins the user of an accepted invite again: that never
\* lowers the recorded owner.
RejoinsOK ==
  driver = "d1" =>
    \A i \in Invites :
      (/\ Sent(db, i) /\ db.invites[i].status = "accepted"
       /\ db.invites[i].role # "owner" /\ db.invites[i].ws \notin seen.lowered)
        => db.owner[db.invites[i].ws] # db.invites[i].user

\* A role change about to be written leaves the recorded owner alone, and the
\* invite of an acceptance is there.
WriteAt(call) ==
  /\ call.ws \notin seen.lowered =>
       /\ call.pc = "transfer" =>
            call.others \subseteq Owners(db, call.ws) \ {call.user}
       /\ (call.pc = "write" /\ call.op = "member" /\ call.role # "owner")
            => db.owner[call.ws] # call.user
  /\ call.pc \in {"user", "oldest", "accept"} => Sent(db, call.invite)

WritesOK == \A c \in Callers : ~ Idle(c) => WriteAt(calls[c])

\* What was answered and not rolled back is in the row.
AnsweredOK ==
  \A i \in Invites \ seen.undone :
    seen.accepted[i] # {} => /\ Sent(db, i)
                             /\ db.invites[i].user \in seen.accepted[i]

\* Who was answered before another on one token was rolled back.
AcceptedOnce == seen.twice \subseteq seen.undone

\* The inductive invariant.
WorkspacesInv ==
  /\ TypeOK
  /\ OneTransaction
  /\ TablesOK(db)
  /\ tx # NoTx => TablesOK(tx.saved)
  /\ RejoinsOK /\ WritesOK /\ AnsweredOK
  /\ AcceptedOnce

-----------------------------------------------------------------------------
(* The tables. *)

\* The columns that the properties are about.
SameCore(d, e) == /\ e.owner = d.owner
                  /\ e.role = d.role
                  /\ e.invites = d.invites

LEMMA TableFields ==
  ASSUME NEW d \in Tables
  PROVE  /\ d.users \in SUBSET Users
         /\ d.active \in [Users -> Workspaces \cup {Null}]
         /\ d.email \in [Users -> Emails \cup {Null}]
         /\ d.accounts \in [Identities -> Users \cup {Null}]
         /\ d.owner \in [Workspaces -> Users \cup {Null}]
         /\ d.deleted \in SUBSET Workspaces
         /\ d.role \in [Workspaces -> [Users -> Roles \cup {Null}]]
         /\ d.invites \in [Invites -> Invite \cup {Null}]
BY DEF Tables

LEMMA SetActive ==
  ASSUME NEW d \in Tables, NEW u \in Users, NEW w \in Workspaces \cup {Null}
  PROVE  /\ [d EXCEPT !.active[u] = w] \in Tables
         /\ SameCore(d, [d EXCEPT !.active[u] = w])
<1>1. [d.active EXCEPT ![u] = w] \in [Users -> Workspaces \cup {Null}]
  BY TableFields
<1>2. QED BY <1>1 DEF Tables, SameCore

LEMMA SetDeleted ==
  ASSUME NEW d \in Tables, NEW ws \in SUBSET Workspaces
  PROVE  /\ [d EXCEPT !.deleted = ws] \in Tables
         /\ SameCore(d, [d EXCEPT !.deleted = ws])
BY DEF Tables, SameCore

LEMMA SetAccount ==
  ASSUME NEW d \in Tables, NEW a \in Identities, NEW u \in Users
  PROVE  /\ [d EXCEPT !.accounts[a] = u] \in Tables
         /\ [d EXCEPT !.accounts[a] = u].accounts[a] = u
         /\ SameCore(d, [d EXCEPT !.accounts[a] = u])
<1>1. /\ [d.accounts EXCEPT ![a] = u] \in [Identities -> Users \cup {Null}]
      /\ [d.accounts EXCEPT ![a] = u][a] = u
  BY TableFields
<1>2. QED BY <1>1 DEF Tables, SameCore

LEMMA WithUserTypes ==
  ASSUME NEW d \in Tables, NEW email \in Emails \cup {Null}, Users # d.users
  PROVE  /\ NewUser(d) \in Users
         /\ WithUser(d, email) \in Tables
         /\ SameCore(d, WithUser(d, email))
<1>1. \E u \in Users : u \notin d.users
  BY TableFields
<1>2. NewUser(d) \in Users
  BY <1>1 DEF NewUser
<1>3. /\ [d.email EXCEPT ![NewUser(d)] = email] \in [Users -> Emails \cup {Null}]
      /\ d.users \cup {NewUser(d)} \in SUBSET Users
  BY <1>2, TableFields
<1>4. QED BY <1>2, <1>3 DEF WithUser, Tables, SameCore

\* The account has a user afterwards.
LEMMA WithAccountTypes ==
  ASSUME NEW d \in Tables, NEW a \in Identities, CanCreateUser(d, a)
  PROVE  /\ WithAccount(d, a) \in Tables
         /\ WithAccount(d, a).accounts[a] \in Users
         /\ SameCore(d, WithAccount(d, a))
<1>1. CASE d.accounts[a] # Null
  <2>1. WithAccount(d, a) = d
    BY <1>1 DEF WithAccount
  <2>2. QED BY <1>1, <2>1, TableFields DEF SameCore
<1>2. CASE d.accounts[a] = Null
  <2>1. Users # d.users /\ EmailOf[a] \in Emails \cup {Null}
    BY <1>2 DEF CanCreateUser, Emails
  <2>2. /\ NewUser(d) \in Users
        /\ WithUser(d, EmailOf[a]) \in Tables
        /\ SameCore(d, WithUser(d, EmailOf[a]))
    BY <2>1, WithUserTypes
  <2>3. WithAccount(d, a) =
          [WithUser(d, EmailOf[a]) EXCEPT !.accounts[a] = NewUser(d)]
    BY <1>2 DEF WithAccount
  <2>4. QED BY <2>2, <2>3, SetAccount DEF SameCore
<1>3. QED BY <1>1, <1>2

LEMMA SetRole ==
  ASSUME NEW d \in Tables, NEW w \in Workspaces, NEW u \in Users,
         NEW role \in Roles \cup {Null}
  PROVE  LET e == [d EXCEPT !.role[w][u] = role]
         IN  /\ e \in Tables
             /\ e.role = [d.role EXCEPT ![w][u] = role]
             /\ e.owner = d.owner /\ e.invites = d.invites
<1>1. [d.role EXCEPT ![w][u] = role]
        \in [Workspaces -> [Users -> Roles \cup {Null}]]
  BY TableFields
<1>2. QED BY <1>1 DEF Tables

-----------------------------------------------------------------------------
(* The requests. *)

\* A request is where it was, and knows what it knew.
Same(c) ==
  /\ Idle(c)' = Idle(c)
  /\ ~ Idle(c) =>
       /\ calls'[c].pc = calls[c].pc
       /\ calls'[c].op = calls[c].op
       /\ calls'[c].user = calls[c].user
       /\ calls'[c].ws = calls[c].ws
       /\ calls'[c].role = calls[c].role
       /\ calls'[c].account = calls[c].account
       /\ calls'[c].email = calls[c].email
       /\ calls'[c].invite = calls[c].invite
       /\ calls'[c].others = calls[c].others

LEMMA CallTypes ==
  ASSUME TypeOK, NEW c \in Callers, ~ Idle(c)
  PROVE  calls[c] \in Call
BY DEF TypeOK, Idle

LEMMA OvertakeTypes ==
  ASSUME TypeOK, NEW d
  PROVE  /\ Overtake(d, calls) \in [Callers -> Call \cup {NoCall}]
         /\ calls' = Overtake(d, calls) => \A c \in Callers : Same(c)
<1>1. ASSUME NEW c \in Callers
      PROVE  \/ Overtake(d, calls)[c] = calls[c]
             \/ /\ ~ Idle(c)
                /\ Overtake(d, calls)[c] = [calls[c] EXCEPT !.overtaken = TRUE]
  BY DEF Overtake, Idle
<1>2. ASSUME NEW c \in Callers, ~ Idle(c)
      PROVE  [calls[c] EXCEPT !.overtaken = TRUE] \in Call
  BY <1>2, CallTypes, ZenonT(60) DEF Call
<1>3. Overtake(d, calls) \in [Callers -> Call \cup {NoCall}]
  <2>1. \A c \in Callers : Overtake(d, calls)[c] \in Call \cup {NoCall}
    BY <1>1, <1>2 DEF TypeOK
  <2>2. Overtake(d, calls) = [c \in Callers |-> Overtake(d, calls)[c]]
    BY DEF Overtake
  <2>3. QED BY <2>1, <2>2
<1>4. ASSUME calls' = Overtake(d, calls), NEW c \in Callers
      PROVE  Same(c)
  <2>1. CASE calls'[c] = calls[c]
    BY <2>1 DEF Same, Idle
  <2>2. CASE ~ Idle(c) /\ calls'[c] = [calls[c] EXCEPT !.overtaken = TRUE]
    <3>1. calls[c] \in Call /\ calls'[c] \in Call
      BY <1>2, <2>2, CallTypes
    <3>2. calls'[c] # NoCall
      BY <3>1, WorkspaceSentinels
    <3>3. QED BY <2>2, <3>1, <3>2 DEF Same, Idle, Call
  <2>3. QED BY <1>1, <1>4, <2>1, <2>2
<1>5. QED BY <1>3, <1>4

LEMMA StepFacts ==
  ASSUME TypeOK, NEW c \in Callers, NEW d, NEW next \in Call \cup {NoCall},
         Step(c, d, next)
  PROVE  /\ db' = d
         /\ calls' \in [Callers -> Call \cup {NoCall}]
         /\ calls'[c] = next
         /\ \A x \in Callers \ {c} : Same(x)
<1> DEFINE cs == Overtake(d, calls)
<1>1. db' = d /\ calls' = [cs EXCEPT ![c] = next]
  BY DEF Step
<1>2. cs \in [Callers -> Call \cup {NoCall}]
  BY OvertakeTypes
<1>3. ASSUME NEW x \in Callers \ {c}
      PROVE  Same(x)
  <2>1. calls'[x] = cs[x]
    BY <1>1, <1>2
  <2>2. \/ cs[x] = calls[x]
        \/ ~ Idle(x) /\ cs[x] = [calls[x] EXCEPT !.overtaken = TRUE]
    BY DEF Overtake, Idle
  <2>3. CASE cs[x] = calls[x]
    BY <2>1, <2>3 DEF Same, Idle
  <2>4. CASE ~ Idle(x) /\ cs[x] = [calls[x] EXCEPT !.overtaken = TRUE]
    <3>1. calls[x] \in Call
      BY <2>4, CallTypes
    <3>2. calls'[x] = [calls[x] EXCEPT !.overtaken = TRUE]
      BY <2>1, <2>4
    <3>3. calls'[x] \in Call
      BY <3>1, <3>2 DEF Call
    <3>4. calls'[x] # NoCall
      BY <3>3, WorkspaceSentinels
    <3>5. QED BY <2>4, <3>1, <3>2, <3>4 DEF Same, Idle, Call
  <2>5. QED BY <2>2, <2>3, <2>4
<1>4. QED BY <1>1, <1>2, <1>3

LEMMA StartIsStep ==
  ASSUME TypeOK, NEW c \in Callers, NEW call, Start(c, call)
  PROVE  Step(c, db, call)
<1>1. Overtake(db, calls) = calls
  <2>1. Overtake(db, calls) = [x \in Callers |-> calls[x]]
    BY DEF Overtake, Belies
  <2>2. QED BY <2>1 DEF TypeOK
<1>2. QED BY <1>1 DEF Start, Step

\* No request starts to revoke.
RevokersKept ==
  \A c \in Callers : At(c, "revoke")' => /\ At(c, "revoke")
                                         /\ calls'[c].invite = calls[c].invite

\* A request that is where it was is still placed.
LEMMA SamePlaced ==
  ASSUME OneTransaction, UNCHANGED <<driver, tx>>, NEW c \in Callers, Same(c)
  PROVE  (~ Idle(c) => PlacedAt(c, calls[c]))'
<1>1. CASE Idle(c)
  BY <1>1 DEF Same
<1>2. CASE ~ Idle(c)
  BY <1>2 DEF Same, OneTransaction, PlacedAt, Knows, Idle
<1>3. QED BY <1>1, <1>2

\* The requests stay placed when all but c are where they were.
LEMMA OneTransactionKept ==
  ASSUME TypeOK, OneTransaction, UNCHANGED <<driver, tx>>,
         \A x \in Callers :
           Same(x) \/ /\ (~ Idle(x) => PlacedAt(x, calls[x]))'
                      /\ (tx # NoTx /\ tx.caller = x)
                           => ~ Idle(x)' /\ calls'[x].pc \in InTx
  PROVE  OneTransaction'
<1>1. ASSUME NEW x \in Callers
      PROVE  (~ Idle(x) => PlacedAt(x, calls[x]))'
  BY <1>1, SamePlaced
<1>2. ASSUME tx # NoTx
      PROVE  ~ Idle(tx.caller)' /\ calls'[tx.caller].pc \in InTx
  <2>1. tx.caller \in Callers
    BY <1>2 DEF TypeOK
  <2>2. ~ Idle(tx.caller) /\ calls[tx.caller].pc \in InTx
    BY <1>2 DEF OneTransaction
  <2>3. QED BY <1>2, <2>1, <2>2 DEF Same
<1>3. QED BY <1>1, <1>2 DEF OneTransaction, Idle

\* What the tables before an open transaction promise does not depend on what
\* happens in it.
LEMMA SavedKept ==
  ASSUME TypeOK, tx # NoTx => TablesOK(tx.saved), UNCHANGED tx, RevokersKept,
         seen.lowered \subseteq seen'.lowered,
         seen.overlapped \subseteq seen'.overlapped,
         tx # NoTx => seen'.revoked = seen.revoked
  PROVE  (tx # NoTx => TablesOK(tx.saved))'
<1> SUFFICES ASSUME tx # NoTx
             PROVE  TablesOK(tx.saved)'
  OBVIOUS
<1>1. InvitesOK(tx.saved)'
  BY DEF TablesOK, InvitesOK, Sent
<1>2. OwnersOK(tx.saved)'
  BY DEF TablesOK, OwnersOK, Owners
<1>3. RevokedOK(tx.saved)'
  BY DEF TablesOK, RevokedOK, Sent, RevokersKept
<1>4. QED BY <1>1, <1>2, <1>3 DEF TablesOK

\* Steps that leave owners, roles and invites alone.
LEMMA PlainKeeps ==
  ASSUME WorkspacesInv, TypeOK', OneTransaction', WritesOK',
         SameCore(db, db'), UNCHANGED <<driver, tx, seen>>, RevokersKept
  PROVE  WorkspacesInv'
<1>1. TablesOK(db)'
  <2>1. InvitesOK(db)' /\ OwnersOK(db)'
    BY DEF WorkspacesInv, TablesOK, InvitesOK, OwnersOK, Owners, Sent, SameCore
  <2>2. RevokedOK(db)'
    BY DEF WorkspacesInv, TablesOK, RevokedOK, Sent, SameCore, RevokersKept
  <2>3. QED BY <2>1, <2>2 DEF TablesOK
<1>2. (tx # NoTx => TablesOK(tx.saved))'
  BY SavedKept DEF WorkspacesInv
<1>3. RejoinsOK' /\ AnsweredOK' /\ AcceptedOnce'
  BY DEF WorkspacesInv, RejoinsOK, AnsweredOK, AcceptedOnce, Sent, SameCore
<1>4. QED BY <1>1, <1>2, <1>3 DEF WorkspacesInv

\* Request c goes on as `next', and touches no owner, role or invite.
LEMMA PlainStep ==
  ASSUME WorkspacesInv, NEW c \in Callers, NEW d \in Tables,
         NEW next \in Call \cup {NoCall}, Step(c, d, next), SameCore(db, d),
         UNCHANGED <<driver, tx, seen>>, spent' \in 0..MaxCalls,
         next # NoCall => /\ PlacedAt(c, next) /\ WriteAt(next)
                          /\ next.pc # "revoke",
         (tx # NoTx /\ tx.caller = c) => next # NoCall /\ next.pc \in InTx
  PROVE  WorkspacesInv'
<1>1. /\ db' = d
      /\ calls' \in [Callers -> Call \cup {NoCall}]
      /\ calls'[c] = next
      /\ \A x \in Callers \ {c} : Same(x)
  BY StepFacts DEF WorkspacesInv
<1>2. TypeOK'
  BY <1>1 DEF WorkspacesInv, TypeOK
<1>3. OneTransaction'
  <2>1. (~ Idle(c) => PlacedAt(c, calls[c]))'
    BY <1>1 DEF PlacedAt, Idle
  <2>2. (tx # NoTx /\ tx.caller = c) => ~ Idle(c)' /\ calls'[c].pc \in InTx
    BY <1>1 DEF Idle
  <2>3. QED BY <1>1, <2>1, <2>2, OneTransactionKept DEF WorkspacesInv
<1>4. WritesOK'
  <2>1. ASSUME NEW x \in Callers, ~ Idle(x)'
        PROVE  WriteAt(calls[x])'
    <3>1. CASE x = c
      BY <1>1, <2>1, <3>1 DEF WriteAt, Owners, Sent, SameCore, Idle
    <3>2. CASE x # c
      <4>1. Same(x) /\ ~ Idle(x)
        BY <1>1, <2>1, <3>2 DEF Same
      <4>2. QED BY <1>1, <4>1
               DEF WorkspacesInv, WritesOK, WriteAt, Owners, Sent, SameCore, Same
    <3>3. QED BY <3>1, <3>2
  <2>2. QED BY <2>1 DEF WritesOK
<1>5. RevokersKept
  BY <1>1 DEF RevokersKept, Same, At, Idle
<1>6. QED BY <1>1, <1>2, <1>3, <1>4, <1>5, PlainKeeps

\* The same for a statement that belongs to no request in flight.
LEMMA PlainStatement ==
  ASSUME WorkspacesInv, db' \in Tables, SameCore(db, db'),
         calls' = Overtake(db', calls),
         UNCHANGED <<driver, tx, seen>>, spent' \in 0..MaxCalls
  PROVE  WorkspacesInv'
<1>1. /\ calls' \in [Callers -> Call \cup {NoCall}]
      /\ \A x \in Callers : Same(x)
  <2>1. PICK d : d = db'
    OBVIOUS
  <2>2. calls' = Overtake(d, calls)
    BY <2>1
  <2>3. QED BY <2>2, OvertakeTypes DEF WorkspacesInv
<1>2. TypeOK'
  BY <1>1 DEF WorkspacesInv, TypeOK
<1>3. OneTransaction'
  BY <1>1, OneTransactionKept DEF WorkspacesInv
<1>4. WritesOK'
  BY <1>1 DEF WorkspacesInv, WritesOK, WriteAt, Owners, Sent, SameCore, Same
<1>5. RevokersKept
  BY <1>1 DEF RevokersKept, Same, At
<1>6. QED BY <1>2, <1>3, <1>4, <1>5, PlainKeeps

LEMMA AtFacts ==
  ASSUME WorkspacesInv, NEW c \in Callers, NEW pc, At(c, pc)
  PROVE  /\ calls[c] \in Call /\ calls[c] # NoCall /\ calls[c].pc = pc
         /\ PlacedAt(c, calls[c]) /\ WriteAt(calls[c])
         /\ (tx # NoTx /\ tx.caller = c) => pc \in InTx
         /\ db \in Tables
<1>1. ~ Idle(c) /\ calls[c].pc = pc
  BY DEF At
<1>2. calls[c] \in Call
  BY <1>1, CallTypes DEF WorkspacesInv
<1>3. QED BY <1>1, <1>2 DEF WorkspacesInv, TypeOK, OneTransaction, WritesOK, Idle

LEMMA SpendTypes ==
  ASSUME TypeOK, Spend \/ UNCHANGED spent
  PROVE  spent' \in 0..MaxCalls
BY WorkspaceConstants DEF TypeOK, Spend

LEMMA StartKeeps ==
  ASSUME WorkspacesInv, NEW c \in Callers, NEW call \in Call, Start(c, call),
         Spend \/ UNCHANGED spent, PlacedAt(c, call), WriteAt(call),
         call.pc # "revoke"
  PROVE  WorkspacesInv'
<1>1. Step(c, db, call) /\ UNCHANGED <<driver, tx, seen>>
  BY StartIsStep DEF WorkspacesInv, Start
<1>2. spent' \in 0..MaxCalls
  BY SpendTypes DEF WorkspacesInv
<1>3. SameCore(db, db) /\ db \in Tables
  BY DEF SameCore, WorkspacesInv, TypeOK
<1>4. ~ (tx # NoTx /\ tx.caller = c)
  BY DEF Start, WorkspacesInv, OneTransaction
<1>5. QED BY <1>1, <1>2, <1>3, <1>4, PlainStep

\* A read: only what the request knows changes.
LEMMA ReadKeeps ==
  ASSUME WorkspacesInv, NEW c \in Callers, NEW next \in Call \cup {NoCall},
         Step(c, db, next), UNCHANGED <<driver, tx, spent, seen>>,
         next # NoCall => /\ PlacedAt(c, next) /\ WriteAt(next)
                          /\ next.pc # "revoke",
         (tx # NoTx /\ tx.caller = c) => next # NoCall /\ next.pc \in InTx
  PROVE  WorkspacesInv'
<1>1. SameCore(db, db) /\ db \in Tables /\ spent' \in 0..MaxCalls
  BY DEF SameCore, WorkspacesInv, TypeOK
<1>2. QED BY <1>1, PlainStep

-----------------------------------------------------------------------------
(* Users and their active workspace. *)

LEMMA HomesTypes ==
  ASSUME NEW d \in Tables, NEW u
  PROVE  Homes(d, u) \subseteq Workspaces
BY DEF Homes

LEMMA GetUserKeeps ==
  ASSUME WorkspacesInv, NEW a \in Identities, getOrCreateUser(a)
  PROVE  WorkspacesInv'
<1>1. /\ db' = WithAccount(db, a) /\ CanCreateUser(db, a)
      /\ calls' = Overtake(db', calls)
      /\ UNCHANGED <<driver, tx, spent, seen>>
  BY DEF getOrCreateUser
<1>2. db \in Tables /\ spent' \in 0..MaxCalls
  BY <1>1 DEF WorkspacesInv, TypeOK
<1>3. db' \in Tables /\ SameCore(db, db')
  BY <1>1, <1>2, WithAccountTypes
<1>4. QED BY <1>1, <1>2, <1>3, PlainStatement

LEMMA SignInKeeps ==
  ASSUME WorkspacesInv, NEW c \in Callers, NEW u \in Users, BeginSignIn(c, u)
  PROVE  WorkspacesInv'
<1> DEFINE call == [NewCall("signIn", "membership") EXCEPT !.user = u]
<1>1. /\ call \in Call /\ call.pc = "membership" /\ call.op = "signIn"
      /\ call.user = u
  BY DEF NewCall, Call
<1>2. Start(c, call) /\ UNCHANGED spent
  BY DEF BeginSignIn
<1> HIDE DEF call
<1>3. PlacedAt(c, call) /\ WriteAt(call)
  BY <1>1 DEF PlacedAt, WriteAt, Knows, InTx, InD1
<1>4. QED BY <1>1, <1>2, <1>3, StartKeeps

LEMMA ReadMembershipKeeps ==
  ASSUME WorkspacesInv, NEW c \in Callers, ReadMembership(c)
  PROVE  WorkspacesInv'
<1>1. At(c, "membership") /\ UNCHANGED <<driver, tx, spent, seen>>
  BY DEF ReadMembership
<1>2. /\ calls[c] \in Call /\ PlacedAt(c, calls[c])
      /\ calls[c].pc = "membership"
      /\ ~ (tx # NoTx /\ tx.caller = c)
      /\ db \in Tables
  BY <1>1, AtFacts DEF InTx
<1>3. ASSUME NEW w \in Homes(db, calls[c].user),
             Step(c, db, [calls[c] EXCEPT !.pc = "repair", !.ws = w])
      PROVE  WorkspacesInv'
  <2> DEFINE next == [calls[c] EXCEPT !.pc = "repair", !.ws = w]
  <2>1. w \in Workspaces
    BY <1>2, <1>3, HomesTypes
  <2>2. next \in Call /\ PlacedAt(c, next) /\ WriteAt(next) /\ next.pc # "revoke"
    BY <1>2, <2>1, ZenonT(60) DEF Call, PlacedAt, WriteAt, Knows, InTx, InD1
  <2> HIDE DEF next
  <2>3. Step(c, db, next)
    BY <1>3 DEF next
  <2>4. QED BY <1>1, <1>2, <2>2, <2>3, ReadKeeps
<1>4. ASSUME Continue(c, IF driver = "d1" THEN "batch" ELSE "begin")
      PROVE  WorkspacesInv'
  <2> DEFINE pc == IF driver = "d1" THEN "batch" ELSE "begin"
             next == [calls[c] EXCEPT !.pc = pc]
  <2>1. driver \in {"local", "d1"}
    BY WorkspaceConstants DEF WorkspacesInv, TypeOK
  <2>2. next \in Call /\ PlacedAt(c, next) /\ WriteAt(next) /\ next.pc # "revoke"
    BY <1>2, <2>1 DEF Call, PlacedAt, WriteAt, Knows, InTx, InD1
  <2>3. Step(c, db, next)
    BY <1>4 DEF Continue
  <2> HIDE DEF next
  <2>4. QED BY <1>1, <1>2, <2>2, <2>3, ReadKeeps
<1>5. QED BY <1>3, <1>4 DEF ReadMembership

\* The active workspace is written, and the request ends.
LEMMA ActivateKeeps ==
  ASSUME WorkspacesInv, NEW c \in Callers, RepairActive(c) \/ Activate(c)
  PROVE  WorkspacesInv'
<1> DEFINE d == [db EXCEPT !.active[calls[c].user] = calls[c].ws]
<1>1. /\ Step(c, d, NoCall) /\ UNCHANGED <<driver, tx, spent, seen>>
      /\ At(c, "repair") \/ At(c, "activate")
  BY DEF RepairActive, Activate
<1>2. /\ calls[c] \in Call /\ PlacedAt(c, calls[c])
      /\ calls[c].pc \in {"repair", "activate"}
      /\ ~ (tx # NoTx /\ tx.caller = c)
      /\ db \in Tables
  BY <1>1, AtFacts DEF InTx
<1>3. calls[c].user \in Users /\ calls[c].ws \in Workspaces
  BY <1>2 DEF PlacedAt, Knows
<1>4. d \in Tables /\ SameCore(db, d)
  BY <1>2, <1>3, SetActive
<1>5. spent' \in 0..MaxCalls
  BY <1>1 DEF WorkspacesInv, TypeOK
<1> HIDE DEF d
<1>6. QED BY <1>1, <1>2, <1>4, <1>5, PlainStep

LEMMA StartsKeep ==
  ASSUME WorkspacesInv, NEW c \in Callers, NEW u \in Users
  PROVE  /\ createWorkspace(c, u) => WorkspacesInv'
         /\ \A w \in Workspaces :
              setActiveWorkspace(c, u, w) \/ removeWorkspace(c, u, w)
                => WorkspacesInv'
<1>1. driver \in {"local", "d1"}
  BY WorkspaceConstants DEF WorkspacesInv, TypeOK
<1> DEFINE pc == IF driver = "d1" THEN "batch" ELSE "begin"
<1>2. ASSUME createWorkspace(c, u)
      PROVE  WorkspacesInv'
  <2> DEFINE call == [NewCall("create", pc) EXCEPT !.user = u]
  <2>1. call \in Call /\ PlacedAt(c, call) /\ WriteAt(call) /\ call.pc # "revoke"
    BY <1>1 DEF NewCall, Call, PlacedAt, WriteAt, Knows, InTx, InD1
  <2>2. Start(c, call) /\ Spend
    BY <1>2 DEF createWorkspace
  <2> HIDE DEF call
  <2>3. QED BY <2>1, <2>2, StartKeeps
<1>3. ASSUME NEW w \in Workspaces, setActiveWorkspace(c, u, w)
      PROVE  WorkspacesInv'
  <2> DEFINE call == [NewCall("setActive", "activate") EXCEPT !.user = u, !.ws = w]
  <2>1. call \in Call /\ PlacedAt(c, call) /\ WriteAt(call) /\ call.pc # "revoke"
    BY DEF NewCall, Call, PlacedAt, WriteAt, Knows, InTx, InD1
  <2>2. Start(c, call) /\ Spend
    BY <1>3 DEF setActiveWorkspace
  <2> HIDE DEF call
  <2>3. QED BY <2>1, <2>2, StartKeeps
<1>4. ASSUME NEW w \in Workspaces, removeWorkspace(c, u, w)
      PROVE  WorkspacesInv'
  <2> DEFINE call == [NewCall("remove", pc) EXCEPT !.user = u, !.ws = w]
  <2>1. call \in Call /\ PlacedAt(c, call) /\ WriteAt(call) /\ call.pc # "revoke"
    BY <1>1 DEF NewCall, Call, PlacedAt, WriteAt, Knows, InTx, InD1
  <2>2. Start(c, call) /\ Spend
    BY <1>4 DEF removeWorkspace
  <2> HIDE DEF call
  <2>3. QED BY <2>1, <2>2, StartKeeps
<1>5. QED BY <1>2, <1>3, <1>4

LEMMA DeleteKeeps ==
  ASSUME WorkspacesInv, NEW c \in Callers, DeleteWorkspace(c)
  PROVE  WorkspacesInv'
<1> DEFINE d == [db EXCEPT !.deleted = @ \cup {calls[c].ws}]
           next == [calls[c] EXCEPT !.pc = "rehome", !.others = In(d, calls[c].ws)]
<1>1. /\ At(c, "write") /\ calls[c].op = "remove"
      /\ Step(c, d, next)
      /\ UNCHANGED <<driver, tx, spent, seen>>
  BY DEF DeleteWorkspace
<1>2. /\ calls[c] \in Call /\ PlacedAt(c, calls[c]) /\ calls[c].pc = "write"
      /\ db \in Tables
  BY <1>1, AtFacts
<1>3. calls[c].ws \in Workspaces
  BY <1>1, <1>2 DEF PlacedAt, Knows
<1>4. db.deleted \cup {calls[c].ws} \in SUBSET Workspaces
  BY <1>2, <1>3, TableFields
<1>5. d \in Tables /\ SameCore(db, d)
  BY <1>2, <1>4, SetDeleted
<1>6. In(d, calls[c].ws) \subseteq Users
  <2> HIDE DEF d
  <2>1. QED BY <1>5, TableFields DEF In
<1>7. next \in Call /\ PlacedAt(c, next) /\ WriteAt(next)
      /\ next.pc = "rehome"
  <2> HIDE DEF d
  <2>1. QED BY <1>1, <1>2, <1>3, <1>6, ZenonT(60)
            DEF Call, PlacedAt, WriteAt, Knows, InTx, InD1
<1>8. spent' \in 0..MaxCalls
  BY <1>1 DEF WorkspacesInv, TypeOK
<1> HIDE DEF d, next
<1>9. QED BY <1>1, <1>2, <1>5, <1>7, <1>8, PlainStep,
          WorkspaceSentinels DEF InTx

LEMMA RehomeKeeps ==
  ASSUME WorkspacesInv, NEW c \in Callers, Rehome(c)
  PROVE  WorkspacesInv'
<1>1. At(c, "rehome") /\ UNCHANGED <<driver, tx, spent, seen>>
  BY DEF Rehome
<1>2. /\ calls[c] \in Call /\ PlacedAt(c, calls[c]) /\ calls[c].pc = "rehome"
      /\ db \in Tables
  BY <1>1, AtFacts
<1>3. calls[c].op = "remove" /\ calls[c].others \subseteq Users
  BY <1>2 DEF PlacedAt, Knows, Call
<1>4. CASE calls[c].others = {}
  <2> DEFINE next == [calls[c] EXCEPT !.pc = "commit"]
  <2>1. next \in Call /\ PlacedAt(c, next) /\ WriteAt(next)
        /\ next.pc = "commit"
    BY <1>2, <1>3 DEF Call, PlacedAt, WriteAt, Knows, InTx, InD1
  <2>2. Step(c, db, next)
    BY <1>4 DEF Rehome, Continue
  <2> HIDE DEF next
  <2>3. QED BY <1>1, <1>2, <2>1, <2>2, ReadKeeps,
            WorkspaceSentinels DEF InTx
<1>5. CASE calls[c].others # {}
  <2>1. PICK u \in calls[c].others :
          \E w \in IF Homes(db, u) = {} THEN {Null} ELSE Homes(db, u) :
            Step(c, [db EXCEPT !.active[u] = w],
                    [calls[c] EXCEPT !.others = @ \ {u}])
    BY <1>5 DEF Rehome
  <2>2. PICK w \in IF Homes(db, u) = {} THEN {Null} ELSE Homes(db, u) :
            Step(c, [db EXCEPT !.active[u] = w],
                    [calls[c] EXCEPT !.others = @ \ {u}])
    BY <2>1
  <2> DEFINE d == [db EXCEPT !.active[u] = w]
             next == [calls[c] EXCEPT !.others = @ \ {u}]
  <2>3. w \in Workspaces \cup {Null} /\ u \in Users
    BY <1>2, <1>3, <2>2, HomesTypes
  <2>4. d \in Tables /\ SameCore(db, d)
    BY <1>2, <2>3, SetActive
  <2>5. next \in Call /\ PlacedAt(c, next) /\ WriteAt(next)
        /\ next.pc = "rehome"
    BY <1>2, <1>3 DEF Call, PlacedAt, WriteAt, Knows, InTx, InD1
  <2>6. spent' \in 0..MaxCalls /\ Step(c, d, next)
    BY <1>1, <2>2 DEF WorkspacesInv, TypeOK
  <2> HIDE DEF d, next
  <2>7. QED BY <1>1, <1>2, <2>4, <2>5, <2>6, PlainStep,
            WorkspaceSentinels DEF InTx
<1>6. QED BY <1>4, <1>5

LEMMA RemoveInBatchKeeps ==
  ASSUME WorkspacesInv, NEW c \in Callers, RemoveInBatch(c)
  PROVE  WorkspacesInv'
<1> DEFINE d == [db EXCEPT !.deleted = @ \cup {calls[c].ws}]
<1>1. PICK active \in [Users -> Workspaces \cup {Null}] :
        Step(c, [d EXCEPT !.active = active], NoCall)
  BY DEF RemoveInBatch
<1> DEFINE e == [d EXCEPT !.active = active]
<1>2. /\ At(c, "batch") /\ calls[c].op = "remove"
      /\ UNCHANGED <<driver, tx, spent, seen>>
  BY DEF RemoveInBatch
<1>3. /\ calls[c] \in Call /\ PlacedAt(c, calls[c]) /\ calls[c].pc = "batch"
      /\ ~ (tx # NoTx /\ tx.caller = c)
      /\ db \in Tables
  BY <1>2, AtFacts DEF InTx
<1>4. db.deleted \cup {calls[c].ws} \in SUBSET Workspaces
  BY <1>2, <1>3, TableFields DEF PlacedAt, Knows
<1>5. d \in Tables /\ SameCore(db, d)
  BY <1>3, <1>4, SetDeleted
<1>6. e \in Tables /\ SameCore(db, e)
  <2> HIDE DEF d
  <2>1. QED BY <1>5 DEF Tables, SameCore
<1>7. spent' \in 0..MaxCalls /\ Step(c, e, NoCall)
  BY <1>1, <1>2 DEF WorkspacesInv, TypeOK
<1> HIDE DEF e
<1>8. QED BY <1>2, <1>3, <1>6, <1>7, PlainStep

LEMMA SoftDeleteKeeps ==
  ASSUME WorkspacesInv, NEW w \in Workspaces,
         softDeleteWorkspace(w) \/ restoreWorkspace(w)
  PROVE  WorkspacesInv'
<1>1. PICK ws \in SUBSET Workspaces :
        Statement([db EXCEPT !.deleted = ws]) /\ UNCHANGED seen
  <2>1. db.deleted \in SUBSET Workspaces
    BY TableFields DEF WorkspacesInv, TypeOK
  <2>2. CASE softDeleteWorkspace(w)
    <3>1. Statement([db EXCEPT !.deleted = db.deleted \cup {w}]) /\ UNCHANGED seen
      BY <2>2 DEF softDeleteWorkspace
    <3>2. QED BY <2>1, <3>1
  <2>3. CASE restoreWorkspace(w)
    <3>1. Statement([db EXCEPT !.deleted = db.deleted \ {w}]) /\ UNCHANGED seen
      BY <2>3 DEF restoreWorkspace
    <3>2. QED BY <2>1, <3>1
  <2>4. QED BY <2>2, <2>3
<1>2. /\ db' = [db EXCEPT !.deleted = ws]
      /\ calls' = Overtake(db', calls)
      /\ UNCHANGED <<driver, tx, seen>> /\ Spend
  BY <1>1 DEF Statement
<1>3. db' \in Tables /\ SameCore(db, db')
  BY <1>2, SetDeleted DEF WorkspacesInv, TypeOK
<1>4. spent' \in 0..MaxCalls
  BY <1>2, SpendTypes DEF WorkspacesInv
<1>5. QED BY <1>2, <1>3, <1>4, PlainStatement

LEMMA BeginAcceptKeeps ==
  ASSUME WorkspacesInv, NEW c \in Callers, NEW a \in Identities,
         NEW i \in Invites, BeginAcceptInD1(c, a, i)
  PROVE  WorkspacesInv'
<1> DEFINE call == [NewCall("accept", "user") EXCEPT !.account = a, !.invite = i]
<1>1. driver = "d1" /\ Start(c, call) /\ Spend /\ Sent(db, i)
  BY DEF BeginAcceptInD1, Valid, Pending
<1>2. call \in Call /\ PlacedAt(c, call) /\ WriteAt(call) /\ call.pc # "revoke"
  BY <1>1 DEF NewCall, Call, PlacedAt, WriteAt, Knows, InTx, InD1
<1> HIDE DEF call
<1>3. QED BY <1>1, <1>2, StartKeeps

LEMMA GetUserInD1Keeps ==
  ASSUME WorkspacesInv, NEW c \in Callers, GetUserInD1(c)
  PROVE  WorkspacesInv'
<1> DEFINE a == calls[c].account
           d == WithAccount(db, a)
           next == [calls[c] EXCEPT !.pc = "accept", !.user = d.accounts[a]]
<1>1. /\ At(c, "user") /\ CanCreateUser(db, a) /\ Step(c, d, next)
      /\ UNCHANGED <<driver, tx, spent, seen>>
  BY DEF GetUserInD1
<1>2. /\ calls[c] \in Call /\ PlacedAt(c, calls[c]) /\ calls[c].pc = "user"
      /\ WriteAt(calls[c])
      /\ ~ (tx # NoTx /\ tx.caller = c)
      /\ db \in Tables
  BY <1>1, AtFacts DEF InTx
<1>3. a \in Identities /\ calls[c].op = "accept"
  BY <1>2 DEF PlacedAt, Knows
<1>4. d \in Tables /\ d.accounts[a] \in Users /\ SameCore(db, d)
  BY <1>1, <1>2, <1>3, WithAccountTypes
<1>5. next \in Call /\ PlacedAt(c, next) /\ WriteAt(next) /\ next.pc # "revoke"
  <2> HIDE DEF d
  <2>1. QED BY <1>2, <1>3, <1>4
            DEF Call, PlacedAt, WriteAt, Knows, InTx, InD1
<1>6. spent' \in 0..MaxCalls
  BY <1>1 DEF WorkspacesInv, TypeOK
<1> HIDE DEF d, next
<1>7. QED BY <1>1, <1>2, <1>4, <1>5, <1>6, PlainStep

LEMMA ReadOldestKeeps ==
  ASSUME WorkspacesInv, NEW c \in Callers, ReadOldest(c)
  PROVE  WorkspacesInv'
<1> DEFINE next == [calls[c] EXCEPT !.pc = "accept"]
<1>1. /\ At(c, "oldest") /\ UNCHANGED <<driver, tx, spent, seen>>
      /\ Step(c, db, next) \/ Step(c, db, NoCall)
  BY DEF ReadOldest, Continue
<1>2. /\ calls[c] \in Call /\ PlacedAt(c, calls[c]) /\ calls[c].pc = "oldest"
      /\ WriteAt(calls[c])
      /\ ~ (tx # NoTx /\ tx.caller = c)
  BY <1>1, AtFacts DEF InTx
<1>3. next \in Call /\ PlacedAt(c, next) /\ WriteAt(next) /\ next.pc # "revoke"
  BY <1>2 DEF Call, PlacedAt, WriteAt, Knows, InTx, InD1
<1> HIDE DEF next
<1>4. QED BY <1>1, <1>2, <1>3, ReadKeeps

-----------------------------------------------------------------------------
(* Role changes, up to their write. *)

LEMMA MemberStartsKeep ==
  ASSUME WorkspacesInv, NEW c \in Callers, NEW w \in Workspaces
  PROVE  /\ \A u \in Users : removeMember(c, w, u) => WorkspacesInv'
         /\ \A u \in Users, role \in Granted :
              setMemberRole(c, w, u, role) => WorkspacesInv'
         /\ \A lookup \in Lookups, role \in Granted :
              upsertMember(c, w, lookup, role) => WorkspacesInv'
<1>1. ASSUME NEW u \in Users, NEW role \in Roles \cup {Null},
             StartMember(c, w, u, role)
      PROVE  WorkspacesInv'
  <2> DEFINE call == [NewCall("member", "begin")
                        EXCEPT !.ws = w, !.user = u, !.role = role]
  <2>1. Start(c, call) /\ Spend /\ driver = "local"
    BY <1>1 DEF StartMember
  <2>2. call \in Call /\ PlacedAt(c, call) /\ WriteAt(call) /\ call.pc # "revoke"
    BY <2>1 DEF NewCall, Call, PlacedAt, WriteAt, Knows, InTx, InD1
  <2> HIDE DEF call
  <2>3. QED BY <2>1, <2>2, StartKeeps
<1>2. ASSUME NEW lookup \in Lookups, NEW role \in Roles,
             upsertMember(c, w, lookup, role)
      PROVE  WorkspacesInv'
  <2> DEFINE call == [NewCall("member", "find") EXCEPT !.ws = w, !.role = role,
                        !.account = lookup.account, !.email = lookup.email]
  <2>1. Start(c, call) /\ Spend
    BY <1>2 DEF upsertMember
  <2>2. /\ lookup.account \in Identities \cup {Null}
        /\ lookup.email \in Emails \cup {Null}
        /\ (lookup.account = Null) # (lookup.email = Null)
    BY WorkspaceConstants
  <2>3. call \in Call /\ call.pc = "find" /\ call.op = "member"
        /\ call.ws = w /\ call.role = role
        /\ call.account = lookup.account /\ call.email = lookup.email
    BY <2>2 DEF NewCall, Call
  <2>4. PlacedAt(c, call) /\ WriteAt(call)
    <3> HIDE DEF call
    <3>1. QED BY <1>2, <2>2, <2>3 DEF PlacedAt, WriteAt, Knows, InTx, InD1
  <2> HIDE DEF call
  <2>5. QED BY <2>1, <2>3, <2>4, StartKeeps
<1>3. Granted \subseteq Roles
  BY WorkspaceConstants
<1>4. QED BY <1>1, <1>2, <1>3 DEF removeMember, setMemberRole

LEMMA FindUserKeeps ==
  ASSUME WorkspacesInv, NEW c \in Callers, FindUser(c)
  PROVE  WorkspacesInv'
<1>1. At(c, "find") /\ UNCHANGED <<driver, tx, spent, seen>>
  BY DEF FindUser
<1>2. /\ calls[c] \in Call /\ PlacedAt(c, calls[c]) /\ calls[c].pc = "find"
      /\ ~ (tx # NoTx /\ tx.caller = c)
      /\ db \in Tables
  BY <1>1, AtFacts DEF InTx
<1>3. CASE Named(calls[c]) = {}
  <2> DEFINE next == [calls[c] EXCEPT !.pc = "addUser"]
  <2>1. Step(c, db, next)
    BY <1>3 DEF FindUser, Continue
  <2>2. next \in Call /\ PlacedAt(c, next) /\ WriteAt(next) /\ next.pc # "revoke"
    BY <1>2 DEF Call, PlacedAt, WriteAt, Knows, InTx, InD1
  <2> HIDE DEF next
  <2>3. QED BY <1>1, <1>2, <2>1, <2>2, ReadKeeps
<1>4. CASE Named(calls[c]) # {}
  <2>1. PICK u \in Named(calls[c]) :
          Step(c, db, [calls[c] EXCEPT !.pc = "readMember", !.user = u])
    BY <1>4 DEF FindUser
  <2> DEFINE next == [calls[c] EXCEPT !.pc = "readMember", !.user = u]
  <2>2. u \in Users
    <3>1. calls[c].email = Null => calls[c].account \in Identities
      BY <1>2 DEF PlacedAt, Knows, Call
    <3>2. QED BY <1>2, <2>1, <3>1, TableFields DEF Named
  <2>3. next \in Call /\ PlacedAt(c, next) /\ WriteAt(next) /\ next.pc # "revoke"
    BY <1>2, <2>2 DEF Call, PlacedAt, WriteAt, Knows, InTx, InD1
  <2> HIDE DEF next
  <2>4. Step(c, db, next)
    BY <2>1 DEF next
  <2>5. QED BY <1>1, <1>2, <2>3, <2>4, ReadKeeps
<1>5. QED BY <1>3, <1>4

LEMMA AddUserKeeps ==
  ASSUME WorkspacesInv, NEW c \in Callers, AddUser(c)
  PROVE  WorkspacesInv'
<1> DEFINE d == WithUser(db, calls[c].email)
           pc == IF calls[c].email = Null THEN "addAccount" ELSE "readMember"
           next == [calls[c] EXCEPT !.user = NewUser(db), !.pc = pc]
<1>1. /\ At(c, "addUser") /\ db.users # Users /\ Step(c, d, next)
      /\ UNCHANGED <<driver, tx, spent, seen>>
  BY DEF AddUser
<1>2. /\ calls[c] \in Call /\ PlacedAt(c, calls[c]) /\ calls[c].pc = "addUser"
      /\ ~ (tx # NoTx /\ tx.caller = c)
      /\ db \in Tables
  BY <1>1, AtFacts DEF InTx
<1>3. calls[c].email \in Emails \cup {Null}
  BY <1>2 DEF Call
<1>4. NewUser(db) \in Users /\ d \in Tables /\ SameCore(db, d)
  BY <1>1, <1>2, <1>3, WithUserTypes
<1>5. next \in Call /\ PlacedAt(c, next) /\ WriteAt(next) /\ next.pc # "revoke"
  <2> HIDE DEF d
  <2>1. QED BY <1>2, <1>4, ZenonT(60) DEF Call, PlacedAt, WriteAt, Knows, InTx, InD1
<1>6. spent' \in 0..MaxCalls
  BY <1>1 DEF WorkspacesInv, TypeOK
<1> HIDE DEF d, next
<1>7. QED BY <1>1, <1>2, <1>4, <1>5, <1>6, PlainStep

LEMMA AddAccountKeeps ==
  ASSUME WorkspacesInv, NEW c \in Callers, AddAccount(c)
  PROVE  WorkspacesInv'
<1> DEFINE a == calls[c].account
           d == IF db.accounts[a] = Null
                THEN [db EXCEPT !.accounts[a] = calls[c].user] ELSE db
           next == [calls[c] EXCEPT !.pc = "readMember"]
<1>1. /\ At(c, "addAccount") /\ Step(c, d, next)
      /\ UNCHANGED <<driver, tx, spent, seen>>
  BY DEF AddAccount
<1>2. /\ calls[c] \in Call /\ PlacedAt(c, calls[c]) /\ calls[c].pc = "addAccount"
      /\ ~ (tx # NoTx /\ tx.caller = c)
      /\ db \in Tables
  BY <1>1, AtFacts DEF InTx
<1>3. a \in Identities /\ calls[c].user \in Users
  BY <1>2 DEF PlacedAt, Knows
<1>4. d \in Tables /\ SameCore(db, d)
  <2>1. SameCore(db, db)
    BY DEF SameCore
  <2>2. QED BY <1>2, <1>3, <2>1, SetAccount
<1>5. next \in Call /\ PlacedAt(c, next) /\ WriteAt(next) /\ next.pc # "revoke"
  BY <1>2, <1>3 DEF Call, PlacedAt, WriteAt, Knows, InTx, InD1
<1>6. spent' \in 0..MaxCalls
  BY <1>1 DEF WorkspacesInv, TypeOK
<1> HIDE DEF d, next
<1>7. QED BY <1>1, <1>2, <1>4, <1>5, <1>6, PlainStep

LEMMA ReadMemberKeeps ==
  ASSUME WorkspacesInv, NEW c \in Callers, ReadMember(c)
  PROVE  WorkspacesInv'
<1>1. At(c, "readMember") /\ UNCHANGED <<driver, tx, spent, seen>>
  BY DEF ReadMember
<1>2. /\ calls[c] \in Call /\ PlacedAt(c, calls[c]) /\ calls[c].pc = "readMember"
      /\ ~ (tx # NoTx /\ tx.caller = c)
  BY <1>1, AtFacts DEF InTx
<1>3. ASSUME NEW pc, pc = "addMember" \/ (pc = "begin" /\ driver = "local"),
             Continue(c, pc)
      PROVE  WorkspacesInv'
  <2> DEFINE next == [calls[c] EXCEPT !.pc = pc]
  <2>1. Step(c, db, next)
    BY <1>3 DEF Continue
  <2>2. next \in Call /\ PlacedAt(c, next) /\ WriteAt(next) /\ next.pc # "revoke"
    BY <1>2, <1>3 DEF Call, PlacedAt, WriteAt, Knows, InTx, InD1
  <2> HIDE DEF next
  <2>3. QED BY <1>1, <1>2, <2>1, <2>2, ReadKeeps
<1>4. CASE Step(c, db, NoCall)
  BY <1>1, <1>2, <1>4, ReadKeeps
<1>5. QED BY <1>3, <1>4 DEF ReadMember

\* A transaction goes on to pc with the same knowledge.
LEMMA ContinueKeeps ==
  ASSUME WorkspacesInv, NEW c \in Callers, NEW next \in Call,
         Step(c, db, next), ~ Idle(c), calls[c].pc \in InTx,
         UNCHANGED <<driver, tx, spent, seen>>,
         PlacedAt(c, next), WriteAt(next), next.pc \in InTx
  PROVE  WorkspacesInv'
<1>1. next.pc # "revoke"
  BY DEF InTx
<1>2. next # NoCall
  BY WorkspaceSentinels
<1>3. QED BY <1>1, <1>2, ReadKeeps

LEMMA CheckMemberKeeps ==
  ASSUME WorkspacesInv, NEW c \in Callers, At(c, "check"),
         Continue(c, IF db.role[calls[c].ws][calls[c].user] = "owner"
                        /\ calls[c].role # "owner"
                     THEN "owners" ELSE "write"),
         UNCHANGED <<driver, tx, spent, seen>>
  PROVE  WorkspacesInv'
<1> DEFINE role == db.role[calls[c].ws][calls[c].user]
           pc == IF role = "owner" /\ calls[c].role # "owner"
                 THEN "owners" ELSE "write"
           next == [calls[c] EXCEPT !.pc = pc]
<1>1. /\ calls[c] \in Call /\ PlacedAt(c, calls[c]) /\ calls[c].pc = "check"
      /\ ~ Idle(c) /\ db \in Tables
  BY AtFacts DEF At
<1>2. /\ calls[c].op = "member"
      /\ calls[c].ws \in Workspaces /\ calls[c].user \in Users
  BY <1>1 DEF PlacedAt, Knows
<1>3. next \in Call /\ PlacedAt(c, next) /\ next.pc \in InTx
  <2>1. pc \in {"owners", "write"}
    OBVIOUS
  <2> HIDE DEF pc
  <2>2. next \in Call /\ next.pc = pc
    BY <1>1, <2>1 DEF Call
  <2>3. next.op = "member" /\ next.ws \in Workspaces /\ next.user \in Users
    BY <1>1, <1>2 DEF Call
  <2>4. next.pc = "owners" => next.role # "owner"
    <3>1. calls[c].role # "owner" \/ pc = "write"
      BY DEF pc
    <3>2. next.role = calls[c].role
      BY <1>1 DEF Call
    <3>3. QED BY <2>2, <3>1, <3>2
  <2> HIDE DEF next
  <2>5. Knows(next)
    BY <2>1, <2>2, <2>3, <2>4 DEF Knows
  <2>6. QED BY <1>1, <2>1, <2>2, <2>5 DEF PlacedAt, InTx, InD1
<1>4. WriteAt(next)
  <2>1. ASSUME calls[c].ws \notin seen.lowered, pc = "write",
               calls[c].role # "owner"
        PROVE  db.owner[calls[c].ws] # calls[c].user
    <3>1. role # "owner"
      BY <2>1
    <3>2. \/ db.owner[calls[c].ws] = Null
          \/ db.owner[calls[c].ws] \in Owners(db, calls[c].ws)
      BY <1>2, <2>1 DEF WorkspacesInv, TablesOK, OwnersOK
    <3>3. QED BY <1>2, <3>1, <3>2, WorkspaceConstants DEF Owners
  <2>2. /\ next.ws = calls[c].ws /\ next.pc = pc /\ next.role = calls[c].role
        /\ next.user = calls[c].user
    BY <1>1 DEF Call
  <2>3. QED BY <2>1, <2>2 DEF WriteAt
<1>5. Step(c, db, next)
  BY DEF Continue
<1> HIDE DEF next
<1>6. QED BY <1>1, <1>3, <1>4, <1>5, ContinueKeeps DEF InTx

LEMMA CheckOwnersKeeps ==
  ASSUME WorkspacesInv, NEW c \in Callers, At(c, "owners"),
         Step(c, db, [calls[c] EXCEPT !.pc = "transfer",
                        !.others = Owners(db, calls[c].ws) \ {calls[c].user}]),
         UNCHANGED <<driver, tx, spent, seen>>
  PROVE  WorkspacesInv'
<1> DEFINE others == Owners(db, calls[c].ws) \ {calls[c].user}
           next == [calls[c] EXCEPT !.pc = "transfer", !.others = others]
<1>1. /\ calls[c] \in Call /\ PlacedAt(c, calls[c]) /\ calls[c].pc = "owners"
      /\ ~ Idle(c)
  BY AtFacts DEF At
<1>2. others \in SUBSET Users
  BY DEF Owners
<1>3. /\ next \in Call /\ PlacedAt(c, next) /\ next.pc \in InTx
      /\ next.ws = calls[c].ws /\ next.user = calls[c].user
      /\ next.others = others /\ next.pc = "transfer"
  <2> HIDE DEF others
  <2>1. /\ next \in Call /\ next.pc = "transfer" /\ next.others = others
        /\ next.op = calls[c].op /\ next.ws = calls[c].ws
        /\ next.user = calls[c].user /\ next.role = calls[c].role
    BY <1>1, <1>2 DEF Call
  <2>2. /\ calls[c].op = "member" /\ calls[c].ws \in Workspaces
        /\ calls[c].user \in Users /\ calls[c].role # "owner"
    BY <1>1 DEF PlacedAt, Knows
  <2> HIDE DEF next
  <2>3. Knows(next)
    BY <2>1, <2>2 DEF Knows
  <2>4. PlacedAt(c, next)
    BY <1>1, <2>1, <2>3 DEF PlacedAt, InTx, InD1
  <2>5. QED BY <2>1, <2>4 DEF InTx
<1>4. WriteAt(next)
  <2> HIDE DEF next
  <2>1. QED BY <1>3 DEF WriteAt
<1> HIDE DEF next
<1>5. Step(c, db, next)
  BY DEF next
<1>6. QED BY <1>1, <1>3, <1>4, <1>5, ContinueKeeps DEF InTx

-----------------------------------------------------------------------------
(* Owners and roles. *)

\* What a step of request c, outside of Begin and Commit, keeps of the others.
LEMMA StepPlaces ==
  ASSUME WorkspacesInv, NEW c \in Callers, NEW d \in Tables,
         NEW next \in Call \cup {NoCall}, Step(c, d, next),
         UNCHANGED <<driver, tx>>, seen' \in Seen, spent' \in 0..MaxCalls,
         next # NoCall => PlacedAt(c, next) /\ next.pc # "revoke",
         (tx # NoTx /\ tx.caller = c) => next # NoCall /\ next.pc \in InTx
  PROVE  /\ TypeOK' /\ OneTransaction' /\ RevokersKept
         /\ db' = d /\ calls'[c] = next
         /\ \A x \in Callers \ {c} : Same(x)
<1>1. /\ db' = d
      /\ calls' \in [Callers -> Call \cup {NoCall}]
      /\ calls'[c] = next
      /\ \A x \in Callers \ {c} : Same(x)
  BY StepFacts DEF WorkspacesInv
<1>2. TypeOK'
  BY <1>1 DEF WorkspacesInv, TypeOK
<1>3. OneTransaction'
  <2>1. (~ Idle(c) => PlacedAt(c, calls[c]))'
    BY <1>1 DEF PlacedAt, Idle
  <2>2. (tx # NoTx /\ tx.caller = c) => ~ Idle(c)' /\ calls'[c].pc \in InTx
    BY <1>1 DEF Idle
  <2>3. QED BY <1>1, <2>1, <2>2, OneTransactionKept DEF WorkspacesInv
<1>4. RevokersKept
  BY <1>1 DEF RevokersKept, Same, At, Idle
<1>5. QED BY <1>1, <1>2, <1>3, <1>4

\* A role change of another request stays right when the recorded owners are
\* the same and no owner is lost, but for those whose role an invite lowered.
LEMMA WriteKept ==
  ASSUME WorkspacesInv, NEW x \in Callers, Same(x), ~ Idle(x),
         db'.owner = db.owner, seen.lowered \subseteq seen'.lowered,
         \A w \in Workspaces \ seen'.lowered :
           Owners(db, w) \subseteq Owners(db', w),
         \A i \in Invites : Sent(db, i) => Sent(db, i)'
  PROVE  WriteAt(calls[x])'
<1>1. WriteAt(calls[x]) /\ PlacedAt(x, calls[x])
  BY DEF WorkspacesInv, WritesOK, OneTransaction
<1>2. /\ calls[x].pc = "transfer" => calls[x].ws \in Workspaces
      /\ calls[x].pc \in {"user", "oldest", "accept"}
           => calls[x].invite \in Invites
  BY <1>1 DEF PlacedAt, Knows
<1>3. /\ calls'[x].pc = calls[x].pc /\ calls'[x].ws = calls[x].ws
      /\ calls'[x].invite = calls[x].invite
      /\ calls'[x].op = calls[x].op /\ calls'[x].role = calls[x].role
      /\ calls'[x].user = calls[x].user /\ calls'[x].others = calls[x].others
  BY DEF Same
<1>4. Owners(db, calls[x].ws)' = Owners(db', calls[x].ws)
  BY <1>3 DEF Owners
<1>5. Sent(db, calls[x].invite)' <=> db'.invites[calls[x].invite] # Null
  BY <1>3 DEF Sent
<1>6. QED BY <1>1, <1>2, <1>3, <1>4, <1>5 DEF WriteAt, Sent

\* ... and when it is not inside a transaction.
LEMMA WriteOutside ==
  ASSUME WorkspacesInv, NEW x \in Callers, Same(x), ~ Idle(x),
         calls[x].pc \notin InTx,
         driver = "local" \/ db'.invites = db.invites
  PROVE  WriteAt(calls[x])'
<1>1. WriteAt(calls[x]) /\ PlacedAt(x, calls[x])
  BY DEF WorkspacesInv, WritesOK, OneTransaction
<1>2. QED BY <1>1 DEF Same, WriteAt, PlacedAt, InTx, InD1, Sent

\* Owners are recorded or added, the invites stay.
LEMMA OwnersKeep ==
  ASSUME WorkspacesInv, TypeOK', OneTransaction', WritesOK', RevokersKept,
         UNCHANGED <<driver, tx, seen>>, db'.invites = db.invites,
         OwnersOK(db)', RejoinsOK',
         \A w \in Workspaces : db.owner[w] # Null => db'.owner[w] # Null
  PROVE  WorkspacesInv'
<1>1. TablesOK(db)'
  <2>1. InvitesOK(db)'
    <3>1. \A i \in Invites : Sent(db, i) => db.invites[i].ws \in Workspaces
      BY TableFields DEF WorkspacesInv, TypeOK, Sent, Invite
    <3>2. QED BY <3>1 DEF WorkspacesInv, TablesOK, InvitesOK, Sent
  <2>2. RevokedOK(db)'
    BY DEF WorkspacesInv, TablesOK, RevokedOK, Sent, RevokersKept
  <2>3. QED BY <2>1, <2>2 DEF TablesOK
<1>2. (tx # NoTx => TablesOK(tx.saved))'
  BY SavedKept DEF WorkspacesInv
<1>3. AnsweredOK' /\ AcceptedOnce'
  BY DEF WorkspacesInv, AnsweredOK, AcceptedOnce, Sent
<1>4. QED BY <1>1, <1>2, <1>3 DEF WorkspacesInv

LEMMA WithWorkspaceTypes ==
  ASSUME NEW d \in Tables, NEW w \in Workspaces, NEW u \in Users
  PROVE  /\ WithWorkspace(d, w, u) \in Tables
         /\ WithWorkspace(d, w, u).owner = [d.owner EXCEPT ![w] = u]
         /\ WithWorkspace(d, w, u).role = [d.role EXCEPT ![w][u] = "owner"]
         /\ WithWorkspace(d, w, u).invites = d.invites
<1>1. /\ [d.owner EXCEPT ![w] = u] \in [Workspaces -> Users \cup {Null}]
      /\ [d.role EXCEPT ![w][u] = "owner"]
           \in [Workspaces -> [Users -> Roles \cup {Null}]]
  BY TableFields DEF Roles
<1>2. QED BY <1>1 DEF WithWorkspace, Tables

LEMMA InsertedTypes ==
  ASSUME WorkspacesInv, NEW c \in Callers, calls[c].user \in Users,
         \E w \in Workspaces : db.owner[w] = Null
  PROVE  LET u == calls[c].user
             w == NewWorkspace(db)
             d == Inserted(c)
         IN  /\ w \in Workspaces /\ db.owner[w] = Null
             /\ d \in Tables
             /\ d.owner = [db.owner EXCEPT ![w] = u]
             /\ d.role = [db.role EXCEPT ![w][u] = "owner"]
             /\ d.invites = db.invites
<1> DEFINE u == calls[c].user
           w == NewWorkspace(db)
           e == WithWorkspace(db, w, u)
<1>1. w \in Workspaces /\ db.owner[w] = Null
  BY DEF NewWorkspace
<1>2. /\ e \in Tables
      /\ e.owner = [db.owner EXCEPT ![w] = u]
      /\ e.role = [db.role EXCEPT ![w][u] = "owner"]
      /\ e.invites = db.invites
  BY <1>1, WithWorkspaceTypes DEF WorkspacesInv, TypeOK
<1>3. Inserted(c) = e \/ Inserted(c) = [e EXCEPT !.active[u] = w]
  BY DEF Inserted
<1> HIDE DEF e, w
<1>4. [e EXCEPT !.active[u] = w] \in Tables
      /\ SameCore(e, [e EXCEPT !.active[u] = w])
  BY <1>1, <1>2, SetActive
<1>5. QED BY <1>1, <1>2, <1>3, <1>4 DEF SameCore, w

LEMMA InsertKeeps ==
  ASSUME WorkspacesInv, NEW c \in Callers, InsertWorkspace(c)
  PROVE  WorkspacesInv'
<1> DEFINE next == IF calls[c].pc = "insert"
                   THEN [calls[c] EXCEPT !.pc = "commit", !.overtaken = FALSE]
                   ELSE NoCall
           u == calls[c].user
           w == NewWorkspace(db)
           d == Inserted(c)
<1>1. /\ UNCHANGED <<driver, tx, spent, seen>>
      /\ \E v \in Workspaces : db.owner[v] = Null
      /\ \/ At(c, "insert")
         \/ At(c, "batch") /\ calls[c].op # "remove"
      /\ Step(c, d, next)
  BY DEF InsertWorkspace, At
<1>2. /\ calls[c] \in Call /\ PlacedAt(c, calls[c]) /\ ~ Idle(c)
      /\ calls[c].pc \in {"insert", "batch"}
      /\ (tx # NoTx /\ tx.caller = c) => calls[c].pc \in InTx
      /\ db \in Tables
  BY <1>1, AtFacts DEF At
<1>3. u \in Users
  BY <1>1, <1>2 DEF PlacedAt, Knows, At
<1>4. /\ w \in Workspaces /\ db.owner[w] = Null
      /\ d \in Tables
      /\ d.owner = [db.owner EXCEPT ![w] = u]
      /\ d.role = [db.role EXCEPT ![w][u] = "owner"]
      /\ d.invites = db.invites
  BY <1>1, <1>3, InsertedTypes
<1>5. /\ next \in Call \cup {NoCall}
      /\ next # NoCall => /\ PlacedAt(c, next) /\ next.pc = "commit"
                          /\ calls[c].pc = "insert"
      /\ (tx # NoTx /\ tx.caller = c) => next # NoCall /\ next.pc \in InTx
  <2>1. CASE calls[c].pc = "insert"
    <3>1. next \in Call /\ PlacedAt(c, next) /\ next.pc = "commit"
      <4> DEFINE moved == [calls[c] EXCEPT !.pc = "commit"]
      <4>1. /\ moved \in Call /\ moved.pc = "commit"
            /\ moved.op = calls[c].op /\ moved.user = calls[c].user
        BY <1>2 DEF Call
      <4>2. next = [moved EXCEPT !.overtaken = FALSE]
        BY <2>1
      <4> HIDE DEF moved, next
      <4>3. /\ next.pc = "commit"
            /\ next.op = calls[c].op /\ next.user = calls[c].user
        BY <4>1, <4>2 DEF Call
      <4>4. next \in Call
        BY <4>1, <4>2, ZenonT(60) DEF Call
      <4>5. Knows(next)
        BY <1>2, <2>1, <4>3 DEF PlacedAt, Knows
      <4>6. PlacedAt(c, next)
        BY <1>2, <2>1, <4>3, <4>5 DEF PlacedAt, InTx, InD1
      <4>7. QED BY <4>3, <4>4, <4>6
    <3>2. QED BY <2>1, <3>1, WorkspaceSentinels DEF InTx
  <2>2. CASE calls[c].pc = "batch"
    BY <1>2, <2>2 DEF InTx
  <2>3. QED BY <1>2, <2>1, <2>2
<1> HIDE DEF next, d, w
<1>6. spent' \in 0..MaxCalls /\ seen' \in Seen
  BY <1>1 DEF WorkspacesInv, TypeOK
<1>7. /\ TypeOK' /\ OneTransaction' /\ RevokersKept
      /\ db' = d /\ calls'[c] = next
      /\ \A x \in Callers \ {c} : Same(x)
  BY <1>1, <1>4, <1>5, <1>6, StepPlaces
<1>8. WritesOK'
  <2>1. ASSUME NEW x \in Callers, ~ Idle(x)'
        PROVE  WriteAt(calls[x])'
    <3>1. CASE x = c
      BY <1>5, <1>7, <2>1, <3>1 DEF WriteAt, Idle
    <3>2. CASE x # c
      <4>1. Same(x) /\ ~ Idle(x)
        BY <1>7, <2>1, <3>2 DEF Same
      <4>2. calls[x].pc \notin InTx
        <5>1. PlacedAt(x, calls[x])
          BY <4>1 DEF WorkspacesInv, OneTransaction
        <5>2. calls[c].pc = "insert" => tx.caller = c
          BY <1>2 DEF PlacedAt, InTx
        <5>3. calls[c].pc = "batch" => tx = NoTx
          BY <1>2 DEF PlacedAt, InD1, WorkspacesInv, OneTransaction
        <5>4. QED BY <1>2, <3>2, <5>1, <5>2, <5>3 DEF PlacedAt
      <4>3. QED BY <1>4, <1>7, <4>1, <4>2, WriteOutside
    <3>3. QED BY <3>1, <3>2
  <2>2. QED BY <2>1 DEF WritesOK
<1>9. OwnersOK(db)'
  <2>1. ASSUME NEW v \in Workspaces, v \notin seen.lowered, d.owner[v] # Null
        PROVE  d.owner[v] \in Users /\ d.role[v][d.owner[v]] = "owner"
    <3>1. CASE v = w
      BY <1>2, <1>3, <1>4, <3>1, TableFields
    <3>2. CASE v # w
      BY <1>2, <1>4, <2>1, <3>2, TableFields
         DEF WorkspacesInv, TablesOK, OwnersOK, Owners
    <3>3. QED BY <3>1, <3>2
  <2>2. QED BY <1>1, <1>7, <2>1 DEF OwnersOK, Owners
<1>10. RejoinsOK'
  <2>1. ASSUME NEW i \in Invites, Sent(db, i)
        PROVE  d.owner[db.invites[i].ws] = db.owner[db.invites[i].ws]
    <3>1. db.invites[i].ws # w
      BY <1>4, <2>1 DEF WorkspacesInv, TablesOK, InvitesOK
    <3>2. QED BY <1>2, <1>4, <3>1, TableFields
  <2>2. RejoinsOK
    BY DEF WorkspacesInv
  <2>3. /\ db'.invites = db.invites /\ driver' = driver /\ seen' = seen
        /\ db' = d
    BY <1>1, <1>4, <1>7
  <2>4. QED BY <2>1, <2>2, <2>3 DEF RejoinsOK, Sent
<1>11. \A v \in Workspaces : db.owner[v] # Null => db'.owner[v] # Null
  BY <1>2, <1>4, <1>7, TableFields
<1>12. QED BY <1>1, <1>4, <1>7, <1>8, <1>9, <1>10, <1>11, OwnersKeep

\* Nobody else is inside the transaction of c.
LEMMA OthersOutside ==
  ASSUME WorkspacesInv, NEW c \in Callers, ~ Idle(c), calls[c].pc \in InTx
  PROVE  /\ driver = "local"
         /\ \A x \in Callers \ {c} : ~ Idle(x) => calls[x].pc \notin InTx
BY DEF WorkspacesInv, OneTransaction, PlacedAt

\* A step of the transaction of c that writes an owner or a role.
LEMMA MemberStep ==
  ASSUME WorkspacesInv, NEW c \in Callers, ~ Idle(c), calls[c].pc \in InTx,
         NEW d \in Tables, NEW next \in Call, Step(c, d, next),
         UNCHANGED <<driver, tx, spent, seen>>, d.invites = db.invites,
         PlacedAt(c, next), next.pc \in InTx,
         \A w \in Workspaces \ seen.lowered :
           d.owner[w] # Null => d.owner[w] \in Owners(d, w),
         \A w \in Workspaces : db.owner[w] # Null => d.owner[w] # Null,
         next.pc # "transfer",
         next.pc = "write" => \/ next.ws \in seen.lowered
                              \/ d.owner[next.ws] # next.user
  PROVE  WorkspacesInv'
<1>1. next # NoCall /\ next.pc # "revoke"
  BY WorkspaceSentinels DEF InTx
<1>2. spent' \in 0..MaxCalls /\ seen' \in Seen
  BY DEF WorkspacesInv, TypeOK
<1>3. /\ TypeOK' /\ OneTransaction' /\ RevokersKept
      /\ db' = d /\ calls'[c] = next
      /\ \A x \in Callers \ {c} : Same(x)
  BY <1>1, <1>2, StepPlaces
<1>4. WritesOK'
  <2>1. ASSUME NEW x \in Callers, ~ Idle(x)'
        PROVE  WriteAt(calls[x])'
    <3>1. CASE x = c
      BY <1>3, <3>1 DEF WriteAt, InTx
    <3>2. CASE x # c
      <4>1. Same(x) /\ ~ Idle(x)
        BY <1>3, <2>1, <3>2 DEF Same
      <4>2. QED BY <3>2, <4>1, OthersOutside, WriteOutside
    <3>3. QED BY <3>1, <3>2
  <2>2. QED BY <2>1 DEF WritesOK
<1>5. OwnersOK(db)'
  BY <1>3 DEF OwnersOK, Owners
<1>6. RejoinsOK'
  BY OthersOutside DEF RejoinsOK
<1>7. QED BY <1>3, <1>4, <1>5, <1>6, OwnersKeep

LEMMA TransferKeeps ==
  ASSUME WorkspacesInv, NEW c \in Callers, TransferOwner(c)
  PROVE  WorkspacesInv'
<1> DEFINE w == calls[c].ws
           next == [calls[c] EXCEPT !.pc = "write"]
<1>1. At(c, "transfer") /\ UNCHANGED <<driver, tx, spent, seen>>
  BY DEF TransferOwner
<1>2. /\ calls[c] \in Call /\ PlacedAt(c, calls[c]) /\ WriteAt(calls[c])
      /\ calls[c].pc = "transfer" /\ ~ Idle(c) /\ calls[c].pc \in InTx
      /\ db \in Tables
  BY <1>1, AtFacts DEF At, InTx
<1>3. /\ calls[c].op = "member" /\ w \in Workspaces
      /\ calls[c].others \subseteq Users
  BY <1>2 DEF PlacedAt, Knows, Call
<1>4. /\ next \in Call /\ PlacedAt(c, next) /\ next.pc = "write"
      /\ next.ws = w /\ next.user = calls[c].user
  BY <1>2, <1>3 DEF Call, PlacedAt, Knows, InTx, InD1
<1>5. next.pc \in InTx /\ next.pc # "transfer"
  BY <1>4 DEF InTx
<1>6. OwnersOK(db)
  BY DEF WorkspacesInv, TablesOK
<1> HIDE DEF next
<1>7. CASE db.owner[w] = calls[c].user
  <2>1. PICK u \in calls[c].others : Step(c, [db EXCEPT !.owner[w] = u], next)
    BY <1>7 DEF TransferOwner, next
  <2> DEFINE d == [db EXCEPT !.owner[w] = u]
  <2>2. u \in Users /\ u # Null
    BY <1>3, WorkspaceConstants
  <2>3. /\ d.owner = [db.owner EXCEPT ![w] = u]
        /\ d.role = db.role /\ d.invites = db.invites
        /\ d \in Tables
    <3>1. [db.owner EXCEPT ![w] = u] \in [Workspaces -> Users \cup {Null}]
      BY <1>2, <1>3, <2>2, TableFields
    <3>2. QED BY <1>2, <3>1 DEF Tables
  <2> HIDE DEF d
  <2>4. /\ d.owner[w] = u
        /\ \A v \in Workspaces \ {w} : d.owner[v] = db.owner[v]
    BY <1>2, <1>3, <2>3, TableFields
  <2>5. w \notin seen.lowered => u \in Owners(db, w) \ {calls[c].user}
    BY <1>2 DEF WriteAt
  <2>6. ASSUME NEW v \in Workspaces \ seen.lowered, d.owner[v] # Null
        PROVE  d.owner[v] \in Owners(d, v)
    BY <1>6, <2>3, <2>4, <2>5, <2>6 DEF OwnersOK, Owners
  <2>7. \A v \in Workspaces : db.owner[v] # Null => d.owner[v] # Null
    BY <2>2, <2>4
  <2>8. next.ws \in seen.lowered \/ d.owner[next.ws] # next.user
    BY <1>4, <2>4, <2>5
  <2>9. Step(c, d, next)
    BY <2>1 DEF d
  <2>10. QED BY <1>1, <1>2, <1>4, <1>5, <2>3, <2>6, <2>7, <2>8, <2>9, MemberStep
<1>8. CASE db.owner[w] # calls[c].user
  <2>1. Step(c, db, next)
    BY <1>8 DEF TransferOwner, next
  <2>2. \A v \in Workspaces \ seen.lowered :
          db.owner[v] # Null => db.owner[v] \in Owners(db, v)
    BY <1>6 DEF OwnersOK
  <2>3. QED BY <1>1, <1>2, <1>4, <1>5, <1>8, <2>1, <2>2, MemberStep
<1>9. QED BY <1>7, <1>8

LEMMA WriteMemberKeeps ==
  ASSUME WorkspacesInv, NEW c \in Callers, WriteMember(c)
  PROVE  WorkspacesInv'
<1> DEFINE w == calls[c].ws
           u == calls[c].user
           r == calls[c].role
           d == [db EXCEPT !.role[w][u] = r]
           next == [calls[c] EXCEPT !.pc = "commit"]
<1>1. /\ At(c, "write") /\ calls[c].op = "member" /\ Step(c, d, next)
      /\ UNCHANGED <<driver, tx, spent, seen>>
  BY DEF WriteMember
<1>2. /\ calls[c] \in Call /\ PlacedAt(c, calls[c]) /\ WriteAt(calls[c])
      /\ calls[c].pc = "write" /\ ~ Idle(c) /\ calls[c].pc \in InTx
      /\ db \in Tables
  BY <1>1, AtFacts DEF At, InTx
<1>3. w \in Workspaces /\ u \in Users /\ r \in Roles \cup {Null}
  BY <1>1, <1>2 DEF PlacedAt, Knows, Call
<1>4. /\ d \in Tables
      /\ d.role = [db.role EXCEPT ![w][u] = r]
      /\ d.owner = db.owner /\ d.invites = db.invites
  <2>1. db \in Tables /\ w \in Workspaces /\ u \in Users /\ r \in Roles \cup {Null}
    BY <1>2, <1>3
  <2> HIDE DEF w, u, r
  <2>2. QED BY <2>1, SetRole
<1>5. next \in Call /\ PlacedAt(c, next) /\ next.pc = "commit"
  BY <1>1, <1>2, <1>3 DEF Call, PlacedAt, Knows, InTx, InD1
<1>6. next.pc \in InTx /\ next.pc # "transfer" /\ next.pc # "write"
  BY <1>5 DEF InTx
<1> HIDE DEF d, next
<1>7. ASSUME NEW v \in Workspaces \ seen.lowered, d.owner[v] # Null
      PROVE  d.owner[v] \in Owners(d, v)
  <2>1. db.owner[v] \in Owners(db, v) /\ db.owner[v] \in Users
    BY <1>4, <1>7 DEF WorkspacesInv, TablesOK, OwnersOK, Owners
  <2>2. db.role[v][db.owner[v]] = "owner"
    BY <2>1 DEF Owners
  <2>3. v = w /\ db.owner[v] = u => r = "owner"
    BY <1>1, <1>2, <1>7 DEF WriteAt
  <2>4. d.role[v][db.owner[v]] = "owner"
    BY <1>2, <1>3, <1>4, <2>1, <2>2, <2>3, TableFields
  <2>5. QED BY <1>4, <2>1, <2>4 DEF Owners
<1>8. \A v \in Workspaces : db.owner[v] # Null => d.owner[v] # Null
  BY <1>4
<1>9. QED BY <1>1, <1>2, <1>4, <1>5, <1>6, <1>7, <1>8, MemberStep

LEMMA AddMemberKeeps ==
  ASSUME WorkspacesInv, NEW c \in Callers, AddMember(c)
  PROVE  WorkspacesInv'
<1> DEFINE w == calls[c].ws
           u == calls[c].user
           row == db.role[w][u]
           r == IF row = Null THEN calls[c].role ELSE row
           d == [db EXCEPT !.role[w][u] = r]
<1>1. /\ At(c, "addMember") /\ Step(c, d, NoCall)
      /\ UNCHANGED <<driver, tx, spent, seen>>
  BY DEF AddMember
<1>2. /\ calls[c] \in Call /\ PlacedAt(c, calls[c])
      /\ calls[c].pc = "addMember" /\ ~ Idle(c)
      /\ ~ (tx # NoTx /\ tx.caller = c)
      /\ db \in Tables
  BY <1>1, AtFacts DEF At, InTx
<1>3. /\ w \in Workspaces /\ u \in Users
      /\ row \in Roles \cup {Null} /\ r \in Roles \cup {Null}
  BY <1>2, TableFields DEF PlacedAt, Knows
<1>4. /\ d \in Tables
      /\ d.role = [db.role EXCEPT ![w][u] = r]
      /\ d.owner = db.owner /\ d.invites = db.invites
  BY <1>2, <1>3, SetRole
<1>5. spent' \in 0..MaxCalls /\ seen' \in Seen
  BY <1>1 DEF WorkspacesInv, TypeOK
<1> HIDE DEF d
<1>6. /\ TypeOK' /\ OneTransaction' /\ RevokersKept
      /\ db' = d /\ calls'[c] = NoCall
      /\ \A x \in Callers \ {c} : Same(x)
  BY <1>1, <1>2, <1>4, <1>5, StepPlaces
<1>7. \A v \in Workspaces : Owners(db, v) \subseteq Owners(d, v)
  <2>1. ASSUME NEW v \in Workspaces, NEW x \in Users, db.role[v][x] = "owner"
        PROVE  d.role[v][x] = "owner"
    <3>1. v = w /\ x = u => r = "owner"
      BY <2>1, WorkspaceConstants DEF Roles
    <3>2. QED BY <1>2, <1>3, <1>4, <2>1, <3>1, TableFields
  <2>2. QED BY <2>1 DEF Owners
<1>8. WritesOK'
  <2>1. ASSUME NEW x \in Callers, ~ Idle(x)'
        PROVE  WriteAt(calls[x])'
    <3>1. x # c
      BY <1>6, <2>1 DEF Idle
    <3>2. Same(x) /\ ~ Idle(x)
      BY <1>6, <2>1, <3>1 DEF Same
    <3>3. \A i \in Invites : Sent(db, i) => Sent(db, i)'
      BY <1>4, <1>6 DEF Sent
    <3>4. QED BY <1>1, <1>4, <1>6, <1>7, <3>2, <3>3, WriteKept
  <2>2. QED BY <2>1 DEF WritesOK
<1>9. OwnersOK(db)'
  <2>1. OwnersOK(db)
    BY DEF WorkspacesInv, TablesOK
  <2>2. \A v \in Workspaces : Owners(db, v)' = Owners(d, v)
    BY <1>6 DEF Owners
  <2>3. QED BY <1>1, <1>4, <1>6, <1>7, <2>1, <2>2 DEF OwnersOK
<1>10. RejoinsOK'
  <2>1. RejoinsOK
    BY DEF WorkspacesInv
  <2>2. QED BY <1>1, <1>4, <1>6, <2>1 DEF RejoinsOK, Sent
<1>11. \A v \in Workspaces : db.owner[v] # Null => db'.owner[v] # Null
  BY <1>4, <1>6
<1>12. QED BY <1>1, <1>4, <1>6, <1>8, <1>9, <1>10, <1>11, OwnersKeep

-----------------------------------------------------------------------------
(* Transactions. *)

LEMMA BeginKeeps ==
  ASSUME WorkspacesInv, NEW c \in Callers, Begin(c)
  PROVE  WorkspacesInv'
<1> DEFINE pc == FirstStep(calls[c].op)
           next == [calls[c] EXCEPT !.pc = pc]
<1>1. /\ At(c, "begin") /\ tx = NoTx
      /\ tx' = [caller |-> c, saved |-> db]
      /\ Step(c, db, next)
      /\ UNCHANGED <<driver, spent, seen>>
  BY DEF Begin, Continue
<1>2. /\ calls[c] \in Call /\ PlacedAt(c, calls[c])
      /\ calls[c].pc = "begin" /\ ~ Idle(c) /\ db \in Tables
  BY <1>1, AtFacts DEF At
<1>3. /\ calls[c].op \in {"signIn", "create", "remove", "member"}
      /\ driver = "local"
  BY <1>2 DEF PlacedAt, Knows
<1>4. /\ next \in Call /\ next.pc \in InTx /\ Knows(next)
      /\ next.pc = pc /\ next.op = calls[c].op
  <2>1. /\ pc \in {"check", "write", "insert"}
        /\ pc = "check" => calls[c].op = "member"
        /\ pc = "write" => calls[c].op = "remove"
        /\ pc = "insert" => calls[c].op \in {"signIn", "create"}
    BY <1>3 DEF FirstStep
  <2> HIDE DEF pc
  <2>2. QED BY <1>2, <1>3, <2>1 DEF Call, PlacedAt, Knows, InTx
<1>5. next.pc = "write" => next.op # "member"
  BY <1>3, <1>4 DEF FirstStep
<1>6. next.pc # "transfer"
  BY <1>3, <1>4 DEF FirstStep
<1> HIDE DEF next, pc
<1>7. /\ db' = db
      /\ calls' \in [Callers -> Call \cup {NoCall}]
      /\ calls'[c] = next
      /\ \A x \in Callers \ {c} : Same(x)
  BY <1>1, <1>4, StepFacts DEF WorkspacesInv
<1>8. /\ tx' # NoTx /\ tx' \in [caller: Callers, saved: Tables]
      /\ tx'.caller = c /\ tx'.saved = db
  BY <1>1, <1>2, WorkspaceSentinels
<1>9. TypeOK'
  BY <1>1, <1>7, <1>8 DEF WorkspacesInv, TypeOK
<1>10. next # NoCall /\ next.pc # "begin" /\ next.pc \notin InD1
       /\ next.pc # "revoke"
  BY <1>4, WorkspaceSentinels DEF InTx, InD1
<1>11. OneTransaction'
  <2>1. ASSUME NEW x \in Callers, ~ Idle(x)'
        PROVE  PlacedAt(x, calls[x])'
    <3>1. CASE x = c
      BY <1>1, <1>3, <1>4, <1>7, <1>8, <1>10, <3>1 DEF PlacedAt
    <3>2. CASE x # c
      <4>1. Same(x) /\ ~ Idle(x)
        BY <1>7, <2>1, <3>2 DEF Same
      <4>2. PlacedAt(x, calls[x]) /\ calls[x].pc \notin InTx
        BY <1>1, <4>1 DEF WorkspacesInv, OneTransaction, PlacedAt
      <4>3. QED BY <1>1, <4>1, <4>2 DEF Same, PlacedAt, Knows
    <3>3. QED BY <3>1, <3>2
  <2>2. QED BY <1>1, <1>3, <1>4, <1>7, <1>8, <1>10, <2>1
            DEF OneTransaction, Idle
<1>12. WritesOK'
  <2>1. ASSUME NEW x \in Callers, ~ Idle(x)'
        PROVE  WriteAt(calls[x])'
    <3>1. CASE x = c
      BY <1>5, <1>6, <1>7, <1>10, <3>1 DEF WriteAt, InD1
    <3>2. CASE x # c
      <4>1. Same(x) /\ ~ Idle(x)
        BY <1>7, <2>1, <3>2 DEF Same
      <4>2. QED BY <1>1, <1>7, <4>1, WriteKept
    <3>3. QED BY <3>1, <3>2
  <2>2. QED BY <2>1 DEF WritesOK
<1>13. RevokersKept
  BY <1>7, <1>10 DEF RevokersKept, Same, At, Idle
<1>14. TablesOK(db)'
  BY <1>1, <1>7, <1>13
     DEF WorkspacesInv, TablesOK, InvitesOK, OwnersOK, Owners, RevokedOK, Sent,
         RevokersKept
<1>15. (tx # NoTx => TablesOK(tx.saved))'
  BY <1>7, <1>8, <1>14
     DEF TablesOK, InvitesOK, OwnersOK, Owners, RevokedOK, Sent
<1>16. RejoinsOK' /\ AnsweredOK' /\ AcceptedOnce'
  BY <1>1, <1>7 DEF WorkspacesInv, RejoinsOK, AnsweredOK, AcceptedOnce, Sent
<1>17. QED BY <1>9, <1>11, <1>12, <1>14, <1>15, <1>16 DEF WorkspacesInv

\* The requests that are outside the transaction that ends stay as they were.
LEMMA TransactionEnds ==
  ASSUME WorkspacesInv, NEW c \in Callers, tx' = NoTx, UNCHANGED driver,
         driver = "local",
         \A x \in Callers \ {c} : ~ Idle(x) => calls[x].pc \notin InTx,
         calls'[c] = NoCall, \A x \in Callers \ {c} : Same(x)
  PROVE  OneTransaction' /\ WritesOK' /\ RevokersKept
<1>1. ASSUME NEW x \in Callers, ~ Idle(x)'
      PROVE  /\ x # c /\ Same(x) /\ ~ Idle(x)
             /\ calls[x].pc \notin InTx /\ PlacedAt(x, calls[x])
  <2>1. x # c
    BY <1>1 DEF Idle
  <2>2. Same(x) /\ ~ Idle(x)
    BY <1>1, <2>1 DEF Same
  <2>3. QED BY <2>1, <2>2 DEF WorkspacesInv, OneTransaction
<1>2. ASSUME NEW x \in Callers, ~ Idle(x)'
      PROVE  PlacedAt(x, calls[x])' /\ WriteAt(calls[x])'
  <2>1. PlacedAt(x, calls[x])'
    BY <1>1, <1>2 DEF Same, PlacedAt, Knows
  <2>2. QED BY <1>1, <1>2, <2>1, WriteOutside
<1>3. RevokersKept
  BY <1>1 DEF RevokersKept, At, Same
<1>4. QED BY <1>2, <1>3 DEF OneTransaction, WritesOK

LEMMA CommitKeeps ==
  ASSUME WorkspacesInv, NEW c \in Callers, Commit(c)
  PROVE  WorkspacesInv'
<1>1. /\ At(c, "commit") /\ tx' = NoTx
      /\ calls' = [calls EXCEPT ![c] = NoCall]
      /\ UNCHANGED <<driver, db, spent, seen>>
  BY DEF Commit
<1>2. ~ Idle(c) /\ calls[c].pc \in InTx
  BY <1>1 DEF At, InTx
<1>3. driver = "local" /\ \A x \in Callers \ {c} : ~ Idle(x) => calls[x].pc \notin InTx
  BY <1>2, OthersOutside
<1>4. /\ calls' \in [Callers -> Call \cup {NoCall}]
      /\ calls'[c] = NoCall
      /\ \A x \in Callers \ {c} : Same(x)
  BY <1>1 DEF WorkspacesInv, TypeOK, Same, Idle
<1>5. OneTransaction' /\ WritesOK' /\ RevokersKept
  BY <1>1, <1>3, <1>4, TransactionEnds
<1>6. TypeOK'
  BY <1>1, <1>4 DEF WorkspacesInv, TypeOK
<1>7. TablesOK(db)'
  BY <1>1, <1>5
     DEF WorkspacesInv, TablesOK, InvitesOK, OwnersOK, Owners, RevokedOK, Sent,
         RevokersKept
<1>8. RejoinsOK' /\ AnsweredOK' /\ AcceptedOnce'
  BY <1>1 DEF WorkspacesInv, RejoinsOK, AnsweredOK, AcceptedOnce, Sent
<1>9. QED BY <1>1, <1>5, <1>6, <1>7, <1>8 DEF WorkspacesInv

\* The acceptances that going back to d undoes are recorded.
LEMMA UndoneRecorded ==
  ASSUME TypeOK, AcceptedOnce, NEW d, db' = d,
         seen' = [seen EXCEPT !.undone = @ \cup Undone(d)]
  PROVE  /\ seen' \in Seen /\ AnsweredOK' /\ AcceptedOnce'
         /\ seen'.lowered = seen.lowered /\ seen'.revoked = seen.revoked
         /\ seen'.overlapped = seen.overlapped
<1>1. Undone(d) \subseteq Invites
  BY DEF Undone
<1>2. /\ seen' \in Seen
      /\ seen'.undone = seen.undone \cup Undone(d)
      /\ seen'.accepted = seen.accepted /\ seen'.twice = seen.twice
      /\ seen'.lowered = seen.lowered /\ seen'.revoked = seen.revoked
      /\ seen'.overlapped = seen.overlapped
  BY <1>1 DEF TypeOK, Seen
<1>3. AnsweredOK'
  BY <1>2 DEF AnsweredOK, Undone, Sent
<1>4. AcceptedOnce'
  BY <1>2 DEF AcceptedOnce
<1>5. QED BY <1>2, <1>3, <1>4

LEMMA RollbackKeeps ==
  ASSUME WorkspacesInv, NEW c \in Callers, ~ Idle(c), calls[c].pc \in InTx,
         Rollback(c)
  PROVE  WorkspacesInv'
<1> DEFINE d == tx.saved
<1>1. /\ Step(c, d, NoCall) /\ tx' = NoTx
      /\ seen' = [seen EXCEPT !.undone = @ \cup Undone(d)]
      /\ UNCHANGED <<driver, spent>>
  BY DEF Rollback
<1>2. tx # NoTx /\ TablesOK(d) /\ d \in Tables
  BY DEF WorkspacesInv, OneTransaction, PlacedAt, TypeOK
<1>3. driver = "local" /\ \A x \in Callers \ {c} : ~ Idle(x) => calls[x].pc \notin InTx
  BY OthersOutside
<1> HIDE DEF d
<1>4. /\ db' = d
      /\ calls' \in [Callers -> Call \cup {NoCall}]
      /\ calls'[c] = NoCall
      /\ \A x \in Callers \ {c} : Same(x)
  BY <1>1, StepFacts DEF WorkspacesInv
<1>5. OneTransaction' /\ WritesOK' /\ RevokersKept
  BY <1>1, <1>3, <1>4, TransactionEnds
<1>6. /\ seen' \in Seen /\ AnsweredOK' /\ AcceptedOnce'
      /\ seen'.lowered = seen.lowered /\ seen'.revoked = seen.revoked
      /\ seen'.overlapped = seen.overlapped
  BY <1>1, <1>4, UndoneRecorded DEF WorkspacesInv
<1>7. TypeOK'
  BY <1>1, <1>2, <1>4, <1>6 DEF WorkspacesInv, TypeOK
<1>8. TablesOK(db)'
  BY <1>2, <1>4, <1>5, <1>6
     DEF TablesOK, InvitesOK, OwnersOK, Owners, RevokedOK, Sent, RevokersKept
<1>9. RejoinsOK'
  BY <1>1, <1>3 DEF RejoinsOK
<1>10. QED BY <1>1, <1>5, <1>6, <1>7, <1>8, <1>9 DEF WorkspacesInv

LEMMA CheckMemberStep ==
  ASSUME WorkspacesInv, NEW c \in Callers, CheckMember(c) \/ CheckOwners(c)
  PROVE  WorkspacesInv'
<1>1. ASSUME At(c, "check") \/ At(c, "owners"), Rollback(c)
      PROVE  WorkspacesInv'
  BY <1>1, RollbackKeeps DEF At, InTx
<1>2. CASE CheckMember(c)
  BY <1>1, <1>2, CheckMemberKeeps DEF CheckMember
<1>3. CASE CheckOwners(c)
  BY <1>1, <1>3, CheckOwnersKeeps DEF CheckOwners
<1>4. QED BY <1>2, <1>3

LEMMA CrashKeeps ==
  ASSUME WorkspacesInv, Crash
  PROVE  WorkspacesInv'
<1> DEFINE d == IF tx = NoTx THEN db ELSE tx.saved
<1>1. /\ Spend /\ db' = d /\ tx' = NoTx
      /\ calls' = [c \in Callers |-> NoCall]
      /\ seen' = [seen EXCEPT !.undone = @ \cup Undone(d)]
      /\ UNCHANGED driver
  BY DEF Crash
<1>2. TablesOK(d) /\ d \in Tables
  BY DEF WorkspacesInv, TypeOK
<1>3. spent' \in 0..MaxCalls
  BY <1>1, SpendTypes DEF WorkspacesInv
<1>4. RejoinsOK'
  <2>1. CASE tx = NoTx
    BY <1>1, <2>1 DEF WorkspacesInv, RejoinsOK, Sent
  <2>2. CASE tx # NoTx
    BY <1>1, <2>2 DEF WorkspacesInv, OneTransaction, RejoinsOK
  <2>3. QED BY <2>1, <2>2
<1> HIDE DEF d
<1>5. /\ seen' \in Seen /\ AnsweredOK' /\ AcceptedOnce'
      /\ seen'.lowered = seen.lowered /\ seen'.revoked = seen.revoked
      /\ seen'.overlapped = seen.overlapped
  BY <1>1, UndoneRecorded DEF WorkspacesInv
<1>6. TypeOK'
  BY <1>1, <1>2, <1>3, <1>5 DEF WorkspacesInv, TypeOK
<1>7. \A c \in Callers : Idle(c)'
  BY <1>1 DEF Idle
<1>8. OneTransaction' /\ WritesOK'
  BY <1>1, <1>7 DEF OneTransaction, WritesOK
<1>9. TablesOK(db)'
  BY <1>1, <1>2, <1>5, <1>7
     DEF TablesOK, InvitesOK, OwnersOK, Owners, RevokedOK, Sent, At
<1>10. QED BY <1>1, <1>4, <1>5, <1>6, <1>8, <1>9 DEF WorkspacesInv

-----------------------------------------------------------------------------
(* Invites. *)

\* Invites are sent, or expire; nothing else changes.
InvitesMove(d, e) ==
  /\ e.owner = d.owner /\ e.role = d.role
  /\ \A i \in Invites :
       LET old == d.invites[i]
           new == e.invites[i]
       IN  \/ new = old
           \/ /\ old # Null /\ new # Null
              /\ new.ws = old.ws /\ new.role = old.role /\ new.user = old.user
              /\ \/ new.status = old.status
                 \/ old.status = "pending" /\ new.status = "expired"
           \/ /\ old = Null /\ new # Null
              /\ new.status = "pending" /\ new.user = Null
              /\ d.owner[new.ws] # Null

LEMMA MoveFacts ==
  ASSUME NEW d, NEW e, InvitesMove(d, e)
  PROVE  /\ InvitesOK(d) => InvitesOK(e)
         /\ \A i \in Invites : Sent(d, i) =>
              /\ Sent(e, i)
              /\ e.invites[i].user = d.invites[i].user
              /\ e.invites[i].ws = d.invites[i].ws
              /\ e.invites[i].role = d.invites[i].role
              /\ e.invites[i].status # d.invites[i].status
                   => /\ d.invites[i].status = "pending"
                      /\ e.invites[i].status = "expired"
         /\ \A i \in Invites : Sent(e, i) /\ ~ Sent(d, i) =>
              e.invites[i].status = "pending"
<1>1. ASSUME NEW i \in Invites, Sent(d, i)
      PROVE  /\ Sent(e, i)
             /\ e.invites[i].user = d.invites[i].user
             /\ e.invites[i].ws = d.invites[i].ws
             /\ e.invites[i].role = d.invites[i].role
             /\ e.invites[i].status # d.invites[i].status
                  => /\ d.invites[i].status = "pending"
                     /\ e.invites[i].status = "expired"
  BY <1>1 DEF InvitesMove, Sent
<1>2. ASSUME NEW i \in Invites, Sent(e, i), ~ Sent(d, i)
      PROVE  /\ e.invites[i].status = "pending" /\ e.invites[i].user = Null
             /\ d.owner[e.invites[i].ws] # Null
  BY <1>2 DEF InvitesMove, Sent
<1>3. e.owner = d.owner
  BY DEF InvitesMove
<1>4. InvitesOK(d) => InvitesOK(e)
  BY <1>1, <1>2, <1>3 DEF InvitesOK
<1>5. QED BY <1>1, <1>2, <1>4

\* What is promised of the tables stays promised.
LEMMA MoveTables ==
  ASSUME NEW d \in Tables, NEW e, TablesOK(d), InvitesMove(d, e), UNCHANGED seen,
         RevokersKept, TypeOK, \A c \in Callers : ~ Idle(c) => Knows(calls[c])
  PROVE  TablesOK(e)'
<1>1. InvitesOK(e)
  BY MoveFacts DEF TablesOK
<1>2. OwnersOK(e)'
  BY DEF TablesOK, OwnersOK, Owners, InvitesMove
<1>3. RevokedOK(e)'
  <2>1. ASSUME NEW i \in seen.revoked
        PROVE  /\ Sent(e, i) /\ e.invites[i].status # "pending"
               /\ e.invites[i].user # Null => i \in seen.overlapped
    <3>1. i \in Invites
      BY DEF TypeOK, Seen
    <3>2. QED BY <3>1, MoveFacts DEF TablesOK, RevokedOK
  <2>2. ASSUME NEW c \in Callers, At(c, "revoke")
        PROVE  /\ Sent(e, calls[c].invite)
               /\ e.invites[calls[c].invite].user # Null
                    => calls[c].invite \in seen.overlapped
    <3>1. calls[c].invite \in Invites
      BY <2>2 DEF At, Knows
    <3>2. QED BY <2>2, <3>1, MoveFacts DEF TablesOK, RevokedOK
  <2>3. ASSUME NEW c \in Callers, At(c, "revoke")'
        PROVE  /\ Sent(e, calls'[c].invite)
               /\ e.invites[calls'[c].invite].user # Null
                    => calls'[c].invite \in seen.overlapped
    BY <2>2, <2>3 DEF RevokersKept
  <2>4. QED BY <2>1, <2>3 DEF RevokedOK, Sent
<1>4. QED BY <1>1, <1>2, <1>3 DEF TablesOK, InvitesOK, Sent

\* The table of the invites moves, outside of acceptances and revocations.
LEMMA MoveKeeps ==
  ASSUME WorkspacesInv, TypeOK', OneTransaction', WritesOK', RevokersKept,
         (tx # NoTx => TablesOK(tx.saved))',
         UNCHANGED <<driver, seen>>, InvitesMove(db, db')
  PROVE  WorkspacesInv'
<1>1. PICK e : e = db'
  OBVIOUS
<1>2. InvitesMove(db, e)
  BY <1>1
<1>3. db \in Tables /\ \A c \in Callers : ~ Idle(c) => Knows(calls[c])
  BY DEF WorkspacesInv, TypeOK, OneTransaction, PlacedAt
<1>4. TablesOK(e)'
  BY <1>2, <1>3, MoveTables DEF WorkspacesInv
<1>5. TablesOK(db)'
  BY <1>1, <1>4 DEF TablesOK, InvitesOK, OwnersOK, Owners, RevokedOK, Sent
<1>6. /\ \A i \in Invites : Sent(db, i) =>
           /\ Sent(e, i)
           /\ e.invites[i].user = db.invites[i].user
           /\ e.invites[i].ws = db.invites[i].ws
           /\ e.invites[i].role = db.invites[i].role
           /\ e.invites[i].status # db.invites[i].status
                => /\ db.invites[i].status = "pending"
                   /\ e.invites[i].status = "expired"
      /\ \A i \in Invites : Sent(e, i) /\ ~ Sent(db, i) =>
           e.invites[i].status = "pending"
  BY <1>2, MoveFacts
<1>7. e.owner = db.owner
  BY <1>2 DEF InvitesMove
<1>8. RejoinsOK'
  <2>1. ASSUME driver = "d1", NEW i \in Invites, Sent(e, i),
               e.invites[i].status = "accepted", e.invites[i].role # "owner",
               e.invites[i].ws \notin seen.lowered
        PROVE  e.owner[e.invites[i].ws] # e.invites[i].user
    <3>1. Sent(db, i)
      BY <1>6, <2>1
    <3>2. db.invites[i].status = "accepted"
      BY <1>6, <2>1, <3>1
    <3>3. QED BY <1>6, <1>7, <2>1, <3>1, <3>2 DEF WorkspacesInv, RejoinsOK
  <2>2. QED BY <1>1, <2>1 DEF RejoinsOK, Sent
<1>9. AnsweredOK'
  <2>1. AnsweredOK
    BY DEF WorkspacesInv
  <2>2. QED BY <1>1, <1>6, <2>1 DEF AnsweredOK, Sent
<1>10. AcceptedOnce'
  BY DEF WorkspacesInv, AcceptedOnce
<1>11. QED BY <1>5, <1>8, <1>9, <1>10 DEF WorkspacesInv

\* A statement that moves the invites.
LEMMA MoveStatement ==
  ASSUME WorkspacesInv, db' \in Tables, InvitesMove(db, db'),
         calls' = Overtake(db', calls),
         UNCHANGED <<driver, tx, seen>>, spent' \in 0..MaxCalls
  PROVE  WorkspacesInv'
<1>1. PICK e : e = db'
  OBVIOUS
<1>2. calls' = Overtake(e, calls) /\ InvitesMove(db, e)
  BY <1>1
<1>3. /\ calls' \in [Callers -> Call \cup {NoCall}]
      /\ \A x \in Callers : Same(x)
  BY <1>2, OvertakeTypes DEF WorkspacesInv
<1>4. TypeOK'
  BY <1>3 DEF WorkspacesInv, TypeOK
<1>5. OneTransaction'
  BY <1>3, OneTransactionKept DEF WorkspacesInv
<1>6. WritesOK'
  <2>1. \A i \in Invites : Sent(db, i) => Sent(db, i)'
    BY <1>1, <1>2, MoveFacts DEF Sent
  <2>2. /\ db'.owner = db.owner
        /\ \A w \in Workspaces : Owners(db, w) \subseteq Owners(db', w)
    BY <1>1, <1>2 DEF InvitesMove, Owners
  <2>3. ASSUME NEW x \in Callers, ~ Idle(x)'
        PROVE  WriteAt(calls[x])'
    <3>1. Same(x) /\ ~ Idle(x)
      BY <1>3, <2>3 DEF Same
    <3>2. QED BY <2>1, <2>2, <3>1, WriteKept
  <2>4. QED BY <2>3 DEF WritesOK
<1>7. RevokersKept
  BY <1>3 DEF RevokersKept, Same, At
<1>8. (tx # NoTx => TablesOK(tx.saved))'
  BY <1>7, SavedKept DEF WorkspacesInv
<1>9. QED BY <1>4, <1>5, <1>6, <1>7, <1>8, MoveKeeps

LEMMA SetInvite ==
  ASSUME NEW d \in Tables, NEW i \in Invites, NEW row \in Invite
  PROVE  LET e == [d EXCEPT !.invites[i] = row]
         IN  /\ e \in Tables
             /\ e.invites = [d.invites EXCEPT ![i] = row]
             /\ e.owner = d.owner /\ e.role = d.role
<1>1. [d.invites EXCEPT ![i] = row] \in [Invites -> Invite \cup {Null}]
  BY TableFields
<1>2. QED BY <1>1 DEF Tables

LEMMA SentRow ==
  ASSUME NEW d \in Tables, NEW i \in Invites, Sent(d, i)
  PROVE  d.invites[i] \in Invite
BY TableFields DEF Sent

LEMMA ExpireMoves ==
  ASSUME NEW d \in Tables, NEW w
  PROVE  /\ ExpireDue(d, w) \in Tables
         /\ InvitesMove(d, ExpireDue(d, w))
         /\ \A i \in Invites :
              (~ Pending(d, i) \/ ~ d.invites[i].due)
                => ExpireDue(d, w).invites[i] = d.invites[i]
<1> DEFINE new(i) == IF Pending(d, i) /\ d.invites[i].ws = w /\ d.invites[i].due
                     THEN [d.invites[i] EXCEPT !.status = "expired"]
                     ELSE d.invites[i]
           rows == [i \in Invites |-> new(i)]
           e == ExpireDue(d, w)
<1>1. ASSUME NEW i \in Invites
      PROVE  /\ new(i) \in Invite \cup {Null}
             /\ \/ new(i) = d.invites[i]
                \/ /\ Sent(d, i) /\ new(i) # Null
                   /\ new(i).ws = d.invites[i].ws
                   /\ new(i).role = d.invites[i].role
                   /\ new(i).user = d.invites[i].user
                   /\ d.invites[i].status = "pending"
                   /\ new(i).status = "expired"
  <2>1. CASE Pending(d, i) /\ d.invites[i].ws = w /\ d.invites[i].due
    <3>1. Sent(d, i) /\ d.invites[i].status = "pending"
      BY <2>1 DEF Pending
    <3>2. d.invites[i] \in Invite
      BY <3>1, SentRow
    <3>3. new(i) = [d.invites[i] EXCEPT !.status = "expired"]
      BY <2>1
    <3> HIDE DEF new
    <3>4. /\ new(i) \in Invite
          /\ new(i).ws = d.invites[i].ws
          /\ new(i).role = d.invites[i].role
          /\ new(i).user = d.invites[i].user
          /\ new(i).status = "expired"
      BY <3>2, <3>3 DEF Invite
    <3>5. QED BY <3>1, <3>4, WorkspaceSentinels
  <2>2. CASE ~ (Pending(d, i) /\ d.invites[i].ws = w /\ d.invites[i].due)
    <3>1. new(i) = d.invites[i]
      BY <2>2
    <3>2. QED BY <3>1, TableFields
  <2>3. QED BY <2>1, <2>2
<1>2. e = [d EXCEPT !.invites = rows]
  BY DEF ExpireDue
<1>3. \A i \in Invites :
        (~ Pending(d, i) \/ ~ d.invites[i].due) => rows[i] = d.invites[i]
  OBVIOUS
<1>4. \A i \in Invites : rows[i] = new(i)
  OBVIOUS
<1>5. rows \in [Invites -> Invite \cup {Null}]
  BY <1>1
<1> HIDE DEF new, rows, e
<1>6. /\ e \in Tables /\ e.invites = rows
      /\ e.owner = d.owner /\ e.role = d.role
  BY <1>2, <1>5 DEF Tables
<1>7. InvitesMove(d, e)
  BY <1>1, <1>4, <1>6 DEF InvitesMove, Sent
<1>8. QED BY <1>3, <1>6, <1>7 DEF e

LEMMA CreateInviteKeeps ==
  ASSUME WorkspacesInv, NEW i \in Invites, NEW w \in Workspaces,
         NEW email \in Emails, NEW role \in Granted,
         createInvite(i, w, email, role)
  PROVE  WorkspacesInv'
<1> DEFINE row == [ws |-> w, email |-> email, role |-> role,
                   status |-> "pending", due |-> FALSE, user |-> Null]
<1>1. /\ db.owner[w] # Null /\ ~ Sent(db, i)
      /\ db' = [db EXCEPT !.invites[i] = row]
      /\ calls' = Overtake(db', calls) /\ Spend
      /\ UNCHANGED <<driver, tx, seen>>
  BY DEF createInvite, Statement
<1>2. row \in Invite /\ row.ws = w /\ row.status = "pending" /\ row.user = Null
  BY WorkspaceConstants DEF Invite
<1> HIDE DEF row
<1>3. db \in Tables /\ spent' \in 0..MaxCalls
  BY <1>1, SpendTypes DEF WorkspacesInv, TypeOK
<1>4. /\ db' \in Tables
      /\ db'.invites = [db.invites EXCEPT ![i] = row]
      /\ db'.owner = db.owner /\ db'.role = db.role
  BY <1>1, <1>2, <1>3, SetInvite
<1>5. \A j \in Invites : IF j = i THEN db'.invites[j] = row
                         ELSE db'.invites[j] = db.invites[j]
  BY <1>3, <1>4, TableFields
<1>6. row # Null
  BY <1>2, WorkspaceSentinels
<1>7. InvitesMove(db, db')
  BY <1>1, <1>2, <1>4, <1>5, <1>6 DEF InvitesMove, Sent
<1>8. QED BY <1>1, <1>3, <1>4, <1>7, MoveStatement

LEMMA ListInvitesKeeps ==
  ASSUME WorkspacesInv, NEW w \in Workspaces, listInvites(w)
  PROVE  WorkspacesInv'
<1>1. /\ db' = ExpireDue(db, w)
      /\ calls' = Overtake(db', calls) /\ Spend
      /\ UNCHANGED <<driver, tx, seen>>
  BY DEF listInvites, Statement
<1>2. db \in Tables /\ spent' \in 0..MaxCalls
  BY <1>1, SpendTypes DEF WorkspacesInv, TypeOK
<1>3. db' \in Tables /\ InvitesMove(db, db')
  BY <1>1, <1>2, ExpireMoves
<1>4. QED BY <1>1, <1>2, <1>3, MoveStatement

LEMMA BeginConsumeKeeps ==
  ASSUME WorkspacesInv, NEW c \in Callers, NEW a \in Identities,
         NEW i \in Invites, BeginConsumeInD1(c, a, i)
  PROVE  WorkspacesInv'
<1> DEFINE d == ExpireDue(db, db.invites[i].ws)
           call == [NewCall("accept", "oldest")
                      EXCEPT !.user = db.accounts[a], !.invite = i]
<1>1. /\ driver = "d1" /\ db.accounts[a] # Null /\ Sent(db, i) /\ Idle(c)
      /\ Step(c, d, call) /\ Spend
      /\ UNCHANGED <<driver, tx, seen>>
  BY DEF BeginConsumeInD1
<1>2. db \in Tables /\ spent' \in 0..MaxCalls /\ seen' \in Seen
  BY <1>1, SpendTypes DEF WorkspacesInv, TypeOK
<1>3. d \in Tables /\ InvitesMove(db, d)
  BY <1>2, ExpireMoves
<1>4. db.accounts[a] \in Users
  BY <1>1, <1>2, TableFields
<1> HIDE DEF d
<1>5. /\ call \in Call /\ PlacedAt(c, call) /\ call.pc = "oldest"
      /\ call.invite = i
  BY <1>1, <1>4 DEF NewCall, Call, PlacedAt, Knows, InTx, InD1
<1>6. ~ (tx # NoTx /\ tx.caller = c) /\ tx = NoTx
  BY <1>1 DEF WorkspacesInv, OneTransaction
<1> HIDE DEF call
<1>7. /\ TypeOK' /\ OneTransaction' /\ RevokersKept
      /\ db' = d /\ calls'[c] = call
      /\ \A x \in Callers \ {c} : Same(x)
  BY <1>1, <1>2, <1>3, <1>5, <1>6, StepPlaces
<1>8. \A j \in Invites : Sent(db, j) => Sent(db, j)'
  BY <1>3, <1>7, MoveFacts DEF Sent
<1>9. WritesOK'
  <2>1. /\ db'.owner = db.owner
        /\ \A w \in Workspaces : Owners(db, w) \subseteq Owners(db', w)
    BY <1>3, <1>7 DEF InvitesMove, Owners
  <2>2. ASSUME NEW x \in Callers, ~ Idle(x)'
        PROVE  WriteAt(calls[x])'
    <3>1. CASE x = c
      BY <1>1, <1>5, <1>7, <1>8, <3>1 DEF WriteAt, Sent
    <3>2. CASE x # c
      <4>1. Same(x) /\ ~ Idle(x)
        BY <1>7, <2>2, <3>2 DEF Same
      <4>2. QED BY <1>1, <1>8, <2>1, <4>1, WriteKept
    <3>3. QED BY <3>1, <3>2
  <2>3. QED BY <2>2 DEF WritesOK
<1>10. InvitesMove(db, db')
  BY <1>3, <1>7
<1>11. (tx # NoTx => TablesOK(tx.saved))'
  BY <1>1, <1>6
<1>12. QED BY <1>1, <1>7, <1>9, <1>10, <1>11, MoveKeeps

\* No request moves, and the clock does not touch what the writes rely on.
LEMMA DueKeeps ==
  ASSUME WorkspacesInv, TypeOK', OneTransaction', InvitesMove(db, db'),
         (tx # NoTx => TablesOK(tx.saved))', UNCHANGED <<driver, calls, seen>>
  PROVE  WorkspacesInv'
<1>1. RevokersKept /\ \A x \in Callers : Same(x)
  BY DEF RevokersKept, Same, At, Idle
<1>2. \A i \in Invites : Sent(db, i) => Sent(db, i)'
  BY DEF InvitesMove, Sent
<1>3. /\ db'.owner = db.owner
      /\ \A w \in Workspaces : Owners(db, w) \subseteq Owners(db', w)
  BY DEF InvitesMove, Owners
<1>4. ASSUME NEW x \in Callers, ~ Idle(x)'
      PROVE  WriteAt(calls[x])'
  <2>1. ~ Idle(x)
    BY <1>4 DEF Idle
  <2>2. QED BY <1>1, <1>2, <1>3, <2>1, WriteKept
<1>5. WritesOK'
  BY <1>4 DEF WritesOK
<1>6. QED BY <1>1, <1>5, MoveKeeps

LEMMA DueMoves ==
  ASSUME NEW d \in Tables, NEW i \in Invites, Sent(d, i)
  PROVE  LET e == [d EXCEPT !.invites[i].due = TRUE]
         IN  e \in Tables /\ InvitesMove(d, e)
<1> DEFINE row == [d.invites[i] EXCEPT !.due = TRUE]
           e == [d EXCEPT !.invites[i] = row]
<1>1. d.invites[i] \in Invite
  BY SentRow
<1>2. /\ row \in Invite /\ row.ws = d.invites[i].ws
      /\ row.role = d.invites[i].role /\ row.user = d.invites[i].user
      /\ row.status = d.invites[i].status
  BY <1>1 DEF Invite
<1>3. [d EXCEPT !.invites[i].due = TRUE] = e
  OBVIOUS
<1> HIDE DEF row
<1>4. /\ e \in Tables
      /\ e.invites = [d.invites EXCEPT ![i] = row]
      /\ e.owner = d.owner /\ e.role = d.role
  BY <1>2, SetInvite
<1> HIDE DEF e
<1>5. \A j \in Invites : IF j = i THEN e.invites[j] = row
                         ELSE e.invites[j] = d.invites[j]
  BY <1>4, TableFields
<1>6. row # Null
  BY <1>2, WorkspaceSentinels
<1>7. InvitesMove(d, e)
  BY <1>2, <1>4, <1>5, <1>6 DEF InvitesMove, Sent
<1>8. QED BY <1>3, <1>4, <1>7

\* The clock moves on in the tables before an open transaction as well.
LEMMA FallDueKeeps ==
  ASSUME WorkspacesInv, NEW i \in Invites, FallDue(i)
  PROVE  WorkspacesInv'
<1> DEFINE due(d) == [d EXCEPT !.invites[i].due = TRUE]
<1>1. /\ Sent(db, i) /\ db' = due(db) /\ Spend
      /\ tx' = IF tx = NoTx \/ ~ Sent(tx.saved, i) THEN tx
               ELSE [tx EXCEPT !.saved.invites[i].due = TRUE]
      /\ UNCHANGED <<driver, calls, seen>>
  BY DEF FallDue
<1>2. spent' \in 0..MaxCalls /\ db \in Tables
  BY <1>1, SpendTypes DEF WorkspacesInv, TypeOK
<1>3. db' \in Tables /\ InvitesMove(db, db')
  BY <1>1, <1>2, DueMoves
<1>4. CASE tx' = tx
  <2>1. TypeOK'
    BY <1>1, <1>2, <1>3, <1>4 DEF WorkspacesInv, TypeOK
  <2>2. OneTransaction'
    <3>1. \A x \in Callers : Same(x)
      BY <1>1 DEF Same, Idle
    <3>2. QED BY <1>1, <1>4, <3>1, OneTransactionKept DEF WorkspacesInv
  <2>3. (tx # NoTx => TablesOK(tx.saved))'
    BY <1>1, <1>4
       DEF WorkspacesInv, TablesOK, InvitesOK, OwnersOK, Owners, RevokedOK,
           Sent, At, Idle
  <2>4. QED BY <1>1, <1>3, <2>1, <2>2, <2>3, DueKeeps
<1>5. CASE tx # NoTx /\ Sent(tx.saved, i) /\ tx' = [tx EXCEPT !.saved = due(tx.saved)]
  <2> DEFINE e == due(tx.saved)
  <2>1. tx \in [caller: Callers, saved: Tables] /\ TablesOK(tx.saved)
    BY <1>5 DEF WorkspacesInv, TypeOK
  <2>2. e \in Tables /\ InvitesMove(tx.saved, e)
    BY <1>5, <2>1, DueMoves
  <2>3. /\ tx' \in [caller: Callers, saved: Tables]
        /\ tx'.caller = tx.caller /\ tx'.saved = e
    <3> HIDE DEF e
    <3>1. tx' = [tx EXCEPT !.saved = e]
      BY <1>5 DEF e
    <3>2. QED BY <2>1, <2>2, <3>1
  <2>4. tx' # NoTx
    BY <2>3, WorkspaceSentinels
  <2>5. TypeOK'
    BY <1>1, <1>2, <1>3, <2>3 DEF WorkspacesInv, TypeOK
  <2>6. OneTransaction'
    <3>1. /\ driver' = driver /\ calls' = calls /\ tx # NoTx
          /\ tx'.caller = tx.caller
      BY <1>1, <1>5, <2>3
    <3>2. driver = "local" /\ ~ Idle(tx.caller) /\ calls[tx.caller].pc \in InTx
      BY <3>1 DEF WorkspacesInv, OneTransaction
    <3>3. driver' = "local" /\ (~ Idle(tx.caller) /\ calls[tx.caller].pc \in InTx)'
      BY <3>1, <3>2 DEF Idle
    <3>4. ASSUME NEW x \in Callers, (~ Idle(x))'
          PROVE  PlacedAt(x, calls[x])'
      <4>1. PlacedAt(x, calls[x])
        BY <3>1, <3>4 DEF WorkspacesInv, OneTransaction, Idle
      <4>2. QED BY <2>4, <3>1, <4>1 DEF PlacedAt, Knows
    <3>5. QED BY <3>3, <3>4 DEF OneTransaction
  <2> HIDE DEF e
  <2>7. PICK f : f = e
    OBVIOUS
  <2>8. TablesOK(f)'
    <3>1. RevokersKept /\ \A c \in Callers : ~ Idle(c) => Knows(calls[c])
      BY <1>1 DEF RevokersKept, At, Idle, WorkspacesInv, OneTransaction, PlacedAt
    <3>2. PICK d : d = tx.saved
      OBVIOUS
    <3>3. d \in Tables /\ TablesOK(d) /\ InvitesMove(d, f) /\ TypeOK
      BY <2>1, <2>2, <2>7, <3>2 DEF WorkspacesInv
    <3>4. QED BY <1>1, <3>1, <3>3, MoveTables
  <2>9. (tx # NoTx => TablesOK(tx.saved))'
    BY <2>3, <2>7, <2>8
       DEF TablesOK, InvitesOK, OwnersOK, Owners, RevokedOK, Sent
  <2>10. QED BY <1>1, <1>3, <2>5, <2>6, <2>9, DueKeeps
<1>6. QED BY <1>1, <1>4, <1>5

\* Only revokers read the status: an invite that is pending is nobody's.
LEMMA RevokeInviteKeeps ==
  ASSUME WorkspacesInv, NEW c \in Callers, NEW i \in Invites, revokeInvite(c, i)
  PROVE  WorkspacesInv'
<1> DEFINE call == [NewCall("revoke", "revoke") EXCEPT !.invite = i]
<1>1. /\ Pending(db, i) /\ Start(c, call) /\ Spend
      /\ Idle(c) /\ Kysely(c) /\ calls' = [calls EXCEPT ![c] = call]
      /\ UNCHANGED <<driver, db, tx, seen>>
  BY DEF revokeInvite, Start
<1>2. /\ call \in Call /\ PlacedAt(c, call) /\ call.pc = "revoke"
      /\ call.invite = i /\ WriteAt(call)
  BY DEF NewCall, Call, PlacedAt, WriteAt, Knows, InTx, InD1
<1> HIDE DEF call
<1>3. tx = NoTx
  BY <1>1 DEF Kysely, WorkspacesInv, OneTransaction
<1>4. /\ calls' \in [Callers -> Call \cup {NoCall}]
      /\ calls'[c] = call /\ call # NoCall
      /\ \A x \in Callers \ {c} : calls'[x] = calls[x]
  BY <1>1, <1>2, WorkspaceSentinels DEF WorkspacesInv, TypeOK
<1>5. spent' \in 0..MaxCalls
  BY <1>1, SpendTypes DEF WorkspacesInv
<1>6. TypeOK'
  BY <1>1, <1>4, <1>5 DEF WorkspacesInv, TypeOK
<1>7. OneTransaction' /\ WritesOK'
  <2>1. ASSUME NEW x \in Callers, ~ Idle(x)'
        PROVE  PlacedAt(x, calls[x])' /\ WriteAt(calls[x])'
    <3>1. PlacedAt(x, calls'[x]) /\ WriteAt(calls'[x])
      BY <1>2, <1>4, <2>1 DEF WorkspacesInv, OneTransaction, WritesOK, Idle
    <3>2. QED BY <1>1, <3>1 DEF PlacedAt, WriteAt, Owners, Sent
  <2>2. QED BY <1>1, <1>3, <2>1 DEF OneTransaction, WritesOK
<1>8. TablesOK(db)'
  <2>1. InvitesOK(db)' /\ OwnersOK(db)'
    BY <1>1 DEF WorkspacesInv, TablesOK, InvitesOK, OwnersOK, Owners, Sent
  <2>2. Sent(db, i) /\ db.invites[i].user = Null
    BY <1>1 DEF WorkspacesInv, TablesOK, InvitesOK, Pending
  <2>3. RevokedOK(db)'
    BY <1>1, <1>2, <1>4, <2>2
       DEF WorkspacesInv, TablesOK, RevokedOK, Sent, At, Idle
  <2>4. QED BY <2>1, <2>3 DEF TablesOK
<1>9. RejoinsOK' /\ AnsweredOK' /\ AcceptedOnce'
  BY <1>1 DEF WorkspacesInv, RejoinsOK, AnsweredOK, AcceptedOnce, Sent
<1>10. QED BY <1>1, <1>3, <1>6, <1>7, <1>8, <1>9 DEF WorkspacesInv

LEMMA RevokeKeeps ==
  ASSUME WorkspacesInv, NEW c \in Callers, Revoke(c)
  PROVE  WorkspacesInv'
<1> DEFINE i == calls[c].invite
           row == [db.invites[i] EXCEPT !.status = "revoked"]
           d == [db EXCEPT !.invites[i] = row]
<1>1. /\ At(c, "revoke") /\ Kysely(c) /\ Step(c, d, NoCall)
      /\ seen' = [seen EXCEPT !.revoked = @ \cup {i}]
      /\ UNCHANGED <<driver, tx, spent>>
  BY DEF Revoke
<1>2. /\ calls[c] \in Call /\ PlacedAt(c, calls[c]) /\ calls[c].pc = "revoke"
      /\ ~ (tx # NoTx /\ tx.caller = c)
      /\ db \in Tables
  BY <1>1, AtFacts DEF InTx
<1>3. tx = NoTx /\ i \in Invites
  BY <1>1, <1>2 DEF Kysely, PlacedAt, Knows
<1>4. Sent(db, i) /\ (db.invites[i].user # Null => i \in seen.overlapped)
  BY <1>1 DEF WorkspacesInv, TablesOK, RevokedOK
<1>5. db.invites[i] \in Invite
  BY <1>2, <1>3, <1>4, SentRow
<1>6. /\ row \in Invite /\ row.ws = db.invites[i].ws
      /\ row.role = db.invites[i].role /\ row.user = db.invites[i].user
      /\ row.status = "revoked"
  BY <1>5 DEF Invite
<1>7. row # Null
  BY <1>6, WorkspaceSentinels
<1> HIDE DEF row
<1>8. /\ d \in Tables
      /\ d.invites = [db.invites EXCEPT ![i] = row]
      /\ d.owner = db.owner /\ d.role = db.role
  BY <1>2, <1>3, <1>6, SetInvite
<1> HIDE DEF d
<1>9. \A j \in Invites : IF j = i THEN d.invites[j] = row
                         ELSE d.invites[j] = db.invites[j]
  BY <1>2, <1>8, TableFields
<1>10. spent' \in 0..MaxCalls
  BY <1>1 DEF WorkspacesInv, TypeOK
<1>11. /\ seen' \in Seen /\ seen'.revoked = seen.revoked \cup {i}
       /\ seen'.accepted = seen.accepted /\ seen'.twice = seen.twice
       /\ seen'.undone = seen.undone /\ seen'.overlapped = seen.overlapped
       /\ seen'.lowered = seen.lowered
  BY <1>1, <1>3 DEF WorkspacesInv, TypeOK, Seen
<1> HIDE DEF i
<1>12. /\ TypeOK' /\ OneTransaction' /\ RevokersKept
       /\ db' = d /\ calls'[c] = NoCall
       /\ \A x \in Callers \ {c} : Same(x)
  BY <1>1, <1>2, <1>8, <1>10, <1>11, StepPlaces
<1>13. \A j \in Invites : Sent(db, j) <=> Sent(d, j)
  BY <1>4, <1>7, <1>9 DEF Sent
<1>14. WritesOK'
  <2>1. \A j \in Invites : Sent(db, j) => Sent(db, j)'
    BY <1>12, <1>13 DEF Sent
  <2>2. /\ db'.owner = db.owner /\ seen.lowered \subseteq seen'.lowered
        /\ \A w \in Workspaces \ seen'.lowered :
             Owners(db, w) \subseteq Owners(db', w)
    BY <1>8, <1>11, <1>12 DEF Owners
  <2>3. ASSUME NEW x \in Callers, ~ Idle(x)'
        PROVE  WriteAt(calls[x])'
    <3>1. x # c
      BY <1>12, <2>3 DEF Idle
    <3>2. Same(x) /\ ~ Idle(x)
      BY <1>12, <2>3, <3>1 DEF Same
    <3>3. QED BY <2>1, <2>2, <3>2, WriteKept
  <2>4. QED BY <2>3 DEF WritesOK
<1>15. TablesOK(db)'
  <2>1. InvitesOK(d)
    BY <1>6, <1>8, <1>9, <1>13 DEF WorkspacesInv, TablesOK, InvitesOK
  <2>2. OwnersOK(db)'
    BY <1>8, <1>11, <1>12 DEF WorkspacesInv, TablesOK, OwnersOK, Owners
  <2>3. ASSUME NEW j \in seen.revoked \cup {i}
        PROVE  /\ Sent(d, j) /\ d.invites[j].status # "pending"
               /\ d.invites[j].user # Null => j \in seen.overlapped
    <3>1. j \in Invites
      BY <1>3, <2>3 DEF i, WorkspacesInv, TypeOK, Seen
    <3>2. QED BY <1>4, <1>6, <1>9, <1>13, <2>3, <3>1
             DEF WorkspacesInv, TablesOK, RevokedOK
  <2>4. ASSUME NEW x \in Callers, At(x, "revoke")
        PROVE  /\ Sent(d, calls[x].invite)
               /\ d.invites[calls[x].invite].user # Null
                    => calls[x].invite \in seen.overlapped
    <3>1. calls[x].invite \in Invites
      BY <2>4 DEF At, WorkspacesInv, OneTransaction, PlacedAt, Knows
    <3>2. QED BY <1>4, <1>6, <1>9, <1>13, <2>4, <3>1
             DEF WorkspacesInv, TablesOK, RevokedOK
  <2>5. RevokedOK(db)'
    BY <1>11, <1>12, <2>3, <2>4 DEF RevokedOK, RevokersKept, Sent
  <2>6. QED BY <1>12, <2>1, <2>2, <2>5 DEF TablesOK, InvitesOK, Sent
<1>16. RejoinsOK'
  <2>1. RejoinsOK
    BY DEF WorkspacesInv
  <2>2. \A j \in Invites : Sent(d, j) /\ d.invites[j].status = "accepted"
          => Sent(db, j) /\ d.invites[j] = db.invites[j]
    BY <1>6, <1>9, <1>13
  <2>3. QED BY <1>1, <1>8, <1>11, <1>12, <2>1, <2>2 DEF RejoinsOK, Sent
<1>17. AnsweredOK'
  <2>1. AnsweredOK
    BY DEF WorkspacesInv
  <2>2. \A j \in Invites : Sent(db, j) => d.invites[j].user = db.invites[j].user
    BY <1>6, <1>9
  <2>3. QED BY <1>11, <1>12, <1>13, <2>1, <2>2 DEF AnsweredOK, Sent
<1>18. AcceptedOnce'
  BY <1>11 DEF WorkspacesInv, AcceptedOnce
<1>19. QED BY <1>1, <1>3, <1>12, <1>14, <1>15, <1>16, <1>17, <1>18
          DEF WorkspacesInv

-----------------------------------------------------------------------------
(* Acceptances. *)

LEMMA JoinedTypes ==
  ASSUME NEW d \in Tables, NEW i \in Invites, NEW u \in Users, Sent(d, i)
  PROVE  LET w == d.invites[i].ws
             e == Joined(d, i, u)
         IN  /\ e \in Tables
             /\ e.role = [d.role EXCEPT ![w][u] = d.invites[i].role]
             /\ e.owner = d.owner /\ e.invites = d.invites
<1> DEFINE w == d.invites[i].ws
           r == d.invites[i].role
           f == [d EXCEPT !.role[w][u] = r]
<1>1. w \in Workspaces /\ r \in Roles
  BY SentRow DEF Invite
<1>2. Joined(d, i, u) = [f EXCEPT !.active[u] = w]
  BY DEF Joined
<1>3. /\ f \in Tables /\ f.role = [d.role EXCEPT ![w][u] = r]
      /\ f.owner = d.owner /\ f.invites = d.invites
  BY <1>1, SetRole
<1> HIDE DEF f
<1>4. /\ [f EXCEPT !.active[u] = w] \in Tables
      /\ SameCore(f, [f EXCEPT !.active[u] = w])
  BY <1>1, <1>3, SetActive
<1>5. QED BY <1>1, <1>2, <1>3, <1>4 DEF SameCore

\* What an acceptance of invite i in d makes of the rows in o.
RowAccepted(o, d, i, u) ==
  LET row == [o.invites[i] EXCEPT !.status = "accepted", !.user = u]
      e == Accepted(d, i, u)
  IN  /\ e \in Tables /\ row \in Invite
      /\ e.role = [o.role EXCEPT ![o.invites[i].ws][u] = o.invites[i].role]
      /\ e.owner = o.owner
      /\ e.invites = [d.invites EXCEPT ![i] = row]

LEMMA AcceptedTypes ==
  ASSUME NEW d \in Tables, NEW i \in Invites, NEW u \in Users, Sent(d, i)
  PROVE  RowAccepted(d, d, i, u)
<1> DEFINE w == d.invites[i].ws
           row == [d.invites[i] EXCEPT !.status = "accepted", !.user = u]
           f == [d EXCEPT !.invites[i] = row]
<1>1. d.invites[i] \in Invite
  BY SentRow
<1>2. row \in Invite /\ row.ws = w /\ row.role = d.invites[i].role
  BY <1>1 DEF Invite
<1>3. [d EXCEPT !.invites[i].status = "accepted", !.invites[i].user = u] = f
  <2>1. d.invites \in [Invites -> Invite \cup {Null}]
    BY TableFields
  <2>2. [[d.invites EXCEPT ![i] = [@ EXCEPT !.status = "accepted"]]
           EXCEPT ![i] = [@ EXCEPT !.user = u]]
          = [d.invites EXCEPT ![i] = row]
    BY <2>1
  <2>3. QED BY <2>2 DEF Tables
<1>4. Accepted(d, i, u) = Joined(f, i, u)
  BY <1>3 DEF Accepted
<1> HIDE DEF row
<1>5. /\ f \in Tables
      /\ f.invites = [d.invites EXCEPT ![i] = row]
      /\ f.owner = d.owner /\ f.role = d.role
  BY <1>2, SetInvite
<1> HIDE DEF f
<1>6. f.invites[i] = row
  BY <1>5, TableFields
<1>7. Sent(f, i)
  BY <1>2, <1>6, WorkspaceSentinels DEF Sent
<1>8. LET e == Joined(f, i, u)
      IN  /\ e \in Tables
          /\ e.role = [f.role EXCEPT ![f.invites[i].ws][u] = f.invites[i].role]
          /\ e.owner = f.owner /\ e.invites = f.invites
  BY <1>5, <1>7, JoinedTypes
<1>9. QED BY <1>2, <1>4, <1>5, <1>6, <1>8 DEF row, RowAccepted

LEMMA AnswerFacts ==
  ASSUME TypeOK, NEW i \in Invites, NEW u \in Users, Sent(db, i), Answer(i, u)
  PROVE  /\ seen' \in Seen
         /\ seen'.revoked = seen.revoked /\ seen'.undone = seen.undone
         /\ \A j \in Invites \ {i} : seen'.accepted[j] = seen.accepted[j]
         /\ u \in seen'.accepted[i]
         /\ seen.nested \subseteq seen'.nested
         /\ tx # NoTx => i \in seen'.nested
         /\ seen'.twice \subseteq seen.twice \cup {i}
         /\ i \in seen'.twice => i \in seen.twice \/ seen.accepted[i] # {}
         /\ seen.overlapped \subseteq seen'.overlapped
         /\ (\E c \in Callers : At(c, "revoke") /\ calls[c].invite = i)
              => i \in seen'.overlapped
         /\ seen.lowered \subseteq seen'.lowered
         /\ (/\ db.role[db.invites[i].ws][u] = "owner"
             /\ db.invites[i].role # "owner")
              => db.invites[i].ws \in seen'.lowered
<1> DEFINE w == db.invites[i].ws
           again == IF seen.accepted[i] # {} THEN {i} ELSE {}
           within == IF tx # NoTx THEN {i} ELSE {}
           overlaps == IF \E c \in Callers : At(c, "revoke") /\ calls[c].invite = i
                       THEN {i} ELSE {}
           lowers == IF db.role[w][u] = "owner" /\ db.invites[i].role # "owner"
                     THEN {w} ELSE {}
<1>1. seen' = [seen EXCEPT !.accepted[i] = @ \cup {u}, !.twice = @ \cup again,
                           !.nested = @ \cup within,
                           !.overlapped = @ \cup overlaps,
                           !.lowered = @ \cup lowers]
  BY DEF Answer
<1>2. w \in Workspaces
  BY SentRow DEF TypeOK, Invite
<1>3. /\ again \subseteq {i} /\ within \subseteq {i} /\ overlaps \subseteq {i}
      /\ lowers \in SUBSET Workspaces
  BY <1>2
<1>4. seen \in Seen
  BY DEF TypeOK
<1>5. /\ i \in again => seen.accepted[i] # {}
      /\ tx # NoTx => i \in within
      /\ (\E c \in Callers : At(c, "revoke") /\ calls[c].invite = i)
           => i \in overlaps
      /\ (db.role[w][u] = "owner" /\ db.invites[i].role # "owner")
           => w \in lowers
  OBVIOUS
<1> HIDE DEF again, within, overlaps, lowers
<1>6. [seen.accepted EXCEPT ![i] = @ \cup {u}] \in [Invites -> SUBSET Users]
  BY <1>4 DEF Seen
<1>7. /\ seen' \in Seen
      /\ seen'.accepted = [seen.accepted EXCEPT ![i] = @ \cup {u}]
      /\ seen'.twice = seen.twice \cup again
      /\ seen'.nested = seen.nested \cup within
      /\ seen'.overlapped = seen.overlapped \cup overlaps
      /\ seen'.lowered = seen.lowered \cup lowers
      /\ seen'.revoked = seen.revoked /\ seen'.undone = seen.undone
  BY <1>1, <1>3, <1>4, <1>6 DEF Seen
<1>8. /\ \A j \in Invites \ {i} : seen'.accepted[j] = seen.accepted[j]
      /\ u \in seen'.accepted[i]
  BY <1>4, <1>7 DEF Seen
<1>9. QED BY <1>3, <1>5, <1>7, <1>8

LEMMA RowAcceptedHolds ==
  ASSUME NEW o \in Tables, NEW d \in Tables, NEW i \in Invites, NEW u \in Users,
         Sent(d, i), InvitesMove(o, d), d.invites[i] = o.invites[i]
  PROVE  RowAccepted(o, d, i, u)
<1>1. RowAccepted(d, d, i, u)
  BY AcceptedTypes
<1>2. d.role = o.role /\ d.owner = o.owner
  BY DEF InvitesMove
<1>3. QED BY <1>1, <1>2 DEF RowAccepted

\* An acceptance: the invite was pending, hence nobody's and not revoked; the
\* recorded owner keeps the role, or is recorded as lowered.
LEMMA AcceptedKeeps ==
  ASSUME WorkspacesInv, NEW d \in Tables, NEW i \in Invites, NEW u \in Users,
         Pending(db, i), Answer(i, u), db' = Accepted(d, i, u),
         InvitesMove(db, d), d.invites[i] = db.invites[i],
         UNCHANGED <<driver, tx>>,
         calls' \in [Callers -> Call \cup {NoCall}], spent' \in 0..MaxCalls,
         OneTransaction',
         \A x \in Callers : ~ Idle(x)' => Same(x) /\ ~ Idle(x)
  PROVE  WorkspacesInv'
<1> DEFINE w == db.invites[i].ws
           r == db.invites[i].role
           row == [db.invites[i] EXCEPT !.status = "accepted", !.user = u]
<1>1. Sent(db, i) /\ Sent(d, i) /\ db.invites[i].status = "pending"
  BY DEF Pending, Sent
<1>2. db.invites[i] \in Invite /\ db \in Tables /\ seen \in Seen
  BY <1>1, SentRow DEF WorkspacesInv, TypeOK
<1>3. w \in Workspaces /\ r \in Roles
  BY <1>2 DEF Invite
<1>4. /\ db' \in Tables /\ row \in Invite
      /\ db'.role = [db.role EXCEPT ![w][u] = r]
      /\ db'.owner = db.owner
      /\ db'.invites = [d.invites EXCEPT ![i] = row]
  <2> HIDE DEF row
  <2>1. RowAccepted(db, d, i, u)
    BY <1>1, <1>2, RowAcceptedHolds
  <2>2. PICK e : e = Accepted(d, i, u)
    OBVIOUS
  <2>3. db' = e
    BY <2>2
  <2>4. QED BY <2>1, <2>2, <2>3 DEF RowAccepted, row
<1>5. /\ row.status = "accepted" /\ row.user = u
      /\ row.ws = w /\ row.role = r
  BY <1>2 DEF Invite
<1>6. row # Null /\ u # Null
  BY <1>4, WorkspaceSentinels, WorkspaceConstants
<1> HIDE DEF row
<1>7. /\ db'.invites[i] = row
      /\ \A j \in Invites \ {i} : db'.invites[j] = d.invites[j]
  BY <1>4, TableFields
<1>8. /\ db'.role[w][u] = r
      /\ \A v \in Workspaces, x \in Users :
           (v # w \/ x # u) => db'.role[v][x] = db.role[v][x]
  BY <1>2, <1>3, <1>4, TableFields
<1>9. /\ seen' \in Seen
      /\ seen'.revoked = seen.revoked /\ seen'.undone = seen.undone
      /\ \A j \in Invites \ {i} : seen'.accepted[j] = seen.accepted[j]
      /\ u \in seen'.accepted[i]
      /\ seen'.twice \subseteq seen.twice \cup {i}
      /\ i \in seen'.twice => i \in seen.twice \/ seen.accepted[i] # {}
      /\ seen.overlapped \subseteq seen'.overlapped
      /\ (\E c \in Callers : At(c, "revoke") /\ calls[c].invite = i)
           => i \in seen'.overlapped
      /\ seen.lowered \subseteq seen'.lowered
      /\ (db.role[w][u] = "owner" /\ r # "owner") => w \in seen'.lowered
  BY <1>1, AnswerFacts DEF WorkspacesInv
<1>10. TypeOK'
  BY <1>4, <1>9 DEF WorkspacesInv, TypeOK
<1>11. RevokersKept
  BY DEF RevokersKept, Same, At
<1>12. /\ InvitesOK(d)
       /\ \A j \in Invites : Sent(db, j) =>
            /\ Sent(d, j)
            /\ d.invites[j].user = db.invites[j].user
            /\ d.invites[j].ws = db.invites[j].ws
            /\ d.invites[j].role = db.invites[j].role
            /\ d.invites[j].status # db.invites[j].status
                 => /\ db.invites[j].status = "pending"
                    /\ d.invites[j].status = "expired"
       /\ \A j \in Invites : Sent(d, j) /\ ~ Sent(db, j) =>
            d.invites[j].status = "pending"
       /\ d.owner = db.owner
  <2>1. InvitesOK(db)
    BY DEF WorkspacesInv, TablesOK
  <2>2. d.owner = db.owner
    BY DEF InvitesMove
  <2>3. QED BY <2>1, <2>2, MoveFacts
<1>13. \A j \in Invites : Sent(db, j) => Sent(db, j)'
  BY <1>6, <1>7, <1>12 DEF Sent
<1>14. \A v \in Workspaces \ seen'.lowered : Owners(db, v) \subseteq Owners(db', v)
  <2>1. ASSUME NEW v \in Workspaces \ seen'.lowered, NEW x \in Users,
               db.role[v][x] = "owner"
        PROVE  db'.role[v][x] = "owner"
    BY <1>8, <1>9, <2>1
  <2>2. QED BY <2>1 DEF Owners
<1>15. WritesOK'
  <2>1. ASSUME NEW x \in Callers, ~ Idle(x)'
        PROVE  WriteAt(calls[x])'
    BY <1>4, <1>9, <1>13, <1>14, <2>1, WriteKept
  <2>2. QED BY <2>1 DEF WritesOK
<1>16. OwnersOK(db)'
  <2>1. OwnersOK(db)
    BY DEF WorkspacesInv, TablesOK
  <2>2. ASSUME NEW v \in Workspaces \ seen'.lowered, db'.owner[v] # Null
        PROVE  db'.owner[v] \in Owners(db', v)
    <3>1. v \in Workspaces \ seen.lowered /\ db'.owner[v] = db.owner[v]
      BY <1>4, <1>9, <2>2
    <3>2. db.owner[v] \in Owners(db, v)
      BY <2>1, <2>2, <3>1 DEF OwnersOK
    <3>3. QED BY <1>14, <2>2, <3>1, <3>2
  <2>3. QED BY <2>2 DEF OwnersOK
<1>17. InvitesOK(db)'
  <2>1. ASSUME NEW j \in Invites, db'.invites[j] # Null
        PROVE  /\ db'.owner[db'.invites[j].ws] # Null
               /\ db'.invites[j].status = "pending" => db'.invites[j].user = Null
    <3>1. CASE j = i
      BY <1>1, <1>4, <1>5, <1>7, <3>1 DEF WorkspacesInv, TablesOK, InvitesOK
    <3>2. CASE j # i
      BY <1>4, <1>7, <1>12, <2>1, <3>2 DEF InvitesOK, Sent
    <3>3. QED BY <3>1, <3>2
  <2>2. QED BY <2>1 DEF InvitesOK, Sent
<1>18. RevokedOK(db)'
  <2>1. ASSUME NEW j \in seen.revoked
        PROVE  /\ db'.invites[j] # Null /\ db'.invites[j].status # "pending"
               /\ db'.invites[j].user # Null => j \in seen'.overlapped
    <3>1. /\ j \in Invites /\ Sent(db, j) /\ db.invites[j].status # "pending"
          /\ db.invites[j].user # Null => j \in seen.overlapped
      BY <1>2 DEF WorkspacesInv, TablesOK, RevokedOK, Seen
    <3>2. j # i
      BY <1>1, <3>1
    <3>3. QED BY <1>7, <1>9, <1>12, <3>1, <3>2 DEF Sent
  <2>2. ASSUME NEW x \in Callers, At(x, "revoke")
        PROVE  /\ db'.invites[calls[x].invite] # Null
               /\ db'.invites[calls[x].invite].user # Null
                    => calls[x].invite \in seen'.overlapped
    <3>1. /\ calls[x].invite \in Invites /\ Sent(db, calls[x].invite)
          /\ db.invites[calls[x].invite].user # Null
               => calls[x].invite \in seen.overlapped
      BY <2>2 DEF At, WorkspacesInv, OneTransaction, PlacedAt, Knows,
                  TablesOK, RevokedOK
    <3>2. CASE calls[x].invite = i
      BY <1>6, <1>7, <1>9, <2>2, <3>2
    <3>3. CASE calls[x].invite # i
      BY <1>7, <1>9, <1>12, <3>1, <3>3 DEF Sent
    <3>4. QED BY <3>2, <3>3
  <2>3. ASSUME NEW x \in Callers, At(x, "revoke")'
        PROVE  At(x, "revoke") /\ calls'[x].invite = calls[x].invite
    BY <1>11, <2>3 DEF RevokersKept
  <2>4. QED BY <1>9, <2>1, <2>2, <2>3 DEF RevokedOK, Sent
<1>19. (tx # NoTx => TablesOK(tx.saved))'
  BY <1>9, <1>11, SavedKept DEF WorkspacesInv
<1>20. RejoinsOK'
  <2>1. ASSUME driver = "d1", NEW j \in Invites, db'.invites[j] # Null,
               db'.invites[j].status = "accepted",
               db'.invites[j].role # "owner",
               db'.invites[j].ws \notin seen'.lowered
        PROVE  db'.owner[db'.invites[j].ws] # db'.invites[j].user
    <3>1. CASE j = i
      <4>1. w \notin seen'.lowered /\ r # "owner"
        BY <1>5, <1>7, <2>1, <3>1
      <4>2. db.role[w][u] # "owner"
        BY <1>9, <4>1
      <4>3. db.owner[w] # Null => db.owner[w] \in Owners(db, w)
        BY <1>3, <1>9, <4>1 DEF WorkspacesInv, TablesOK, OwnersOK
      <4>4. db.owner[w] # u
        BY <1>6, <4>2, <4>3 DEF Owners
      <4>5. QED BY <1>4, <1>5, <1>7, <3>1, <4>4
    <3>2. CASE j # i
      <4>1. /\ Sent(db, j) /\ db.invites[j].status = "accepted"
            /\ db.invites[j].role # "owner"
            /\ db.invites[j].ws \notin seen.lowered
            /\ db'.invites[j].ws = db.invites[j].ws
            /\ db'.invites[j].user = db.invites[j].user
        BY <1>7, <1>9, <1>12, <2>1, <3>2 DEF Sent
      <4>2. QED BY <1>4, <2>1, <4>1 DEF WorkspacesInv, RejoinsOK
    <3>3. QED BY <3>1, <3>2
  <2>2. QED BY <2>1 DEF RejoinsOK, Sent
<1>21. AnsweredOK'
  <2>1. ASSUME NEW j \in Invites \ seen.undone, seen'.accepted[j] # {}
        PROVE  db'.invites[j] # Null /\ db'.invites[j].user \in seen'.accepted[j]
    <3>1. CASE j = i
      BY <1>5, <1>6, <1>7, <1>9, <3>1
    <3>2. CASE j # i
      BY <1>7, <1>9, <1>12, <2>1, <3>2 DEF WorkspacesInv, AnsweredOK, Sent
    <3>3. QED BY <3>1, <3>2
  <2>2. QED BY <1>9, <2>1 DEF AnsweredOK, Sent
<1>22. AcceptedOnce'
  <2>1. i \in seen'.twice => i \in seen.undone
    <3>1. seen.accepted[i] \subseteq Users
      BY <1>2 DEF Seen
    <3>2. db.invites[i].user = Null
      BY <1>1 DEF WorkspacesInv, TablesOK, InvitesOK
    <3>3. seen.accepted[i] # {} => i \in seen.undone
      BY <3>1, <3>2, WorkspaceConstants DEF WorkspacesInv, AnsweredOK
    <3>4. QED BY <1>9, <3>3 DEF WorkspacesInv, AcceptedOnce
  <2>2. QED BY <1>9, <2>1 DEF WorkspacesInv, AcceptedOnce
<1>23. TablesOK(db)'
  BY <1>16, <1>17, <1>18 DEF TablesOK
<1>24. QED BY <1>10, <1>15, <1>19, <1>20, <1>21, <1>22, <1>23 DEF WorkspacesInv

LEMMA SameMoves ==
  ASSUME NEW d, NEW e, SameCore(d, e)
  PROVE  InvitesMove(d, e)
BY DEF SameCore, InvitesMove

\* A statement that accepts an invite; no request moves.
LEMMA AcceptStatement ==
  ASSUME WorkspacesInv, NEW d \in Tables, NEW i \in Invites, NEW u \in Users,
         Pending(db, i), Answer(i, u), db' = Accepted(d, i, u),
         InvitesMove(db, d), d.invites[i] = db.invites[i],
         UNCHANGED <<driver, tx>>, calls' = Overtake(db', calls), Spend
  PROVE  WorkspacesInv'
<1>1. PICK e : e = db'
  OBVIOUS
<1>2. calls' = Overtake(e, calls)
  BY <1>1
<1>3. /\ calls' \in [Callers -> Call \cup {NoCall}]
      /\ \A x \in Callers : Same(x)
  BY <1>2, OvertakeTypes DEF WorkspacesInv
<1>4. spent' \in 0..MaxCalls
  BY SpendTypes DEF WorkspacesInv
<1>5. OneTransaction'
  BY <1>3, OneTransactionKept DEF WorkspacesInv
<1>6. \A x \in Callers : ~ Idle(x)' => Same(x) /\ ~ Idle(x)
  BY <1>3 DEF Same
<1>7. QED BY <1>3, <1>4, <1>5, <1>6, AcceptedKeeps

LEMMA AcceptInviteKeeps ==
  ASSUME WorkspacesInv, NEW a \in Identities, NEW i \in Invites,
         acceptInviteAndProvisionUser(a, i)
  PROVE  WorkspacesInv'
<1> DEFINE d == WithAccount(db, a)
           u == d.accounts[a]
<1>1. /\ Valid(db, a, i) /\ CanCreateUser(db, a) /\ Spend
      /\ db' = Accepted(d, i, u) /\ calls' = Overtake(db', calls)
      /\ Answer(i, u) /\ UNCHANGED <<driver, tx>>
  BY DEF acceptInviteAndProvisionUser
<1>2. db \in Tables
  BY DEF WorkspacesInv, TypeOK
<1>3. d \in Tables /\ u \in Users /\ SameCore(db, d)
  BY <1>1, <1>2, WithAccountTypes
<1> HIDE DEF d
<1>4. InvitesMove(db, d) /\ d.invites[i] = db.invites[i]
  BY <1>3, SameMoves DEF SameCore
<1>5. Pending(db, i)
  BY <1>1 DEF Valid
<1> HIDE DEF u
<1>6. QED BY <1>1, <1>3, <1>4, <1>5, AcceptStatement

LEMMA ConsumeInviteKeeps ==
  ASSUME WorkspacesInv, NEW a \in Identities, NEW i \in Invites,
         consumeInvite(a, i)
  PROVE  WorkspacesInv'
<1> DEFINE u == db.accounts[a]
           d == ExpireDue(db, db.invites[i].ws)
<1>1. /\ u # Null /\ Spend
      /\ \/ Valid(db, a, i) /\ db' = Accepted(d, i, u) /\ Answer(i, u)
         \/ db' = d /\ UNCHANGED seen
      /\ calls' = Overtake(db', calls) /\ UNCHANGED <<driver, tx>>
  BY DEF consumeInvite
<1>2. db \in Tables /\ spent' \in 0..MaxCalls
  BY <1>1, SpendTypes DEF WorkspacesInv, TypeOK
<1>3. u \in Users
  BY <1>1, <1>2, TableFields
<1>4. /\ d \in Tables /\ InvitesMove(db, d)
      /\ ~ db.invites[i].due => d.invites[i] = db.invites[i]
  BY <1>2, ExpireMoves
<1> HIDE DEF d, u
<1>5. CASE Valid(db, a, i) /\ db' = Accepted(d, i, u) /\ Answer(i, u)
  <2>1. Pending(db, i) /\ d.invites[i] = db.invites[i]
    BY <1>4, <1>5 DEF Valid
  <2>2. QED BY <1>1, <1>3, <1>4, <1>5, <2>1, AcceptStatement
<1>6. CASE db' = d /\ UNCHANGED seen
  BY <1>1, <1>2, <1>4, <1>6, MoveStatement
<1>7. QED BY <1>1, <1>5, <1>6

\* The batch of D1 joins the user of an accepted invite once more.
LEMMA RejoinKeeps ==
  ASSUME WorkspacesInv, NEW c \in Callers, NEW i \in Invites, NEW u \in Users,
         Sent(db, i), db.invites[i].status = "accepted", db.invites[i].user = u,
         driver = "d1", db' = Joined(db, i, u),
         TypeOK', OneTransaction', RevokersKept, calls'[c] = NoCall,
         \A x \in Callers \ {c} : Same(x), UNCHANGED <<driver, tx, spent, seen>>
  PROVE  WorkspacesInv'
<1> DEFINE w == db.invites[i].ws
           r == db.invites[i].role
<1>1. db \in Tables /\ w \in Workspaces /\ u # Null
  BY SentRow, WorkspaceConstants DEF WorkspacesInv, TypeOK, Invite
<1>2. /\ db'.role = [db.role EXCEPT ![w][u] = r]
      /\ db'.owner = db.owner /\ db'.invites = db.invites
  BY <1>1, JoinedTypes
<1>3. /\ db'.role[w][u] = r
      /\ \A v \in Workspaces, x \in Users :
           (v # w \/ x # u) => db'.role[v][x] = db.role[v][x]
  BY <1>1, <1>2, TableFields
<1>4. r # "owner" /\ w \notin seen.lowered => db.owner[w] # u
  BY DEF WorkspacesInv, RejoinsOK
<1>5. OwnersOK(db)'
  <2>1. ASSUME NEW v \in Workspaces \ seen.lowered, db.owner[v] # Null
        PROVE  db.owner[v] \in Users /\ db'.role[v][db.owner[v]] = "owner"
    <3>1. db.owner[v] \in Users /\ db.role[v][db.owner[v]] = "owner"
      BY <2>1 DEF WorkspacesInv, TablesOK, OwnersOK, Owners
    <3>2. CASE v = w /\ db.owner[v] = u
      BY <1>3, <1>4, <2>1, <3>2
    <3>3. CASE v # w \/ db.owner[v] # u
      BY <1>3, <3>1, <3>3
    <3>4. QED BY <3>1, <3>2, <3>3
  <2>2. QED BY <1>2, <2>1, ZenonT(60) DEF OwnersOK, Owners
<1>6. RejoinsOK'
  BY <1>2 DEF WorkspacesInv, RejoinsOK, Sent
<1>7. WritesOK'
  <2>1. ASSUME NEW x \in Callers, ~ Idle(x)'
        PROVE  WriteAt(calls[x])'
    <3>1. x # c
      BY <2>1 DEF Idle
    <3>2. Same(x) /\ ~ Idle(x)
      BY <2>1, <3>1 DEF Same
    <3>3. calls[x].pc \notin InTx
      BY <3>2 DEF WorkspacesInv, OneTransaction, PlacedAt
    <3>4. QED BY <1>2, <3>2, <3>3, WriteOutside
  <2>2. QED BY <2>1 DEF WritesOK
<1>8. QED BY <1>2, <1>5, <1>6, <1>7, OwnersKeep

LEMMA AcceptBatchKeeps ==
  ASSUME WorkspacesInv, NEW c \in Callers, AcceptBatch(c)
  PROVE  WorkspacesInv'
<1> DEFINE i == calls[c].invite
           u == calls[c].user
           row == db.invites[i]
<1>1. At(c, "accept") /\ UNCHANGED <<driver, tx, spent>>
  BY DEF AcceptBatch
<1>2. /\ calls[c] \in Call /\ PlacedAt(c, calls[c]) /\ WriteAt(calls[c])
      /\ calls[c].pc = "accept"
      /\ ~ (tx # NoTx /\ tx.caller = c)
      /\ db \in Tables
  BY <1>1, AtFacts DEF InTx
<1>3. i \in Invites /\ u \in Users /\ driver = "d1" /\ Sent(db, i)
  BY <1>2 DEF PlacedAt, Knows, InD1, WriteAt
<1>4. row \in Invite /\ row.ws \in Workspaces
  BY <1>2, <1>3, SentRow DEF Invite
<1>5. spent' \in 0..MaxCalls
  BY <1>1 DEF WorkspacesInv, TypeOK
<1> HIDE DEF i, u
<1>6. CASE Pending(db, i)
  <2>1. Step(c, Accepted(db, i, u), NoCall) /\ Answer(i, u)
    BY <1>6 DEF AcceptBatch, StillPending, i, u
  <2>2. seen' \in Seen
    BY <1>3, <2>1, AnswerFacts DEF WorkspacesInv
  <2>3. PICK e : e = Accepted(db, i, u)
    OBVIOUS
  <2>4. e \in Tables
    <3>1. RowAccepted(db, db, i, u)
      BY <1>2, <1>3, AcceptedTypes
    <3>2. QED BY <2>3, <3>1 DEF RowAccepted
  <2>5. /\ TypeOK' /\ OneTransaction' /\ RevokersKept
        /\ db' = e /\ calls'[c] = NoCall
        /\ \A x \in Callers \ {c} : Same(x)
    BY <1>1, <1>2, <1>5, <2>1, <2>2, <2>3, <2>4, StepPlaces
  <2>6. \A x \in Callers : ~ Idle(x)' => Same(x) /\ ~ Idle(x)
    BY <2>5 DEF Same, Idle
  <2>7. InvitesMove(db, db)
    BY SameMoves DEF SameCore
  <2>8. calls' \in [Callers -> Call \cup {NoCall}]
    BY <2>5 DEF TypeOK
  <2>9. db' = Accepted(db, i, u)
    BY <2>3, <2>5
  <2>10. QED BY <1>1, <1>2, <1>3, <1>5, <1>6, <2>1, <2>5, <2>6, <2>7, <2>8,
                <2>9, AcceptedKeeps
<1>7. CASE ~ Pending(db, i) /\ row.status = "accepted" /\ row.user = u
  <2>1. Step(c, Joined(db, i, u), NoCall) /\ UNCHANGED seen
    BY <1>7 DEF AcceptBatch, StillPending, i, u
  <2>2. PICK e : e = Joined(db, i, u)
    OBVIOUS
  <2>3. e \in Tables
    BY <1>2, <1>3, <2>2, JoinedTypes
  <2>4. seen' \in Seen
    BY <2>1 DEF WorkspacesInv, TypeOK
  <2>5. /\ TypeOK' /\ OneTransaction' /\ RevokersKept
        /\ db' = e /\ calls'[c] = NoCall
        /\ \A x \in Callers \ {c} : Same(x)
    BY <1>1, <1>2, <1>5, <2>1, <2>2, <2>3, <2>4, StepPlaces
  <2>6. QED BY <1>1, <1>3, <1>7, <2>1, <2>2, <2>5, RejoinKeeps
<1>8. CASE ~ Pending(db, i) /\ ~ (row.status = "accepted" /\ row.user = u)
  <2> DEFINE d == IF Member(db, u, row.ws)
                  THEN [db EXCEPT !.active[u] = row.ws] ELSE db
  <2>1. Step(c, d, NoCall) /\ UNCHANGED seen
    BY <1>8 DEF AcceptBatch, StillPending, i, u
  <2>2. d \in Tables /\ SameCore(db, d)
    <3>1. SameCore(db, db)
      BY DEF SameCore
    <3>2. QED BY <1>2, <1>3, <1>4, <3>1, SetActive
  <2> HIDE DEF d
  <2>3. QED BY <1>1, <1>2, <1>5, <2>1, <2>2, PlainStep
<1>9. QED BY <1>6, <1>7, <1>8

-----------------------------------------------------------------------------
(* The invariant. *)

LEMMA InitHolds ==
  ASSUME Init
  PROVE  WorkspacesInv
<1>1. PICK invites \in Outset :
        db = [users |-> {Founder},
              active |-> [u \in Users |-> IF u = Founder THEN Home ELSE Null],
              email |-> [u \in Users |->
                           IF u = Founder THEN EmailOf[FounderId] ELSE Null],
              accounts |-> [a \in Identities |->
                              IF a = FounderId THEN Founder ELSE Null],
              owner |-> [w \in Workspaces |->
                           IF w = Home THEN Founder ELSE Null],
              deleted |-> {},
              role |-> [w \in Workspaces |-> [u \in Users |->
                          IF w = Home /\ u = Founder THEN "owner" ELSE Null]],
              invites |-> invites]
  BY DEF Init
<1>2. /\ tx = NoTx /\ calls = [c \in Callers |-> NoCall] /\ spent = 0
      /\ driver \in Drivers
      /\ seen = [accepted |-> [i \in Invites |-> {}], twice |-> {},
                 nested |-> {}, undone |-> {}, revoked |-> {}, overlapped |-> {},
                 lowered |-> {}]
  BY DEF Init
<1>3. /\ Founder \in Users /\ FounderId \in Identities /\ Home \in Workspaces
      /\ EmailOf[FounderId] \in Emails /\ Founder # Null
      /\ invites \in [Invites -> Invite \cup {Null}]
      /\ \A i \in Invites : invites[i] # Null =>
           /\ invites[i].ws = Home /\ invites[i].status = "pending"
           /\ invites[i].user = Null
      /\ 0 \in 0..MaxCalls
  BY WorkspaceConstants DEF Emails
<1>4. db \in Tables
  BY <1>1, <1>3 DEF Tables, Roles
<1>5. /\ db.invites = invites
      /\ \A w \in Workspaces : db.owner[w] = IF w = Home THEN Founder ELSE Null
      /\ db.role[Home][Founder] = "owner"
  BY <1>1, <1>3
<1>6. /\ seen \in Seen /\ seen.revoked = {} /\ seen.twice = {}
      /\ \A i \in Invites : seen.accepted[i] = {}
  BY <1>2 DEF Seen
<1>7. calls \in [Callers -> Call \cup {NoCall}] /\ \A c \in Callers : Idle(c)
  BY <1>2 DEF Idle
<1>8. TypeOK
  BY <1>2, <1>3, <1>4, <1>6, <1>7 DEF TypeOK
<1>9. OneTransaction /\ WritesOK
  BY <1>2, <1>7 DEF OneTransaction, WritesOK
<1>10. TablesOK(db)
  <2>1. InvitesOK(db)
    BY <1>3, <1>5 DEF InvitesOK, Sent
  <2>2. OwnersOK(db)
    BY <1>3, <1>5 DEF OwnersOK, Owners
  <2>3. RevokedOK(db)
    BY <1>6, <1>7 DEF RevokedOK, At
  <2>4. QED BY <2>1, <2>2, <2>3 DEF TablesOK
<1>11. RejoinsOK
  BY <1>3, <1>5 DEF RejoinsOK, Sent
<1>12. AnsweredOK /\ AcceptedOnce
  BY <1>6 DEF AnsweredOK, AcceptedOnce
<1>13. QED BY <1>2, <1>8, <1>9, <1>10, <1>11, <1>12 DEF WorkspacesInv

LEMMA StutterKeeps ==
  ASSUME WorkspacesInv, UNCHANGED vars
  PROVE  WorkspacesInv'
<1>1. UNCHANGED <<driver, db, tx, calls, spent, seen>>
  BY DEF vars
<1>2. TypeOK'
  BY <1>1 DEF WorkspacesInv, TypeOK
<1>3. (\A x \in Callers : Same(x)) /\ RevokersKept
  BY <1>1 DEF Same, Idle, RevokersKept, At
<1>4. OneTransaction'
  BY <1>1, <1>3, OneTransactionKept DEF WorkspacesInv
<1>5. WritesOK'
  BY <1>1, <1>3 DEF WorkspacesInv, WritesOK, WriteAt, Owners, Sent, Same
<1>6. QED BY <1>1, <1>2, <1>3, <1>4, <1>5, PlainKeeps DEF SameCore

LEMMA RequestsKeep ==
  ASSUME WorkspacesInv, Requests
  PROVE  WorkspacesInv'
<1>1. CASE \E a \in Identities : getOrCreateUser(a)
  BY <1>1, GetUserKeeps
<1>2. CASE \E c \in Callers, u \in Users :
             BeginSignIn(c, u) \/ createWorkspace(c, u)
  BY <1>2, SignInKeeps, StartsKeep
<1>3. CASE \E c \in Callers, u \in Users, w \in Workspaces :
             \/ setActiveWorkspace(c, u, w)
             \/ removeWorkspace(c, u, w)
             \/ removeMember(c, w, u)
             \/ \E role \in Granted : setMemberRole(c, w, u, role)
  BY <1>3, StartsKeep, MemberStartsKeep
<1>4. CASE \E c \in Callers, w \in Workspaces, lookup \in Lookups,
              role \in Granted : upsertMember(c, w, lookup, role)
  BY <1>4, MemberStartsKeep
<1>5. CASE \E w \in Workspaces :
             \/ softDeleteWorkspace(w) \/ restoreWorkspace(w) \/ listInvites(w)
             \/ \E i \in Invites, email \in Emails, role \in Granted :
                  createInvite(i, w, email, role)
  BY <1>5, SoftDeleteKeeps, ListInvitesKeeps, CreateInviteKeeps
<1>6. CASE \E c \in Callers, i \in Invites : revokeInvite(c, i)
  BY <1>6, RevokeInviteKeeps
<1>7. CASE \E a \in Identities, i \in Invites :
             \/ acceptInviteAndProvisionUser(a, i)
             \/ consumeInvite(a, i)
             \/ \E c \in Callers :
                  BeginAcceptInD1(c, a, i) \/ BeginConsumeInD1(c, a, i)
  BY <1>7, AcceptInviteKeeps, ConsumeInviteKeeps, BeginAcceptKeeps,
     BeginConsumeKeeps
<1>8. QED BY <1>1, <1>2, <1>3, <1>4, <1>5, <1>6, <1>7 DEF Requests

LEMMA StepsKeep ==
  ASSUME WorkspacesInv, NEW c \in Callers, Steps(c)
  PROVE  WorkspacesInv'
<1>1. CASE Begin(c) \/ Commit(c)
  BY <1>1, BeginKeeps, CommitKeeps
<1>2. CASE \/ ReadMembership(c) \/ RepairActive(c)
           \/ InsertWorkspace(c) \/ Activate(c)
  BY <1>2, ReadMembershipKeeps, ActivateKeeps, InsertKeeps
<1>3. CASE DeleteWorkspace(c) \/ Rehome(c) \/ RemoveInBatch(c)
  BY <1>3, DeleteKeeps, RehomeKeeps, RemoveInBatchKeeps
<1>4. CASE Revoke(c) \/ GetUserInD1(c) \/ ReadOldest(c) \/ AcceptBatch(c)
  BY <1>4, RevokeKeeps, GetUserInD1Keeps, ReadOldestKeeps, AcceptBatchKeeps
<1>5. CASE \/ FindUser(c) \/ AddUser(c) \/ AddAccount(c)
           \/ ReadMember(c) \/ AddMember(c)
  BY <1>5, FindUserKeeps, AddUserKeeps, AddAccountKeeps, ReadMemberKeeps,
     AddMemberKeeps
<1>6. CASE \/ CheckMember(c) \/ CheckOwners(c)
           \/ TransferOwner(c) \/ WriteMember(c)
  BY <1>6, CheckMemberStep, TransferKeeps, WriteMemberKeeps
<1>7. QED BY <1>1, <1>2, <1>3, <1>4, <1>5, <1>6 DEF Steps

\* The inductive invariant, which the properties below follow from.
THEOREM WorkspacesInvariant == Spec => []WorkspacesInv
<1>1. Init => WorkspacesInv
  BY InitHolds
<1>2. WorkspacesInv /\ [Next]_vars => WorkspacesInv'
  <2> SUFFICES ASSUME WorkspacesInv, [Next]_vars
               PROVE  WorkspacesInv'
    OBVIOUS
  <2>1. CASE Requests
    BY <2>1, RequestsKeep
  <2>2. CASE \E c \in Callers : Steps(c)
    BY <2>2, StepsKeep
  <2>3. CASE \E i \in Invites : FallDue(i)
    BY <2>3, FallDueKeeps
  <2>4. CASE Crash
    BY <2>4, CrashKeeps
  <2>5. CASE UNCHANGED vars
    BY <2>5, StutterKeeps
  <2>6. QED BY <2>1, <2>2, <2>3, <2>4, <2>5 DEF Next
<1>3. QED BY <1>1, <1>2, PTL DEF Spec

\* The tables, the requests in flight and the history keep their types.
THEOREM WorkspacesTypes == Spec => []TypeOK
<1>1. WorkspacesInv => TypeOK
  BY DEF WorkspacesInv
<1>2. QED BY <1>1, WorkspacesInvariant, PTL

\* The recorded owner of a workspace is one of its owner members, whatever
\* role changes, removals, rollbacks and crashes interleave (setMemberRole,
\* removeMember), but for the workspaces where an owner accepted a lower role.
THEOREM OwnersAreMembers == Spec => []OwnersKept
<1>1. WorkspacesInv => OwnersKept
  BY DEF WorkspacesInv, TablesOK, OwnersOK, OwnersKept
<1>2. QED BY <1>1, WorkspacesInvariant, PTL



\* A revoked invite was accepted by nobody, except between the two statements
\* of revokeInvite.
THEOREM RevocationsHold == Spec => []RevocationHolds
<1>1. WorkspacesInv => RevocationHolds
  BY DEF WorkspacesInv, TablesOK, RevokedOK, RevocationHolds
<1>2. QED BY <1>1, WorkspacesInvariant, PTL

-----------------------------------------------------------------------------
(* What a sign-in that nobody belied has found out. *)

\* Requests that need their workspace to be there.
NeedsWorkspace(call) == call.op \in {"remove", "member"}

\* What is deleted, has members or is worked on by such a request was created.
Founded(d, cs) ==
  /\ \A w \in d.deleted : d.owner[w] # Null
  /\ \A w \in Workspaces, u \in Users : Member(d, u, w) => d.owner[w] # Null
  /\ \A c \in Callers :
       (cs[c] # NoCall /\ NeedsWorkspace(cs[c])) => d.owner[cs[c].ws] # Null

\* What a sign-in has read is still so.
Informed(call, d) ==
  (call.op = "signIn" /\ ~ call.overtaken) =>
    /\ call.pc = "repair" => call.ws \in Homes(d, call.user)
    /\ call.pc \in {"begin", "insert", "batch"} => Homes(d, call.user) = {}
    /\ call.pc = "commit" => Settled(d, call.user)

\* The inductive invariant, next to WorkspacesInv.
SignInInv ==
  /\ Founded(db, calls)
  /\ tx # NoTx => Founded(tx.saved, calls)
  /\ \A c \in Callers : ~ Idle(c) => Informed(calls[c], db)

\* Only workspaces that are there are deleted or get members, and none goes.
Grows(d, e) ==
  /\ \A w \in Workspaces : d.owner[w] # Null => e.owner[w] # Null
  /\ \A w \in e.deleted : w \in d.deleted \/ e.owner[w] # Null
  /\ \A w \in Workspaces, u \in Users :
       Member(e, u, w) => Member(d, u, w) \/ e.owner[w] # Null

LEMMA SameGrows ==
  ASSUME NEW d, NEW e,
         e.owner = d.owner, e.deleted = d.deleted, e.role = d.role
  PROVE  Grows(d, e)
BY DEF Grows, Member

LEMMA RoleGrows ==
  ASSUME NEW d \in Tables, NEW e, NEW w \in Workspaces, NEW u \in Users,
         NEW role \in Roles \cup {Null}, d.owner[w] # Null,
         e.owner = d.owner, e.deleted = d.deleted,
         e.role = [d.role EXCEPT ![w][u] = role]
  PROVE  Grows(d, e)
<1>1. ASSUME NEW v \in Workspaces, NEW x \in Users, e.role[v][x] # Null
      PROVE  d.role[v][x] # Null \/ e.owner[v] # Null
  <2>1. CASE v = w
    BY <2>1
  <2>2. CASE v # w
    BY <1>1, <2>2, TableFields
  <2>3. QED BY <2>1, <2>2
<1>2. QED BY <1>1 DEF Grows, Member

\* The workspaces that the tables and the requests speak of stay.
LEMMA FoundedKept ==
  ASSUME NEW d \in Tables, NEW e, NEW cs, NEW es,
         Founded(d, cs), Grows(d, e),
         \A c \in Callers :
           (es[c] # NoCall /\ NeedsWorkspace(es[c])) =>
             \/ e.owner[es[c].ws] # Null
             \/ /\ cs[c] # NoCall /\ NeedsWorkspace(cs[c])
                /\ es[c].ws = cs[c].ws /\ cs[c].ws \in Workspaces
  PROVE  Founded(e, es)
<1>1. \A w \in e.deleted : e.owner[w] # Null
  BY TableFields DEF Founded, Grows
<1>2. \A w \in Workspaces, u \in Users : Member(e, u, w) => e.owner[w] # Null
  BY DEF Founded, Grows
<1>3. \A c \in Callers :
        (es[c] # NoCall /\ NeedsWorkspace(es[c])) => e.owner[es[c].ws] # Null
  BY DEF Founded, Grows
<1>4. QED BY <1>1, <1>2, <1>3 DEF Founded

\* A request that another one's step, or a statement, passed by.
LEMMA Watched ==
  ASSUME TypeOK, NEW d, db' = d, NEW x \in Callers,
         calls'[x] = Overtake(d, calls)[x]
  PROVE  /\ Idle(x)' = Idle(x)
         /\ ~ Idle(x) => calls'[x].op = calls[x].op /\ calls'[x].ws = calls[x].ws
         /\ (~ Idle(x) /\ Informed(calls[x], db)) => Informed(calls'[x], d)
<1>1. \/ calls'[x] = calls[x] /\ (Idle(x) \/ ~ Belies(d, calls[x]))
      \/ ~ Idle(x) /\ calls'[x] = [calls[x] EXCEPT !.overtaken = TRUE]
  BY DEF Overtake, Idle
<1>2. CASE calls'[x] = calls[x] /\ (Idle(x) \/ ~ Belies(d, calls[x]))
  BY <1>2 DEF Idle, Informed, Belies
<1>3. CASE ~ Idle(x) /\ calls'[x] = [calls[x] EXCEPT !.overtaken = TRUE]
  <2>1. calls[x] \in Call
    BY <1>3, CallTypes
  <2>2. calls'[x] \in Call /\ calls'[x].overtaken = TRUE
        /\ calls'[x].op = calls[x].op /\ calls'[x].ws = calls[x].ws
    BY <1>3, <2>1 DEF Call
  <2>3. calls'[x] # NoCall
    BY <2>2, WorkspaceSentinels
  <2>4. QED BY <1>3, <2>2, <2>3 DEF Idle, Informed
<1>4. QED BY <1>1, <1>2, <1>3

LEMMA StepWatched ==
  ASSUME TypeOK, NEW c \in Callers, NEW d, NEW next, Step(c, d, next)
  PROVE  /\ db' = d /\ calls'[c] = next
         /\ \A x \in Callers \ {c} : calls'[x] = Overtake(d, calls)[x]
<1>1. DOMAIN Overtake(d, calls) = Callers
  BY DEF Overtake
<1>2. QED BY <1>1 DEF Step

\* Who works on a workspace goes on with that one, or has just found it there.
GoesOn(c, d, next) ==
  NeedsWorkspace(next) =>
    \/ ~ Idle(c) /\ NeedsWorkspace(calls[c]) /\ next.ws = calls[c].ws
    \/ tx = NoTx /\ d.owner[next.ws] # Null

\* Tables that were founded for the requests are so after a step of c.
LEMMA StepFounded ==
  ASSUME WorkspacesInv, NEW c \in Callers, NEW d, NEW next, Step(c, d, next),
         NEW o \in Tables, NEW e, Founded(o, calls), Grows(o, e),
         next # NoCall => GoesOn(c, d, next),
         tx # NoTx \/ e = d
  PROVE  Founded(e, calls')
<1>1. /\ db' = d /\ calls'[c] = next
      /\ \A x \in Callers \ {c} : calls'[x] = Overtake(d, calls)[x]
  BY StepWatched DEF WorkspacesInv
<1>2. \A x \in Callers :
        (~ Idle(x) /\ NeedsWorkspace(calls[x])) => calls[x].ws \in Workspaces
  BY DEF WorkspacesInv, OneTransaction, PlacedAt, Knows, NeedsWorkspace
<1>3. ASSUME NEW x \in Callers, calls'[x] # NoCall, NeedsWorkspace(calls'[x])
      PROVE  \/ e.owner[calls'[x].ws] # Null
             \/ /\ calls[x] # NoCall /\ NeedsWorkspace(calls[x])
                /\ calls'[x].ws = calls[x].ws /\ calls[x].ws \in Workspaces
  <2>1. CASE x = c
    BY <1>1, <1>2, <1>3, <2>1 DEF GoesOn, Idle
  <2>2. CASE x # c
    <3>1. /\ Idle(x)' = Idle(x)
          /\ ~ Idle(x) => calls'[x].op = calls[x].op /\ calls'[x].ws = calls[x].ws
      BY <1>1, <2>2, Watched DEF WorkspacesInv
    <3>2. QED BY <1>2, <1>3, <3>1 DEF Idle, NeedsWorkspace
  <2>3. QED BY <2>1, <2>2
<1>4. QED BY <1>3, FoundedKept

\* The sign-ins know what they knew, unless the tables changed.
LEMMA StepInformed ==
  ASSUME WorkspacesInv, SignInInv, NEW c \in Callers, NEW d, NEW next,
         Step(c, d, next), next # NoCall => Informed(next, d)
  PROVE  \A x \in Callers : Idle(x)' \/ Informed(calls'[x], db')
<1>1. /\ db' = d /\ calls'[c] = next
      /\ \A x \in Callers \ {c} : calls'[x] = Overtake(d, calls)[x]
  BY StepWatched DEF WorkspacesInv
<1>2. ASSUME NEW x \in Callers
      PROVE  Idle(x)' \/ Informed(calls'[x], db')
  <2>1. CASE x = c
    BY <1>1, <2>1 DEF Idle
  <2>2. CASE x # c
    BY <1>1, <2>2, Watched DEF WorkspacesInv, SignInInv
  <2>3. QED BY <2>1, <2>2
<1>3. QED BY <1>2

\* A step of c that leaves the transaction as it is.
LEMMA SignInStep ==
  ASSUME WorkspacesInv, SignInInv, NEW c \in Callers, NEW d, NEW next,
         Step(c, d, next), UNCHANGED tx, Grows(db, d),
         next # NoCall => Informed(next, d) /\ GoesOn(c, d, next)
  PROVE  SignInInv'
<1>1. db' = d
  BY StepWatched DEF WorkspacesInv
<1>2. \A x \in Callers : Idle(x)' \/ Informed(calls'[x], db')
  BY StepInformed
<1>3. Founded(d, calls')
  BY StepFounded DEF WorkspacesInv, SignInInv, TypeOK
<1>4. ASSUME tx # NoTx
      PROVE  Founded(tx.saved, calls')
  <2>1. tx.saved \in Tables /\ Founded(tx.saved, calls)
    BY <1>4 DEF WorkspacesInv, SignInInv, TypeOK
  <2>2. Grows(tx.saved, tx.saved)
    BY SameGrows
  <2>3. QED BY <1>4, <2>1, <2>2, StepFounded
<1>5. QED BY <1>1, <1>2, <1>3, <1>4 DEF SignInInv, Idle

\* A statement that belongs to no request in flight.
LEMMA SignInStatement ==
  ASSUME WorkspacesInv, SignInInv, NEW d, db' = d, calls' = Overtake(d, calls),
         UNCHANGED tx, Grows(db, d)
  PROVE  SignInInv'
<1>1. ASSUME NEW x \in Callers
      PROVE  /\ Idle(x)' = Idle(x)
             /\ ~ Idle(x) => /\ calls'[x].op = calls[x].op
                             /\ calls'[x].ws = calls[x].ws
             /\ Idle(x)' \/ Informed(calls'[x], db')
  BY Watched DEF WorkspacesInv, SignInInv
<1>2. \A x \in Callers :
        (~ Idle(x) /\ NeedsWorkspace(calls[x])) => calls[x].ws \in Workspaces
  BY DEF WorkspacesInv, OneTransaction, PlacedAt, Knows, NeedsWorkspace
<1>3. \A x \in Callers :
        (calls'[x] # NoCall /\ NeedsWorkspace(calls'[x])) =>
          /\ calls[x] # NoCall /\ NeedsWorkspace(calls[x])
          /\ calls'[x].ws = calls[x].ws /\ calls[x].ws \in Workspaces
  BY <1>1, <1>2 DEF Idle, NeedsWorkspace
<1>4. Founded(d, calls')
  BY <1>3, FoundedKept DEF WorkspacesInv, SignInInv, TypeOK
<1>5. ASSUME tx # NoTx
      PROVE  Founded(tx.saved, calls')
  <2>1. tx.saved \in Tables /\ Founded(tx.saved, calls)
    BY <1>5 DEF WorkspacesInv, SignInInv, TypeOK
  <2>2. Grows(tx.saved, tx.saved)
    BY SameGrows
  <2>3. QED BY <1>3, <2>1, <2>2, FoundedKept
<1>6. QED BY <1>1, <1>4, <1>5 DEF SignInInv, Idle

\* A request begins that is no sign-in, or a sign-in that has read nothing.
LEMMA SignInStart ==
  ASSUME WorkspacesInv, SignInInv, NEW c \in Callers, NEW call,
         Start(c, call), call.op = "signIn" => call.pc = "membership",
         NeedsWorkspace(call) => db.owner[call.ws] # Null
  PROVE  SignInInv'
<1>1. Step(c, db, call) /\ UNCHANGED tx
  BY StartIsStep DEF WorkspacesInv, Start
<1>2. tx = NoTx
  BY DEF Start, Kysely, WorkspacesInv, OneTransaction
<1>3. Informed(call, db)
  BY DEF Informed
<1>4. GoesOn(c, db, call)
  BY <1>2 DEF GoesOn
<1>5. Grows(db, db)
  BY SameGrows
<1>6. QED BY <1>1, <1>3, <1>4, <1>5, SignInStep

-----------------------------------------------------------------------------
(* What each operation does to the rows of workspaces and members. *)

LEMMA ColumnGrows ==
  ASSUME NEW d \in Tables, NEW k, NEW v
  PROVE  /\ Grows(d, [d EXCEPT !.active = v])
         /\ Grows(d, [d EXCEPT !.active[k] = v])
         /\ Grows(d, [d EXCEPT !.accounts[k] = v])
         /\ Grows(d, [d EXCEPT !.invites = v])
         /\ Grows(d, [d EXCEPT !.invites[k] = v])
         /\ Grows(d, [d EXCEPT !.invites[k].status = v])
<1>1. ASSUME NEW e, \/ e = [d EXCEPT !.active = v]
                    \/ e = [d EXCEPT !.active[k] = v]
                    \/ e = [d EXCEPT !.accounts[k] = v]
                    \/ e = [d EXCEPT !.invites = v]
                    \/ e = [d EXCEPT !.invites[k] = v]
                    \/ e = [d EXCEPT !.invites[k].status = v]
      PROVE  Grows(d, e)
  <2>1. e.owner = d.owner /\ e.deleted = d.deleted /\ e.role = d.role
    BY <1>1 DEF Tables
  <2>2. QED BY <2>1, SameGrows
<1>2. QED BY <1>1

LEMMA WithUserGrows ==
  ASSUME NEW d \in Tables, NEW email
  PROVE  Grows(d, WithUser(d, email))
<1>1. /\ WithUser(d, email).owner = d.owner
      /\ WithUser(d, email).deleted = d.deleted
      /\ WithUser(d, email).role = d.role
  BY DEF WithUser, Tables
<1>2. QED BY <1>1, SameGrows

\* A user with an account touches no workspace.
LEMMA WithAccountRows ==
  ASSUME NEW d \in Tables, NEW a
  PROVE  /\ WithAccount(d, a).owner = d.owner
         /\ WithAccount(d, a).deleted = d.deleted
         /\ WithAccount(d, a).role = d.role
<1> DEFINE e == WithUser(d, EmailOf[a])
           n == NewUser(d)
<1>1. CASE d.accounts[a] # Null
  BY <1>1 DEF WithAccount
<1>2. CASE d.accounts[a] = Null
  <2>1. WithAccount(d, a) = [e EXCEPT !.accounts[a] = n]
    BY <1>2 DEF WithAccount
  <2>2. e = [d EXCEPT !.users = @ \cup {n}, !.email[n] = EmailOf[a]]
    BY DEF WithUser
  <2> HIDE DEF e, n
  <2>3. e.owner = d.owner /\ e.deleted = d.deleted /\ e.role = d.role
        /\ [e EXCEPT !.accounts[a] = n].owner = e.owner
        /\ [e EXCEPT !.accounts[a] = n].deleted = e.deleted
        /\ [e EXCEPT !.accounts[a] = n].role = e.role
    BY <2>2 DEF Tables
  <2>4. QED BY <2>1, <2>3
<1>3. QED BY <1>1, <1>2

\* Deleting a workspace that is there, and restoring one.
LEMMA DeletedGrows ==
  ASSUME NEW d \in Tables, NEW w, d.owner[w] # Null
  PROVE  /\ Grows(d, [d EXCEPT !.deleted = @ \cup {w}])
         /\ \A v : Grows(d, [d EXCEPT !.deleted = @ \ {v}])
<1>1. Grows(d, [d EXCEPT !.deleted = @ \cup {w}])
  <2> DEFINE e == [d EXCEPT !.deleted = @ \cup {w}]
  <2>1. e.owner = d.owner /\ e.deleted = d.deleted \cup {w} /\ e.role = d.role
    BY DEF Tables
  <2> HIDE DEF e
  <2>2. Grows(d, e)
    BY <2>1 DEF Grows, Member
  <2>3. QED BY <2>2 DEF e
<1>2. ASSUME NEW v
      PROVE  Grows(d, [d EXCEPT !.deleted = @ \ {v}])
  <2> DEFINE e == [d EXCEPT !.deleted = @ \ {v}]
  <2>1. e.owner = d.owner /\ e.deleted = d.deleted \ {v} /\ e.role = d.role
    BY DEF Tables
  <2> HIDE DEF e
  <2>2. Grows(d, e)
    BY <2>1 DEF Grows, Member
  <2>3. QED BY <2>2 DEF e
<1>3. QED BY <1>1, <1>2

LEMMA ExpireGrows ==
  ASSUME NEW d \in Tables, NEW w
  PROVE  /\ ExpireDue(d, w).owner = d.owner
         /\ ExpireDue(d, w).deleted = d.deleted
         /\ ExpireDue(d, w).role = d.role
<1> DEFINE rows == [i \in Invites |->
                      IF Pending(d, i) /\ d.invites[i].ws = w /\ d.invites[i].due
                      THEN [d.invites[i] EXCEPT !.status = "expired"]
                      ELSE d.invites[i]]
<1>1. ExpireDue(d, w) = [d EXCEPT !.invites = rows]
  BY DEF ExpireDue
<1> HIDE DEF rows
<1>2. QED BY <1>1 DEF Tables

\* Who joins gets a role in the workspace of the invite, which is there.
LEMMA JoinedGrows ==
  ASSUME NEW o \in Tables, NEW d \in Tables, NEW i \in Invites, NEW u \in Users,
         Sent(d, i), d.owner[d.invites[i].ws] # Null,
         d.owner = o.owner, d.deleted = o.deleted, d.role = o.role
  PROVE  Grows(o, Joined(d, i, u))
<1> DEFINE w == d.invites[i].ws
           r == d.invites[i].role
           f == [d EXCEPT !.role[w][u] = r]
<1>1. w \in Workspaces /\ r \in Roles \cup {Null}
  BY SentRow DEF Invite
<1>2. Joined(d, i, u) = [f EXCEPT !.active[u] = w]
  BY DEF Joined
<1>3. /\ f \in Tables /\ f.role = [d.role EXCEPT ![w][u] = r]
      /\ f.owner = d.owner
  BY <1>1, SetRole
<1>4. f.deleted = d.deleted
  BY DEF Tables
<1> HIDE DEF f
<1>5. PICK e : e = [f EXCEPT !.active[u] = w]
  OBVIOUS
<1>6. /\ e.role = [o.role EXCEPT ![w][u] = r]
      /\ e.owner = o.owner /\ e.deleted = o.deleted
  BY <1>3, <1>4, <1>5 DEF Tables
<1>7. o.owner[w] # Null
  OBVIOUS
<1> HIDE DEF w, r
<1>8. Grows(o, e)
  BY <1>1, <1>6, <1>7, RoleGrows
<1>9. QED BY <1>2, <1>5, <1>8

LEMMA AcceptedGrows ==
  ASSUME NEW o \in Tables, NEW d \in Tables, NEW i \in Invites, NEW u \in Users,
         Sent(d, i), d.owner[d.invites[i].ws] # Null,
         d.owner = o.owner, d.deleted = o.deleted, d.role = o.role
  PROVE  Grows(o, Accepted(d, i, u))
<1> DEFINE w == d.invites[i].ws
           row == [d.invites[i] EXCEPT !.status = "accepted", !.user = u]
           f == [d EXCEPT !.invites[i] = row]
<1>1. d.invites[i] \in Invite
  BY SentRow
<1>2. row \in Invite /\ row.ws = w
  BY <1>1 DEF Invite
<1>3. [d EXCEPT !.invites[i].status = "accepted", !.invites[i].user = u] = f
  <2>1. d.invites \in [Invites -> Invite \cup {Null}]
    BY TableFields
  <2>2. [[d.invites EXCEPT ![i] = [@ EXCEPT !.status = "accepted"]]
           EXCEPT ![i] = [@ EXCEPT !.user = u]]
          = [d.invites EXCEPT ![i] = row]
    BY <2>1
  <2>3. QED BY <2>2 DEF Tables
<1>4. Accepted(d, i, u) = Joined(f, i, u)
  BY <1>3 DEF Accepted
<1> HIDE DEF row
<1>5. /\ f \in Tables
      /\ f.invites = [d.invites EXCEPT ![i] = row]
      /\ f.owner = d.owner /\ f.role = d.role
  BY <1>2, SetInvite
<1>6. f.deleted = d.deleted
  BY DEF Tables
<1> HIDE DEF f
<1>7. f.invites[i] = row
  BY <1>5, TableFields
<1>8. Sent(f, i)
  BY <1>2, <1>7, WorkspaceSentinels DEF Sent
<1>9. f.owner[f.invites[i].ws] # Null
  BY <1>2, <1>5, <1>7
<1>10. Grows(o, Joined(f, i, u))
  BY <1>5, <1>6, <1>8, <1>9, JoinedGrows
<1>11. QED BY <1>4, <1>10

-----------------------------------------------------------------------------
(* The operations. *)

LEMMA SignInRequests ==
  ASSUME WorkspacesInv, SignInInv, NEW c \in Callers,
         \/ \E u \in Users : BeginSignIn(c, u) \/ createWorkspace(c, u)
         \/ \E u \in Users, w \in Workspaces :
              \/ setActiveWorkspace(c, u, w)
              \/ removeWorkspace(c, u, w)
              \/ \E role \in Granted \cup {Null} : StartMember(c, w, u, role)
         \/ \E w \in Workspaces, lookup \in Lookups, role \in Granted :
              upsertMember(c, w, lookup, role)
         \/ \E i \in Invites : revokeInvite(c, i)
         \/ \E a \in Identities, i \in Invites : BeginAcceptInD1(c, a, i)
  PROVE  SignInInv'
<1>1. CASE \E u \in Users : BeginSignIn(c, u) \/ createWorkspace(c, u)
  BY <1>1, SignInStart
     DEF BeginSignIn, createWorkspace, NewCall, NeedsWorkspace
<1>2. CASE \E u \in Users, w \in Workspaces : setActiveWorkspace(c, u, w)
  BY <1>2, SignInStart DEF setActiveWorkspace, NewCall, NeedsWorkspace
<1>3. CASE \E u \in Users, w \in Workspaces : removeWorkspace(c, u, w)
  <2>1. PICK u \in Users, w \in Workspaces : removeWorkspace(c, u, w)
    BY <1>3
  <2>2. db.owner[w] # Null
    BY <2>1, WorkspaceConstants
       DEF removeWorkspace, SignInInv, Founded, Member, Roles
  <2>3. QED BY <2>1, <2>2, SignInStart DEF removeWorkspace, NewCall
<1>4. CASE \E u \in Users, w \in Workspaces, role \in Granted \cup {Null} :
             StartMember(c, w, u, role)
  BY <1>4, SignInStart DEF StartMember, NewCall
<1>5. CASE \E w \in Workspaces, lookup \in Lookups, role \in Granted :
             upsertMember(c, w, lookup, role)
  BY <1>5, SignInStart DEF upsertMember, NewCall, Live
<1>6. CASE \E i \in Invites : revokeInvite(c, i)
  BY <1>6, SignInStart DEF revokeInvite, NewCall, NeedsWorkspace
<1>7. CASE \E a \in Identities, i \in Invites : BeginAcceptInD1(c, a, i)
  BY <1>7, SignInStart DEF BeginAcceptInD1, NewCall, NeedsWorkspace
<1>8. QED BY <1>1, <1>2, <1>3, <1>4, <1>5, <1>6, <1>7

LEMMA SignInStatements ==
  ASSUME WorkspacesInv, SignInInv,
         \/ \E a \in Identities : getOrCreateUser(a)
         \/ \E w \in Workspaces :
              \/ softDeleteWorkspace(w) \/ restoreWorkspace(w) \/ listInvites(w)
              \/ \E i \in Invites, email \in Emails, role \in Granted :
                   createInvite(i, w, email, role)
         \/ \E a \in Identities, i \in Invites :
              acceptInviteAndProvisionUser(a, i) \/ consumeInvite(a, i)
  PROVE  SignInInv'
<1> db \in Tables
  BY DEF WorkspacesInv, TypeOK
<1>1. CASE \E a \in Identities : getOrCreateUser(a)
  <2>1. PICK a \in Identities : getOrCreateUser(a)
    BY <1>1
  <2>2. PICK d : d = WithAccount(db, a)
    OBVIOUS
  <2>3. Grows(db, d)
    BY <2>2, WithAccountRows, SameGrows
  <2>4. db' = d /\ calls' = Overtake(d, calls) /\ UNCHANGED tx
    BY <2>1, <2>2 DEF getOrCreateUser
  <2>5. QED BY <2>3, <2>4, SignInStatement
<1>2. ASSUME NEW d, Statement(d), Grows(db, d)
      PROVE  SignInInv'
  BY <1>2, SignInStatement DEF Statement
<1>3. CASE \E w \in Workspaces : softDeleteWorkspace(w)
  BY <1>2, <1>3, DeletedGrows DEF softDeleteWorkspace, Live
<1>4. CASE \E w \in Workspaces : restoreWorkspace(w)
  <2>1. PICK w \in Workspaces : restoreWorkspace(w)
    BY <1>4
  <2>2. db.owner[w] # Null
    BY <2>1 DEF restoreWorkspace, SignInInv, Founded
  <2>3. QED BY <1>2, <2>1, <2>2, DeletedGrows DEF restoreWorkspace
<1>5. CASE \E w \in Workspaces : listInvites(w)
  BY <1>2, <1>5, ExpireGrows, SameGrows DEF listInvites
<1>6. CASE \E w \in Workspaces, i \in Invites, email \in Emails,
             role \in Granted : createInvite(i, w, email, role)
  BY <1>2, <1>6, ColumnGrows DEF createInvite
<1>7. CASE \E a \in Identities, i \in Invites : acceptInviteAndProvisionUser(a, i)
  <2>1. PICK a \in Identities, i \in Invites :
          acceptInviteAndProvisionUser(a, i)
    BY <1>7
  <2>2. PICK d : d = WithAccount(db, a)
    OBVIOUS
  <2>3. PICK e : e = Accepted(d, i, d.accounts[a])
    OBVIOUS
  <2>4. /\ CanCreateUser(db, a) /\ Sent(db, i)
        /\ db' = e /\ calls' = Overtake(e, calls) /\ UNCHANGED tx
    BY <2>1, <2>2, <2>3
       DEF acceptInviteAndProvisionUser, Valid, Pending
  <2>5. d \in Tables /\ d.accounts[a] \in Users /\ SameCore(db, d)
    BY <2>2, <2>4, WithAccountTypes
  <2>6. d.owner = db.owner /\ d.deleted = db.deleted /\ d.role = db.role
    BY <2>2, WithAccountRows
  <2>7. Sent(d, i) /\ d.owner[d.invites[i].ws] # Null
    BY <2>4, <2>5 DEF Sent, SameCore, WorkspacesInv, TablesOK, InvitesOK
  <2>8. Grows(db, e)
    BY <2>3, <2>5, <2>6, <2>7, AcceptedGrows
  <2>9. QED BY <2>4, <2>8, SignInStatement
<1>8. CASE \E a \in Identities, i \in Invites : consumeInvite(a, i)
  <2>1. PICK a \in Identities, i \in Invites : consumeInvite(a, i)
    BY <1>8
  <2>2. PICK d : d = ExpireDue(db, db.invites[i].ws)
    OBVIOUS
  <2>3. PICK e : e = Accepted(d, i, db.accounts[a])
    OBVIOUS
  <2>4. /\ db.accounts[a] # Null /\ Sent(db, i)
        /\ db' = e \/ db' = d
        /\ calls' = Overtake(db', calls) /\ UNCHANGED tx
    BY <2>1, <2>2, <2>3 DEF consumeInvite
  <2>5. d \in Tables /\ InvitesMove(db, d)
    BY <2>2, ExpireMoves
  <2>6. d.owner = db.owner /\ d.deleted = db.deleted /\ d.role = db.role
    BY <2>2, ExpireGrows
  <2>7. Sent(d, i) /\ d.owner[d.invites[i].ws] # Null
    BY <2>4, <2>5, <2>6
       DEF InvitesMove, Sent, WorkspacesInv, TablesOK, InvitesOK
  <2>8. db.accounts[a] \in Users
    BY <2>4, TableFields
  <2>9. Grows(db, e) /\ Grows(db, d)
    BY <2>3, <2>5, <2>6, <2>7, <2>8, AcceptedGrows, SameGrows
  <2>10. CASE db' = e
    BY <2>4, <2>9, <2>10, SignInStatement
  <2>11. CASE db' = d
    BY <2>4, <2>9, <2>11, SignInStatement
  <2>12. QED BY <2>4, <2>10, <2>11
<1>9. QED BY <1>1, <1>3, <1>4, <1>5, <1>6, <1>7, <1>8

\* A step of a request that is no sign-in.
LEMMA SignInOther ==
  ASSUME WorkspacesInv, SignInInv, NEW c \in Callers, NEW d, NEW next,
         Step(c, d, next), UNCHANGED tx, Grows(db, d), ~ Idle(c),
         \/ next = NoCall
         \/ /\ next.op = calls[c].op /\ next.ws = calls[c].ws
            /\ next.op # "signIn"
  PROVE  SignInInv'
<1>1. next # NoCall => Informed(next, d) /\ GoesOn(c, d, next)
  BY DEF Informed, GoesOn, NeedsWorkspace
<1>2. QED BY <1>1, SignInStep

\* The same for a read.
LEMMA SignInRead ==
  ASSUME WorkspacesInv, SignInInv, NEW c \in Callers, NEW next,
         Step(c, db, next), UNCHANGED tx, ~ Idle(c),
         \/ next = NoCall
         \/ /\ next.op = calls[c].op /\ next.ws = calls[c].ws
            /\ next.op # "signIn"
  PROVE  SignInInv'
<1>1. Grows(db, db)
  BY SameGrows
<1>2. QED BY <1>1, SignInOther

\* Where a request is says what it is.
LEMMA OpAt ==
  ASSUME WorkspacesInv, NEW c \in Callers, NEW pc, At(c, pc)
  PROVE  /\ calls[c] \in Call /\ ~ Idle(c) /\ Knows(calls[c])
         /\ calls[c].pc = pc /\ db \in Tables
         /\ WriteAt(calls[c])
BY AtFacts DEF PlacedAt, Idle

LEMMA RemoveSteps ==
  ASSUME WorkspacesInv, SignInInv, NEW c \in Callers,
         \/ Activate(c) \/ DeleteWorkspace(c) \/ Rehome(c) \/ RemoveInBatch(c)
  PROVE  SignInInv'
<1> db \in Tables
  BY DEF WorkspacesInv, TypeOK
<1> UNCHANGED tx
  BY DEF Activate, DeleteWorkspace, Rehome, RemoveInBatch
<1>1. CASE Activate(c)
  <2>1. PICK d : d = [db EXCEPT !.active[calls[c].user] = calls[c].ws]
    OBVIOUS
  <2>2. At(c, "activate") /\ Step(c, d, NoCall)
    BY <1>1, <2>1 DEF Activate
  <2>3. Grows(db, d)
    BY <2>1, ColumnGrows
  <2>4. QED BY <2>2, <2>3, SignInOther DEF At
<1>2. ASSUME NEW w, ~ Idle(c), calls[c].op = "remove", w = calls[c].ws
      PROVE  db.owner[w] # Null
  BY <1>2 DEF SignInInv, Founded, NeedsWorkspace, Idle
<1>3. CASE DeleteWorkspace(c)
  <2>1. PICK w : w = calls[c].ws
    OBVIOUS
  <2>2. PICK d : d = [db EXCEPT !.deleted = @ \cup {w}]
    OBVIOUS
  <2>3. PICK next : next = [calls[c] EXCEPT !.pc = "rehome", !.others = In(d, w)]
    OBVIOUS
  <2>4. At(c, "write") /\ calls[c].op = "remove" /\ Step(c, d, next)
    BY <1>3, <2>1, <2>2, <2>3 DEF DeleteWorkspace
  <2>5. Grows(db, d)
    BY <1>2, <2>1, <2>2, <2>4, DeletedGrows DEF At
  <2>6. ~ Idle(c) /\ next.op = "remove" /\ next.ws = calls[c].ws
    BY <2>3, <2>4, OpAt DEF Call
  <2>7. QED BY <2>4, <2>5, <2>6, SignInOther
<1>4. CASE Rehome(c)
  <2>1. At(c, "rehome") /\ calls[c] \in Call /\ calls[c].op = "remove" /\ ~ Idle(c)
    BY <1>4, OpAt DEF Rehome, Knows
  <2>2. CASE Continue(c, "commit")
    <3>1. PICK next : next = [calls[c] EXCEPT !.pc = "commit"]
      OBVIOUS
    <3>2. next.op = "remove" /\ next.ws = calls[c].ws
      BY <2>1, <3>1 DEF Call
    <3>3. QED BY <2>1, <2>2, <3>1, <3>2, SignInRead DEF Continue
  <2>3. ASSUME NEW u, NEW w,
               Step(c, [db EXCEPT !.active[u] = w],
                       [calls[c] EXCEPT !.others = @ \ {u}])
        PROVE  SignInInv'
    <3>1. PICK next : next = [calls[c] EXCEPT !.others = @ \ {u}]
      OBVIOUS
    <3>2. PICK d : d = [db EXCEPT !.active[u] = w]
      OBVIOUS
    <3>3. next.op = "remove" /\ next.ws = calls[c].ws
      BY <2>1, <3>1 DEF Call
    <3>4. Grows(db, d)
      BY <3>2, ColumnGrows
    <3>5. QED BY <2>1, <2>3, <3>1, <3>2, <3>3, <3>4, SignInOther
  <2>4. QED BY <1>4, <2>2, <2>3 DEF Rehome
<1>5. CASE RemoveInBatch(c)
  <2>1. PICK w : w = calls[c].ws
    OBVIOUS
  <2>2. PICK d : d = [db EXCEPT !.deleted = @ \cup {w}]
    OBVIOUS
  <2>3. PICK e, active : /\ At(c, "batch") /\ calls[c].op = "remove"
                         /\ e = [d EXCEPT !.active = active]
                         /\ Step(c, e, NoCall)
    BY <1>5, <2>1, <2>2 DEF RemoveInBatch
  <2>4. Grows(db, d)
    BY <1>2, <2>1, <2>2, <2>3, DeletedGrows DEF At
  <2>5. e.owner = d.owner /\ e.deleted = d.deleted /\ e.role = d.role
    BY <2>2, <2>3 DEF Tables
  <2>6. Grows(db, e)
    BY <2>4, <2>5 DEF Grows, Member
  <2>7. QED BY <2>3, <2>6, SignInOther DEF At
<1>6. QED BY <1>1, <1>3, <1>4, <1>5

LEMMA InviteSteps ==
  ASSUME WorkspacesInv, SignInInv, NEW c \in Callers,
         \/ Revoke(c) \/ GetUserInD1(c) \/ ReadOldest(c) \/ AcceptBatch(c)
         \/ \E a \in Identities, i \in Invites : BeginConsumeInD1(c, a, i)
  PROVE  SignInInv'
<1> db \in Tables
  BY DEF WorkspacesInv, TypeOK
<1> UNCHANGED tx
  BY DEF Revoke, GetUserInD1, ReadOldest, AcceptBatch, BeginConsumeInD1
<1>1. CASE Revoke(c)
  <2>1. PICK d : d = [db EXCEPT !.invites[calls[c].invite].status = "revoked"]
    OBVIOUS
  <2>2. At(c, "revoke") /\ Step(c, d, NoCall)
    BY <1>1, <2>1 DEF Revoke
  <2>3. Grows(db, d)
    BY <2>1, ColumnGrows
  <2>4. QED BY <2>2, <2>3, SignInOther DEF At
<1>2. CASE GetUserInD1(c)
  <2>1. PICK d : d = WithAccount(db, calls[c].account)
    OBVIOUS
  <2>2. PICK next : next = [calls[c] EXCEPT
                              !.pc = "accept",
                              !.user = d.accounts[calls[c].account]]
    OBVIOUS
  <2>3. At(c, "user") /\ Step(c, d, next)
    BY <1>2, <2>1, <2>2 DEF GetUserInD1
  <2>4. Grows(db, d)
    BY <2>1, WithAccountRows, SameGrows
  <2>5. calls[c] \in Call /\ calls[c].op = "accept" /\ ~ Idle(c)
    BY <2>3, OpAt DEF Knows
  <2>6. next.op = "accept" /\ next.ws = calls[c].ws
    BY <2>2, <2>5 DEF Call
  <2>7. QED BY <2>3, <2>4, <2>5, <2>6, SignInOther
<1>3. CASE ReadOldest(c)
  <2>1. At(c, "oldest") /\ calls[c] \in Call /\ calls[c].op = "accept" /\ ~ Idle(c)
    BY <1>3, OpAt DEF ReadOldest, Knows
  <2>2. PICK next : next = [calls[c] EXCEPT !.pc = "accept"]
    OBVIOUS
  <2>3. next.op = "accept" /\ next.ws = calls[c].ws
    BY <2>1, <2>2 DEF Call
  <2>4. Step(c, db, next) \/ Step(c, db, NoCall)
    BY <1>3, <2>2 DEF ReadOldest, Continue
  <2>5. QED BY <2>1, <2>3, <2>4, SignInRead
<1>4. CASE AcceptBatch(c)
  <2>1. PICK i : i = calls[c].invite
    OBVIOUS
  <2>2. PICK u : u = calls[c].user
    OBVIOUS
  <2>3. At(c, "accept")
    BY <1>4 DEF AcceptBatch
  <2>4. i \in Invites /\ u \in Users /\ Sent(db, i) /\ ~ Idle(c)
    BY <2>1, <2>2, <2>3, OpAt DEF Knows, WriteAt
  <2>5. db.owner[db.invites[i].ws] # Null
    BY <2>4 DEF WorkspacesInv, TablesOK, InvitesOK
  <2>6. PICK d : /\ Step(c, d, NoCall)
                 /\ \/ d = Accepted(db, i, u) \/ d = Joined(db, i, u)
                    \/ d = [db EXCEPT !.active[u] = db.invites[i].ws] \/ d = db
    BY <1>4, <2>1, <2>2 DEF AcceptBatch
  <2>7. Grows(db, d)
    <3>1. Grows(db, Accepted(db, i, u))
      BY <2>4, <2>5, AcceptedGrows
    <3>2. Grows(db, Joined(db, i, u))
      BY <2>4, <2>5, JoinedGrows
    <3>3. Grows(db, [db EXCEPT !.active[u] = db.invites[i].ws])
      BY ColumnGrows
    <3>4. Grows(db, db)
      BY SameGrows
    <3>5. QED BY <2>6, <3>1, <3>2, <3>3, <3>4
  <2>8. QED BY <2>4, <2>6, <2>7, SignInOther
<1>5. CASE \E a \in Identities, i \in Invites : BeginConsumeInD1(c, a, i)
  <2>1. PICK a \in Identities, i \in Invites : BeginConsumeInD1(c, a, i)
    BY <1>5
  <2>2. PICK d : d = ExpireDue(db, db.invites[i].ws)
    OBVIOUS
  <2>3. PICK next : next = [NewCall("accept", "oldest")
                              EXCEPT !.user = db.accounts[a], !.invite = i]
    OBVIOUS
  <2>4. Step(c, d, next)
    BY <2>1, <2>2, <2>3 DEF BeginConsumeInD1
  <2>5. Grows(db, d)
    BY <2>2, ExpireGrows, SameGrows
  <2>6. next.op = "accept"
    BY <2>3 DEF NewCall
  <2>7. Informed(next, d) /\ GoesOn(c, d, next)
    BY <2>6 DEF Informed, GoesOn, NeedsWorkspace
  <2>8. QED BY <2>4, <2>5, <2>7, SignInStep
<1>6. QED BY <1>1, <1>2, <1>3, <1>4, <1>5

LEMMA MemberSteps ==
  ASSUME WorkspacesInv, SignInInv, NEW c \in Callers,
         \/ FindUser(c) \/ AddUser(c) \/ AddAccount(c) \/ ReadMember(c)
         \/ AddMember(c) \/ TransferOwner(c) \/ WriteMember(c)
  PROVE  SignInInv'
<1> db \in Tables
  BY DEF WorkspacesInv, TypeOK
<1> UNCHANGED tx
  BY DEF FindUser, AddUser, AddAccount, ReadMember, AddMember, TransferOwner,
         WriteMember
<1>1. /\ ~ Idle(c) /\ calls[c] \in Call /\ calls[c].op = "member"
      /\ calls[c].ws \in Workspaces
      /\ calls[c].pc \in {"transfer", "write", "addMember"} => calls[c].user \in Users
      /\ calls[c].pc = "addMember" => calls[c].role \in Roles
  <2>1. PICK pc : /\ At(c, pc)
                  /\ \/ pc \in {"find", "addUser", "addAccount", "readMember",
                                "addMember", "transfer"}
                     \/ pc = "write" /\ calls[c].op = "member"
    BY DEF FindUser, AddUser, AddAccount, ReadMember, AddMember, TransferOwner,
           WriteMember
  <2>2. QED BY <2>1, OpAt DEF Knows
<1>2. db.owner[calls[c].ws] # Null
  BY <1>1 DEF SignInInv, Founded, NeedsWorkspace, Idle
<1>3. ASSUME NEW d, NEW next, Step(c, d, next), Grows(db, d),
             \/ next = NoCall
             \/ next.op = "member" /\ next.ws = calls[c].ws
      PROVE  SignInInv'
  BY <1>1, <1>3, SignInOther
<1>4. Grows(db, db)
  BY SameGrows
<1>5. \A pc, u, others :
        LET next == [calls[c] EXCEPT !.pc = pc]
            named == [calls[c] EXCEPT !.pc = pc, !.user = u]
            added == [calls[c] EXCEPT !.user = u, !.pc = pc]
            counted == [calls[c] EXCEPT !.pc = pc, !.others = others]
        IN  /\ next.op = "member" /\ next.ws = calls[c].ws
            /\ named.op = "member" /\ named.ws = calls[c].ws
            /\ added.op = "member" /\ added.ws = calls[c].ws
            /\ counted.op = "member" /\ counted.ws = calls[c].ws
  BY <1>1 DEF Call
<1>6. CASE FindUser(c)
  BY <1>3, <1>4, <1>5, <1>6 DEF FindUser, Continue
<1>7. CASE AddUser(c)
  <2>1. PICK d : d = WithUser(db, calls[c].email)
    OBVIOUS
  <2>2. PICK next, pc : /\ next = [calls[c] EXCEPT !.user = NewUser(db), !.pc = pc]
                        /\ Step(c, d, next)
    BY <1>7, <2>1 DEF AddUser
  <2>3. Grows(db, d)
    BY <2>1, WithUserGrows
  <2>4. next.op = "member" /\ next.ws = calls[c].ws
    BY <1>5, <2>2
  <2>5. QED BY <1>3, <2>2, <2>3, <2>4
<1>8. CASE AddAccount(c)
  <2>1. PICK d : /\ d = db \/ d = [db EXCEPT !.accounts[calls[c].account] = calls[c].user]
                 /\ Step(c, d, [calls[c] EXCEPT !.pc = "readMember"])
    BY <1>8 DEF AddAccount
  <2>2. Grows(db, d)
    <3>1. Grows(db, [db EXCEPT !.accounts[calls[c].account] = calls[c].user])
      BY ColumnGrows
    <3>2. QED BY <1>4, <2>1, <3>1
  <2>3. QED BY <1>3, <1>5, <2>1, <2>2
<1>9. CASE ReadMember(c)
  BY <1>3, <1>4, <1>5, <1>9 DEF ReadMember, Continue
<1>10. ASSUME NEW role \in Roles \cup {Null}, calls[c].user \in Users
       PROVE  Grows(db, [db EXCEPT !.role[calls[c].ws][calls[c].user] = role])
  <2>1. PICK d : d = [db EXCEPT !.role[calls[c].ws][calls[c].user] = role]
    OBVIOUS
  <2>2. /\ d.role = [db.role EXCEPT ![calls[c].ws][calls[c].user] = role]
        /\ d.owner = db.owner
    BY <1>1, <1>10, <2>1, SetRole
  <2>3. d.deleted = db.deleted
    BY <2>1 DEF Tables
  <2>4. Grows(db, d)
    <3>1. PICK w, u : w = calls[c].ws /\ u = calls[c].user
      OBVIOUS
    <3>2. /\ w \in Workspaces /\ u \in Users /\ db.owner[w] # Null
          /\ d.role = [db.role EXCEPT ![w][u] = role]
      BY <1>1, <1>2, <1>10, <2>2, <3>1
    <3>3. QED BY <1>10, <2>2, <2>3, <3>2, RoleGrows
  <2>5. QED BY <2>1, <2>4
<1>11. CASE AddMember(c)
  <2>1. PICK role : /\ role = IF db.role[calls[c].ws][calls[c].user] = Null
                              THEN calls[c].role
                              ELSE db.role[calls[c].ws][calls[c].user]
                    /\ Step(c, [db EXCEPT !.role[calls[c].ws][calls[c].user] = role],
                            NoCall)
    BY <1>11 DEF AddMember
  <2>2. calls[c].user \in Users /\ calls[c].role \in Roles
    BY <1>1, <1>11 DEF AddMember, At
  <2>3. role \in Roles \cup {Null}
    BY <1>1, <2>1, <2>2, TableFields
  <2>4. QED BY <1>3, <1>10, <2>1, <2>2, <2>3
<1>12. CASE TransferOwner(c)
  <2>1. PICK next : next = [calls[c] EXCEPT !.pc = "write"]
    OBVIOUS
  <2>2. \/ Step(c, db, next)
        \/ \E u \in calls[c].others :
             Step(c, [db EXCEPT !.owner[calls[c].ws] = u], next)
    BY <1>12, <2>1 DEF TransferOwner
  <2>3. next.op = "member" /\ next.ws = calls[c].ws
    BY <1>5, <2>1
  <2>4. ASSUME NEW u \in calls[c].others
        PROVE  Grows(db, [db EXCEPT !.owner[calls[c].ws] = u])
    <3>1. u # Null
      BY <1>1, WorkspaceConstants DEF Call
    <3>2. PICK d : d = [db EXCEPT !.owner[calls[c].ws] = u]
      OBVIOUS
    <3>3. /\ d.owner = [db.owner EXCEPT ![calls[c].ws] = u]
          /\ d.deleted = db.deleted /\ d.role = db.role
      BY <3>2 DEF Tables
    <3>4. \A w \in Workspaces : db.owner[w] # Null => d.owner[w] # Null
      BY <3>1, <3>3, TableFields
    <3>5. Grows(db, d)
      BY <3>3, <3>4 DEF Grows, Member
    <3>6. QED BY <3>2, <3>5
  <2>5. QED BY <1>3, <1>4, <2>2, <2>3, <2>4
<1>13. CASE WriteMember(c)
  <2>1. PICK next : next = [calls[c] EXCEPT !.pc = "commit"]
    OBVIOUS
  <2>2. /\ Step(c, [db EXCEPT !.role[calls[c].ws][calls[c].user] = calls[c].role],
                next)
        /\ calls[c].pc = "write"
    BY <1>13, <2>1 DEF WriteMember, At
  <2>3. next.op = "member" /\ next.ws = calls[c].ws
    BY <1>5, <2>1
  <2>4. calls[c].user \in Users /\ calls[c].role \in Roles \cup {Null}
    BY <1>1, <2>2 DEF Call
  <2>5. QED BY <1>3, <1>10, <2>2, <2>3, <2>4
<1>14. QED BY <1>6, <1>7, <1>8, <1>9, <1>11, <1>12, <1>13

\* A user who has just founded a default workspace is in it.
LEMMA InsertedGrows ==
  ASSUME WorkspacesInv, SignInInv, NEW c \in Callers, calls[c].user \in Users,
         \E w \in Workspaces : db.owner[w] = Null
  PROVE  /\ Grows(db, Inserted(c))
         /\ calls[c].op = "signIn" => Settled(Inserted(c), calls[c].user)
<1> DEFINE u == calls[c].user
           w == NewWorkspace(db)
           e == WithWorkspace(db, w, u)
           d == Inserted(c)
<1> db \in Tables
  BY DEF WorkspacesInv, TypeOK
<1>1. w \in Workspaces /\ db.owner[w] = Null /\ u # Null
  BY WorkspaceConstants DEF NewWorkspace
<1>2. /\ e \in Tables
      /\ e.owner = [db.owner EXCEPT ![w] = u]
      /\ e.role = [db.role EXCEPT ![w][u] = "owner"]
  BY <1>1, WithWorkspaceTypes
<1>3. e.deleted = db.deleted
  BY DEF WithWorkspace, Tables
<1>4. /\ d = e \/ d = [e EXCEPT !.active[u] = w]
      /\ calls[c].op = "signIn" => d = [e EXCEPT !.active[u] = w]
  BY DEF Inserted
<1> HIDE DEF e, w
<1>5. PICK f : f = [e EXCEPT !.active[u] = w]
  OBVIOUS
<1>6. /\ f.owner = e.owner /\ f.deleted = e.deleted /\ f.role = e.role
      /\ f.active = [e.active EXCEPT ![u] = w]
  BY <1>2, <1>5 DEF Tables
<1>7. ASSUME NEW g, g.owner = e.owner, g.deleted = e.deleted, g.role = e.role
      PROVE  Grows(db, g)
  <2>1. \A v \in Workspaces : db.owner[v] # Null => g.owner[v] # Null
    BY <1>1, <1>2, <1>7, TableFields
  <2>2. g.deleted = db.deleted
    BY <1>3, <1>7
  <2>3. ASSUME NEW v \in Workspaces, NEW x \in Users, g.role[v][x] # Null
        PROVE  db.role[v][x] # Null \/ g.owner[v] # Null
    <3>1. CASE v = w
      BY <1>1, <1>2, <1>7, <3>1, TableFields
    <3>2. CASE v # w
      BY <1>2, <1>7, <2>3, <3>2, TableFields
    <3>3. QED BY <3>1, <3>2
  <2>4. QED BY <2>1, <2>2, <2>3 DEF Grows, Member
<1>8. Grows(db, e) /\ Grows(db, f)
  BY <1>6, <1>7
<1>9. Settled(f, u)
  <2>1. w \notin db.deleted
    BY <1>1 DEF SignInInv, Founded
  <2>2. f.owner[w] # Null /\ w \notin f.deleted
    BY <1>1, <1>2, <1>3, <1>6, <2>1, TableFields
  <2>3. f.role[w][u] # Null
    <3>1. f.role[w][u] = "owner"
      BY <1>1, <1>2, <1>6, TableFields
    <3>2. QED BY <3>1, WorkspaceConstants DEF Roles
  <2>4. f.active[u] = w
    BY <1>2, <1>6, TableFields
  <2>5. QED BY <1>1, <2>2, <2>3, <2>4 DEF Settled, Homes, Live, Member
<1>10. QED BY <1>4, <1>5, <1>8, <1>9

LEMMA SignInSteps ==
  ASSUME WorkspacesInv, SignInInv, NEW c \in Callers,
         ReadMembership(c) \/ RepairActive(c) \/ InsertWorkspace(c)
  PROVE  SignInInv'
<1> db \in Tables
  BY DEF WorkspacesInv, TypeOK
<1> UNCHANGED tx
  BY DEF ReadMembership, RepairActive, InsertWorkspace
<1>1. Grows(db, db)
  BY SameGrows
<1>2. CASE ReadMembership(c)
  <2>1. /\ At(c, "membership") /\ calls[c] \in Call /\ calls[c].op = "signIn"
        /\ ~ Idle(c)
    BY <1>2, OpAt DEF ReadMembership, Knows
  <2>2. CASE \E w \in Homes(db, calls[c].user) :
               Step(c, db, [calls[c] EXCEPT !.pc = "repair", !.ws = w])
    <3>1. PICK w \in Homes(db, calls[c].user) :
                 Step(c, db, [calls[c] EXCEPT !.pc = "repair", !.ws = w])
      BY <2>2
    <3>2. PICK next : next = [calls[c] EXCEPT !.pc = "repair", !.ws = w]
      OBVIOUS
    <3>3. /\ next.pc = "repair" /\ next.ws = w /\ next.op = "signIn"
          /\ next.user = calls[c].user
      BY <2>1, <3>2 DEF Call
    <3>4. Informed(next, db) /\ GoesOn(c, db, next)
      BY <3>1, <3>3 DEF Informed, GoesOn, NeedsWorkspace
    <3>5. QED BY <1>1, <3>1, <3>2, <3>4, SignInStep
  <2>3. ASSUME NEW pc \in {"batch", "begin"}, Continue(c, pc),
               Homes(db, calls[c].user) = {}
        PROVE  SignInInv'
    <3>1. PICK next : next = [calls[c] EXCEPT !.pc = pc]
      OBVIOUS
    <3>2. /\ next.pc = pc /\ next.op = "signIn" /\ next.user = calls[c].user
      BY <2>1, <3>1 DEF Call
    <3>3. Informed(next, db) /\ GoesOn(c, db, next)
      BY <2>3, <3>2 DEF Informed, GoesOn, NeedsWorkspace
    <3>4. QED BY <1>1, <2>3, <3>1, <3>3, SignInStep DEF Continue
  <2>4. QED BY <1>2, <2>2, <2>3 DEF ReadMembership
<1>3. CASE RepairActive(c)
  <2>1. PICK d : d = [db EXCEPT !.active[calls[c].user] = calls[c].ws]
    OBVIOUS
  <2>2. Step(c, d, NoCall)
    BY <1>3, <2>1 DEF RepairActive
  <2>3. Grows(db, d)
    BY <2>1, ColumnGrows
  <2>4. QED BY <2>2, <2>3, SignInStep
<1>4. CASE InsertWorkspace(c)
  <2>1. PICK d : d = Inserted(c)
    OBVIOUS
  <2>2. PICK next : next = [calls[c] EXCEPT !.pc = "commit",
                                            !.overtaken = FALSE]
    OBVIOUS
  <2>3. /\ \E w \in Workspaces : db.owner[w] = Null
        /\ \/ At(c, "insert") /\ Step(c, d, next)
           \/ At(c, "batch") /\ calls[c].op # "remove" /\ Step(c, d, NoCall)
    BY <1>4, <2>1, <2>2 DEF InsertWorkspace
  <2>4. /\ calls[c] \in Call /\ calls[c].user \in Users
        /\ calls[c].op \in {"signIn", "create"} /\ ~ Idle(c)
    BY <2>3, OpAt DEF Knows
  <2>5. /\ Grows(db, d)
        /\ calls[c].op = "signIn" => Settled(d, calls[c].user)
    BY <2>1, <2>3, <2>4, InsertedGrows
  <2>6. /\ next.pc = "commit" /\ next.op = calls[c].op
        /\ next.user = calls[c].user
    BY <2>2, <2>4 DEF Call
  <2>7. Informed(next, d) /\ GoesOn(c, d, next)
    BY <2>4, <2>5, <2>6 DEF Informed, GoesOn, NeedsWorkspace
  <2>8. QED BY <2>3, <2>5, <2>7, SignInStep
<1>5. QED BY <1>2, <1>3, <1>4

\* Transactions: what is founded at the outset is what a rollback returns to.
LEMMA TransactionSteps ==
  ASSUME WorkspacesInv, SignInInv, NEW c \in Callers,
         Begin(c) \/ Commit(c) \/ CheckMember(c) \/ CheckOwners(c)
  PROVE  SignInInv'
<1> db \in Tables
  BY DEF WorkspacesInv, TypeOK
<1>1. Grows(db, db)
  BY SameGrows
<1>2. CASE Begin(c)
  <2>1. PICK next : next = [calls[c] EXCEPT !.pc = FirstStep(calls[c].op)]
    OBVIOUS
  <2>2. /\ At(c, "begin") /\ tx = NoTx /\ Step(c, db, next)
        /\ tx' = [caller |-> c, saved |-> db]
    BY <1>2, <2>1 DEF Begin, Continue
  <2>3. calls[c] \in Call /\ ~ Idle(c)
    BY <2>2, OpAt
  <2>4. /\ next.pc \in {"check", "write", "insert"}
        /\ next.op = calls[c].op /\ next.ws = calls[c].ws
    <3>1. FirstStep(calls[c].op) \in {"check", "write", "insert"}
      BY DEF FirstStep
    <3>2. QED BY <2>1, <2>3, <3>1 DEF Call
  <2>5. Informed(next, db) /\ GoesOn(c, db, next)
    <3>1. /\ next.user = calls[c].user /\ next.overtaken = calls[c].overtaken
          /\ calls[c].pc = "begin"
      BY <2>1, <2>2, <2>3 DEF Call, At
    <3>2. Informed(calls[c], db)
      BY <2>3 DEF SignInInv
    <3>3. QED BY <2>3, <2>4, <3>1, <3>2 DEF Informed, GoesOn, NeedsWorkspace
  <2>6. db' = db
    BY <2>2, StepWatched DEF WorkspacesInv
  <2>7. Founded(db, calls')
    BY <1>1, <2>2, <2>5, StepFounded DEF SignInInv
  <2>8. \A x \in Callers : Idle(x)' \/ Informed(calls'[x], db')
    BY <2>2, <2>5, StepInformed
  <2>9. tx'.saved = db
    BY <2>2
  <2>10. QED BY <2>6, <2>7, <2>8, <2>9 DEF SignInInv, Idle
<1>3. CASE Commit(c)
  <2>1. calls = [x \in Callers |-> calls[x]]
    BY DEF WorkspacesInv, TypeOK
  <2>2. Overtake(db, calls) = calls
    BY <2>1 DEF Overtake, Belies
  <2>3. Step(c, db, NoCall) /\ tx' = NoTx /\ db' = db
    BY <1>3, <2>2 DEF Commit, Step
  <2>4. Founded(db, calls')
    BY <1>1, <2>3, StepFounded DEF SignInInv
  <2>5. \A x \in Callers : Idle(x)' \/ Informed(calls'[x], db')
    BY <2>3, StepInformed
  <2>6. QED BY <2>3, <2>4, <2>5 DEF SignInInv, Idle
<1>4. ASSUME NEW pc \in {"check", "owners"}, At(c, pc)
      PROVE  /\ ~ Idle(c) /\ calls[c] \in Call /\ calls[c].op = "member"
             /\ tx # NoTx
  BY <1>4, AtFacts DEF PlacedAt, Knows, InTx, At
<1>5. ASSUME NEW pc \in {"check", "owners"}, At(c, pc), Rollback(c)
      PROVE  SignInInv'
  <2>1. PICK d : d = tx.saved
    OBVIOUS
  <2>2. Step(c, d, NoCall) /\ tx' = NoTx
    BY <1>5, <2>1 DEF Rollback
  <2>3. d \in Tables /\ Founded(d, calls)
    BY <1>4, <1>5, <2>1 DEF WorkspacesInv, TypeOK, SignInInv
  <2>4. Grows(d, d) /\ db' = d
    BY <2>2, SameGrows, StepWatched DEF WorkspacesInv
  <2>5. Founded(d, calls')
    BY <2>2, <2>3, <2>4, StepFounded
  <2>6. \A x \in Callers : Idle(x)' \/ Informed(calls'[x], db')
    BY <2>2, StepInformed
  <2>7. QED BY <2>2, <2>4, <2>5, <2>6 DEF SignInInv, Idle
<1>6. CASE CheckMember(c)
  <2>1. At(c, "check")
    BY <1>6 DEF CheckMember
  <2>2. PICK pc : \/ Rollback(c)
                  \/ Continue(c, pc) /\ UNCHANGED tx
    BY <1>6 DEF CheckMember
  <2>3. PICK next : next = [calls[c] EXCEPT !.pc = pc]
    OBVIOUS
  <2>4. next.op = "member" /\ next.ws = calls[c].ws
    BY <1>4, <2>1, <2>3 DEF Call
  <2>5. QED BY <1>4, <1>5, <2>1, <2>2, <2>3, <2>4, SignInRead DEF Continue
<1>7. CASE CheckOwners(c)
  <2>1. At(c, "owners")
    BY <1>7 DEF CheckOwners
  <2>2. PICK others : \/ Rollback(c)
                      \/ /\ Step(c, db, [calls[c] EXCEPT !.pc = "transfer",
                                                         !.others = others])
                         /\ UNCHANGED tx
    BY <1>7 DEF CheckOwners
  <2>3. PICK next : next = [calls[c] EXCEPT !.pc = "transfer", !.others = others]
    OBVIOUS
  <2>4. next.op = "member" /\ next.ws = calls[c].ws
    BY <1>4, <2>1, <2>3 DEF Call
  <2>5. QED BY <1>4, <1>5, <2>1, <2>2, <2>3, <2>4, SignInRead
<1>8. QED BY <1>2, <1>3, <1>6, <1>7

\* A crash leaves the tables as a rollback does, and nobody at work.
LEMMA SignInCrash ==
  ASSUME WorkspacesInv, SignInInv, Crash
  PROVE  SignInInv'
<1> DEFINE d == IF tx = NoTx THEN db ELSE tx.saved
<1>1. /\ db' = d /\ tx' = NoTx
      /\ calls' = [c \in Callers |-> NoCall]
  BY DEF Crash
<1>2. d \in Tables /\ Founded(d, calls)
  BY DEF WorkspacesInv, TypeOK, SignInInv
<1> HIDE DEF d
<1>3. Grows(d, d)
  BY SameGrows
<1>4. \A c \in Callers : calls'[c] = NoCall
  BY <1>1
<1>5. Founded(d, calls')
  BY <1>2, <1>3, <1>4, FoundedKept
<1>6. QED BY <1>1, <1>4, <1>5 DEF SignInInv, Idle

\* When an invite falls due, no workspace changes.
LEMMA SignInDue ==
  ASSUME WorkspacesInv, SignInInv, NEW i \in Invites, FallDue(i)
  PROVE  SignInInv'
<1>1. /\ db' = [db EXCEPT !.invites[i].due = TRUE]
      /\ \/ tx' = tx
         \/ tx # NoTx /\ tx' = [tx EXCEPT !.saved.invites[i].due = TRUE]
      /\ calls' = calls
  BY DEF FallDue
<1>2. db \in Tables
  BY DEF WorkspacesInv, TypeOK
<1>3. /\ db'.owner = db.owner /\ db'.deleted = db.deleted
      /\ db'.role = db.role /\ db'.active = db.active
  BY <1>1, <1>2 DEF Tables
<1>4. Founded(db', calls')
  BY <1>1, <1>3 DEF SignInInv, Founded, Member
<1>5. ASSUME tx' # NoTx
      PROVE  Founded(tx'.saved, calls')
  <2>1. CASE tx' = tx
    BY <1>1, <1>5, <2>1 DEF SignInInv
  <2>2. CASE tx # NoTx /\ tx' = [tx EXCEPT !.saved.invites[i].due = TRUE]
    <3>1. tx \in [caller: Callers, saved: Tables] /\ Founded(tx.saved, calls)
      BY <2>2 DEF WorkspacesInv, TypeOK, SignInInv
    <3>2. tx'.saved = [tx.saved EXCEPT !.invites[i].due = TRUE]
      BY <2>2, <3>1
    <3>3. /\ tx'.saved.owner = tx.saved.owner
          /\ tx'.saved.deleted = tx.saved.deleted
          /\ tx'.saved.role = tx.saved.role
      BY <3>1, <3>2 DEF Tables
    <3>4. QED BY <1>1, <3>1, <3>3 DEF Founded, Member
  <2>3. QED BY <1>1, <2>1, <2>2
<1>6. ASSUME NEW c \in Callers, calls[c] # NoCall
      PROVE  Informed(calls'[c], db')
  BY <1>1, <1>3, <1>6
     DEF SignInInv, Informed, Idle, Settled, Homes, Live, Member
<1>7. QED BY <1>1, <1>4, <1>5, <1>6 DEF SignInInv, Idle

LEMMA SignInInit ==
  ASSUME Init
  PROVE  SignInInv
<1>1. PICK invites \in Outset :
        /\ db.owner = [w \in Workspaces |-> IF w = Home THEN Founder ELSE Null]
        /\ db.deleted = {}
        /\ db.role = [w \in Workspaces |-> [u \in Users |->
                        IF w = Home /\ u = Founder THEN "owner" ELSE Null]]
  BY DEF Init
<1>2. tx = NoTx /\ calls = [c \in Callers |-> NoCall]
  BY DEF Init
<1>3. Founder # Null
  BY WorkspaceConstants
<1>4. Founded(db, calls)
  BY <1>1, <1>2, <1>3 DEF Founded, Member
<1>5. QED BY <1>2, <1>4 DEF SignInInv, Idle

LEMMA SignInKnows ==
  ASSUME WorkspacesInv, SignInInv, [Next]_vars
  PROVE  SignInInv'
<1>1. CASE Requests
  BY <1>1, SignInRequests, SignInStatements, InviteSteps
     DEF Requests, setMemberRole, removeMember
<1>2. CASE \E c \in Callers : Steps(c)
  BY <1>2, SignInSteps, TransactionSteps, RemoveSteps, InviteSteps, MemberSteps
     DEF Steps
<1>3. CASE \E i \in Invites : FallDue(i)
  BY <1>3, SignInDue
<1>4. CASE Crash
  BY <1>4, SignInCrash
<1>5. CASE UNCHANGED vars
  BY <1>5 DEF vars, SignInInv, Founded, Member, Informed, Idle, Settled, Homes,
              Live
<1>6. QED BY <1>1, <1>2, <1>3, <1>4, <1>5 DEF Next

-----------------------------------------------------------------------------
(* Which acceptances a rollback undoes. *)

\* What was answered outside of other requests' transactions is in the tables
\* a rollback goes back to.
SavedAnswers ==
  tx # NoTx =>
    \A i \in Invites \ (seen.undone \cup seen.nested) :
      seen.accepted[i] # {} => /\ tx.saved.invites[i] # Null
                               /\ tx.saved.invites[i].user \in seen.accepted[i]

\* The inductive invariant, next to WorkspacesInv.
UndoneInv == seen.undone \subseteq seen.nested /\ SavedAnswers

\* A request that answers no acceptance and leaves the transaction alone.
LEMMA UndoneSame ==
  ASSUME WorkspacesInv, UndoneInv, UNCHANGED tx,
         \/ UNCHANGED seen
         \/ \E i : seen' = [seen EXCEPT !.revoked = @ \cup {i}]
  PROVE  UndoneInv'
<1>1. /\ seen'.undone = seen.undone /\ seen'.nested = seen.nested
      /\ seen'.accepted = seen.accepted
  BY DEF WorkspacesInv, TypeOK, Seen
<1>2. QED BY <1>1 DEF UndoneInv, SavedAnswers

\* An acceptance inside an open transaction is marked as such.
LEMMA UndoneAnswer ==
  ASSUME WorkspacesInv, UndoneInv, NEW i \in Invites, NEW u \in Users,
         Sent(db, i), Answer(i, u), UNCHANGED tx
  PROVE  UndoneInv'
<1>1. /\ seen'.undone = seen.undone /\ seen.nested \subseteq seen'.nested
      /\ tx # NoTx => i \in seen'.nested
      /\ \A j \in Invites \ {i} : seen'.accepted[j] = seen.accepted[j]
  BY AnswerFacts DEF WorkspacesInv
<1>2. SavedAnswers'
  <2>1. ASSUME tx # NoTx, NEW j \in Invites \ (seen'.undone \cup seen'.nested),
               seen'.accepted[j] # {}
        PROVE  /\ tx.saved.invites[j] # Null
               /\ tx.saved.invites[j].user \in seen'.accepted[j]
    BY <1>1, <2>1 DEF UndoneInv, SavedAnswers
  <2>2. QED BY <2>1 DEF SavedAnswers
<1>3. QED BY <1>1, <1>2 DEF UndoneInv

\* A rollback, or a crash, undoes what ran inside its transaction at most.
LEMMA UndoneEnds ==
  ASSUME WorkspacesInv, UndoneInv, NEW d,
         d = (IF tx = NoTx THEN db ELSE tx.saved), tx' = NoTx,
         seen' = [seen EXCEPT !.undone = @ \cup Undone(d)]
  PROVE  UndoneInv'
<1>1. Undone(d) \subseteq seen.nested
  <2>1. ASSUME NEW i \in Undone(d), i \notin seen.nested
        PROVE  FALSE
    <3>1. /\ i \in Invites \ (seen.undone \cup seen.nested)
          /\ seen.accepted[i] # {}
          /\ ~ (d.invites[i] # Null /\ d.invites[i].user \in seen.accepted[i])
      BY <2>1 DEF Undone, UndoneInv
    <3>2. CASE tx = NoTx
      BY <3>1, <3>2 DEF WorkspacesInv, AnsweredOK, Sent
    <3>3. CASE tx # NoTx
      BY <3>1, <3>3 DEF UndoneInv, SavedAnswers
    <3>4. QED BY <3>2, <3>3
  <2>2. QED BY <2>1
<1>2. seen'.undone = seen.undone \cup Undone(d) /\ seen'.nested = seen.nested
  BY DEF WorkspacesInv, TypeOK, Seen
<1>3. QED BY <1>1, <1>2 DEF UndoneInv, SavedAnswers

LEMMA UndoneRequests ==
  ASSUME WorkspacesInv, UndoneInv, Requests
  PROVE  UndoneInv'
<1>1. CASE UNCHANGED <<tx, seen>>
  BY <1>1, UndoneSame
<1>2. ASSUME NEW a \in Identities, NEW i \in Invites,
             acceptInviteAndProvisionUser(a, i)
      PROVE  UndoneInv'
  <2> DEFINE u == WithAccount(db, a).accounts[a]
  <2>1. Sent(db, i) /\ Answer(i, u) /\ UNCHANGED tx
    BY <1>2 DEF acceptInviteAndProvisionUser, Valid, Pending
  <2>2. u \in Users
    BY <1>2, WithAccountTypes
       DEF acceptInviteAndProvisionUser, WorkspacesInv, TypeOK
  <2>3. QED BY <2>1, <2>2, UndoneAnswer
<1>3. ASSUME NEW a \in Identities, NEW i \in Invites, consumeInvite(a, i)
      PROVE  UndoneInv'
  <2>1. CASE UNCHANGED seen
    BY <1>3, <2>1, UndoneSame DEF consumeInvite
  <2>2. CASE Answer(i, db.accounts[a])
    <3>1. Sent(db, i) /\ db.accounts[a] \in Users /\ UNCHANGED tx
      BY <1>3, TableFields DEF consumeInvite, WorkspacesInv, TypeOK
    <3>2. QED BY <2>2, <3>1, UndoneAnswer
  <2>3. QED BY <1>3, <2>1, <2>2 DEF consumeInvite
<1>4. QED BY <1>1, <1>2, <1>3, ZenonT(60)
          DEF Requests, getOrCreateUser, BeginSignIn, createWorkspace,
              setActiveWorkspace, removeWorkspace, removeMember,
              setMemberRole, StartMember, upsertMember, softDeleteWorkspace,
              restoreWorkspace, listInvites, createInvite, revokeInvite,
              BeginAcceptInD1, BeginConsumeInD1, Start, Statement

LEMMA UndoneSteps ==
  ASSUME WorkspacesInv, UndoneInv, NEW c \in Callers, Steps(c)
  PROVE  UndoneInv'
<1>1. CASE UNCHANGED <<tx, seen>>
  BY <1>1, UndoneSame
<1>2. CASE Begin(c)
  <2>1. tx' = [caller |-> c, saved |-> db] /\ UNCHANGED seen
    BY <1>2 DEF Begin
  <2>2. tx'.saved = db
    BY <2>1
  <2>3. QED BY <2>1, <2>2
            DEF UndoneInv, SavedAnswers, WorkspacesInv, AnsweredOK, Sent
<1>3. CASE Commit(c)
  BY <1>3 DEF Commit, UndoneInv, SavedAnswers
<1>4. CASE Revoke(c)
  <2>1. UNCHANGED tx
        /\ \E i : seen' = [seen EXCEPT !.revoked = @ \cup {i}]
    BY <1>4 DEF Revoke
  <2>2. QED BY <2>1, UndoneSame
<1>5. CASE AcceptBatch(c)
  <2>1. CASE UNCHANGED seen
    BY <1>5, <2>1, UndoneSame DEF AcceptBatch
  <2>2. CASE ~ UNCHANGED seen
    <3>1. /\ At(c, "accept") /\ StillPending(calls[c].invite)
          /\ Answer(calls[c].invite, calls[c].user) /\ UNCHANGED tx
      BY <1>5, <2>2 DEF AcceptBatch
    <3>2. calls[c].invite \in Invites /\ calls[c].user \in Users
      BY <3>1, OpAt DEF Knows
    <3>3. QED BY <3>1, <3>2, UndoneAnswer DEF StillPending, Pending
  <2>3. QED BY <2>1, <2>2
<1>6. CASE Rollback(c) /\ ~ Idle(c) /\ calls[c].pc \in InTx
  <2>1. tx # NoTx
    BY <1>6 DEF WorkspacesInv, OneTransaction, PlacedAt
  <2>2. PICK d : d = tx.saved
    OBVIOUS
  <2>3. tx' = NoTx /\ seen' = [seen EXCEPT !.undone = @ \cup Undone(d)]
    BY <1>6, <2>2 DEF Rollback
  <2>4. QED BY <2>1, <2>2, <2>3, UndoneEnds
<1>7. CASE CheckMember(c) \/ CheckOwners(c)
  <2>1. UNCHANGED <<tx, seen>> \/ Rollback(c)
    BY <1>7 DEF CheckMember, CheckOwners
  <2>2. At(c, "check") \/ At(c, "owners")
    BY <1>7 DEF CheckMember, CheckOwners
  <2>3. QED BY <1>1, <1>6, <2>1, <2>2 DEF At, InTx
<1>8. QED BY <1>1, <1>2, <1>3, <1>4, <1>5, <1>7
          DEF Steps, ReadMembership, RepairActive, InsertWorkspace, Activate,
              DeleteWorkspace, Rehome, RemoveInBatch, GetUserInD1, ReadOldest,
              FindUser, AddUser, AddAccount, ReadMember, AddMember,
              TransferOwner, WriteMember

\* An invite that falls due keeps its user, in the saved tables as well.
LEMMA UndoneDue ==
  ASSUME WorkspacesInv, UndoneInv, NEW i \in Invites, FallDue(i)
  PROVE  UndoneInv'
<1>1. UNCHANGED seen /\ (tx = NoTx => tx' = NoTx)
  BY DEF FallDue
<1>2. CASE tx' = tx
  BY <1>1, <1>2, UndoneSame
<1>3. CASE tx # NoTx /\ tx' # tx
  <2>1. /\ Sent(tx.saved, i) /\ tx' = [tx EXCEPT !.saved.invites[i].due = TRUE]
        /\ tx \in [caller: Callers, saved: Tables]
    BY <1>3 DEF FallDue, WorkspacesInv, TypeOK
  <2>2. PICK saved : saved = tx.saved
    OBVIOUS
  <2>3. tx'.saved = [saved EXCEPT !.invites[i].due = TRUE] /\ saved \in Tables
    BY <2>1, <2>2
  <2>4. /\ tx'.saved.invites =
             [saved.invites EXCEPT ![i] = [saved.invites[i] EXCEPT !.due = TRUE]]
        /\ saved.invites \in [Invites -> Invite \cup {Null}]
    BY <2>3 DEF Tables
  <2>5. saved.invites[i] \in Invite
    BY <2>1, <2>2, <2>4 DEF Sent
  <2>6. ASSUME NEW j \in Invites, saved.invites[j] # Null
        PROVE  /\ tx'.saved.invites[j] # Null
               /\ tx'.saved.invites[j].user = saved.invites[j].user
    <3>1. CASE j = i
      <4>1. tx'.saved.invites[i] = [saved.invites[i] EXCEPT !.due = TRUE]
        BY <2>4
      <4>2. /\ [saved.invites[i] EXCEPT !.due = TRUE] \in Invite
            /\ [saved.invites[i] EXCEPT !.due = TRUE].user = saved.invites[i].user
        BY <2>5 DEF Invite
      <4>3. QED BY <3>1, <4>1, <4>2, WorkspaceSentinels
    <3>2. CASE j # i
      BY <2>4, <2>6, <3>2
    <3>3. QED BY <3>1, <3>2
  <2>7. QED BY <1>1, <1>3, <2>2, <2>6 DEF UndoneInv, SavedAnswers
<1>4. QED BY <1>1, <1>2, <1>3

\* One token lets one person in, with either driver, unless an acceptance was
\* rolled back, and only one that was answered inside another request's open
\* transaction can be: not a D1 batch, nor an acceptance on its own, whatever
\* crashes and refused role changes follow.
THEOREM InvitesAreUsedOnce == Spec => []InviteUsedOnce
<1>1. Init => UndoneInv
  BY DEF Init, UndoneInv, SavedAnswers
<1>2. ASSUME WorkspacesInv, UndoneInv, [Next]_vars
      PROVE  UndoneInv'
  <2>1. CASE Crash
    <3>1. PICK d : d = IF tx = NoTx THEN db ELSE tx.saved
      OBVIOUS
    <3>2. tx' = NoTx /\ seen' = [seen EXCEPT !.undone = @ \cup Undone(d)]
      BY <2>1, <3>1 DEF Crash
    <3>3. QED BY <1>2, <3>1, <3>2, UndoneEnds
  <2>2. CASE UNCHANGED vars
    BY <1>2, <2>2, UndoneSame DEF vars
  <2>3. QED BY <1>2, <2>1, <2>2, UndoneRequests, UndoneSteps, UndoneDue DEF Next
<1>3. WorkspacesInv /\ UndoneInv => InviteUsedOnce
  BY DEF WorkspacesInv, AcceptedOnce, UndoneInv, InviteUsedOnce
<1>4. QED BY <1>1, <1>2, <1>3, WorkspacesInvariant, PTL DEF Spec

-----------------------------------------------------------------------------
(* How a sign-in ends. *)

\* The requests that do not count among those a run is bounded by.
LEMMA RequestsSpend ==
  ASSUME Requests
  PROVE  \/ Spend
         \/ \E a \in Identities : getOrCreateUser(a)
         \/ \E c \in Callers, u \in Users : BeginSignIn(c, u)
BY ZenonT(60)
   DEF Requests, createWorkspace, setActiveWorkspace, removeWorkspace,
       removeMember, setMemberRole, StartMember, upsertMember, Statement,
       softDeleteWorkspace, restoreWorkspace, listInvites, createInvite,
       revokeInvite, acceptInviteAndProvisionUser, consumeInvite,
       BeginAcceptInD1, BeginConsumeInD1

LEMMA CommitIsStep ==
  ASSUME TypeOK, NEW c \in Callers, Commit(c)
  PROVE  Step(c, db, NoCall)
<1>1. calls = [x \in Callers |-> calls[x]]
  BY DEF TypeOK
<1>2. Overtake(db, calls) = calls
  BY <1>1 DEF Overtake, Belies
<1>3. QED BY <1>2 DEF Commit, Step

\* Each step of c is one of c alone.
LEMMA StepsStep ==
  ASSUME TypeOK, NEW c \in Callers, Steps(c)
  PROVE  \E d, next : Step(c, d, next)
<1>1. CASE Commit(c)
  BY <1>1, CommitIsStep
<1>2. CASE Begin(c) \/ ReadMembership(c) \/ RepairActive(c)
           \/ InsertWorkspace(c) \/ Activate(c)
  BY <1>2 DEF Begin, ReadMembership, RepairActive, InsertWorkspace, Activate,
              Continue
<1>3. CASE \/ DeleteWorkspace(c) \/ Rehome(c) \/ RemoveInBatch(c)
           \/ Revoke(c) \/ GetUserInD1(c) \/ ReadOldest(c) \/ AcceptBatch(c)
  BY <1>3 DEF DeleteWorkspace, Rehome, RemoveInBatch, Revoke, GetUserInD1,
              ReadOldest, AcceptBatch, Continue
<1>4. CASE \/ FindUser(c) \/ AddUser(c) \/ AddAccount(c)
           \/ ReadMember(c) \/ AddMember(c)
  BY <1>4 DEF FindUser, AddUser, AddAccount, ReadMember, AddMember, Continue
<1>5. CASE \/ CheckMember(c) \/ CheckOwners(c)
           \/ TransferOwner(c) \/ WriteMember(c)
  BY <1>5 DEF CheckMember, CheckOwners, TransferOwner, WriteMember, Continue,
              Rollback
<1>6. QED BY <1>1, <1>2, <1>3, <1>4, <1>5 DEF Steps

\* A sign-in takes no step of another operation.
LEMMA SignInTakes ==
  ASSUME WorkspacesInv, NEW c \in Callers, Steps(c), calls[c].op = "signIn"
  PROVE  \/ Begin(c) \/ Commit(c) \/ ReadMembership(c) \/ RepairActive(c)
         \/ InsertWorkspace(c)
<1>1. \A pc : At(c, pc) => Knows(calls[c]) /\ calls[c].pc = pc
  BY OpAt
<1>2. ~ Activate(c) /\ ~ DeleteWorkspace(c) /\ ~ Rehome(c) /\ ~ RemoveInBatch(c)
  BY <1>1 DEF Activate, DeleteWorkspace, Rehome, RemoveInBatch, Knows
<1>3. ~ Revoke(c) /\ ~ GetUserInD1(c) /\ ~ ReadOldest(c) /\ ~ AcceptBatch(c)
  BY <1>1 DEF Revoke, GetUserInD1, ReadOldest, AcceptBatch, Knows
<1>4. /\ ~ FindUser(c) /\ ~ AddUser(c) /\ ~ AddAccount(c)
      /\ ~ ReadMember(c) /\ ~ AddMember(c)
  BY <1>1 DEF FindUser, AddUser, AddAccount, ReadMember, AddMember, Knows
<1>5. ~ CheckMember(c) /\ ~ CheckOwners(c) /\ ~ TransferOwner(c) /\ ~ WriteMember(c)
  BY <1>1 DEF CheckMember, CheckOwners, TransferOwner, WriteMember, Knows
<1>6. QED BY <1>2, <1>3, <1>4, <1>5 DEF Steps

\* A call that moves on, to another workspace or not, is a call.
LEMMA MovedInCall ==
  ASSUME NEW call \in Call, NEW w \in Workspaces,
         NEW pc \in {"check", "write", "insert", "repair", "batch", "begin",
                     "commit"}
  PROVE  /\ [call EXCEPT !.pc = pc] \in Call
         /\ [call EXCEPT !.pc = pc, !.ws = w] \in Call
         /\ [call EXCEPT !.pc = pc, !.overtaken = FALSE] \in Call
<1>1. [call EXCEPT !.pc = pc] \in Call
  BY DEF Call
<1>2. ASSUME NEW moved \in Call
      PROVE  /\ [moved EXCEPT !.ws = w] \in Call
             /\ [moved EXCEPT !.overtaken = FALSE] \in Call
  <2>1. [moved EXCEPT !.ws = w] \in Call
    BY DEF Call
  <2>2. [moved EXCEPT !.overtaken = FALSE] \in Call
    BY ZenonT(60) DEF Call
  <2>3. QED BY <2>1, <2>2
<1>3. QED BY <1>1, <1>2

\* A sign-in that nobody belied ends in one of three ways.
LEMMA SignInEndsSettled ==
  ASSUME WorkspacesInv, SignInInv, NEW c \in Callers, Steps(c), SignInEnds(c)
  PROVE  Settled(db', calls[c].user)
<1>1. /\ ~ Idle(c) /\ calls[c].op = "signIn"
      /\ ~ calls[c].overtaken \/ At(c, "batch")
      /\ calls'[c] = NoCall
  BY DEF SignInEnds
<1>2. calls[c] \in Call /\ Knows(calls[c]) /\ db \in Tables /\ calls[c].user \in Users
  BY <1>1, CallTypes
     DEF WorkspacesInv, TypeOK, OneTransaction, PlacedAt, Knows
<1>3. Informed(calls[c], db)
  BY <1>1 DEF SignInInv
<1>4. ASSUME NEW d, NEW next, Step(c, d, next)
      PROVE  next = NoCall /\ db' = d
  BY <1>1, <1>4, StepWatched DEF WorkspacesInv
<1>6. \A pc \in {"check", "write", "insert", "repair", "batch", "begin", "commit"},
        w \in Workspaces :
        /\ [calls[c] EXCEPT !.pc = pc] # NoCall
        /\ [calls[c] EXCEPT !.pc = pc, !.ws = w] # NoCall
        /\ [calls[c] EXCEPT !.pc = pc, !.overtaken = FALSE] # NoCall
  <2>1. \A pc \in {"check", "write", "insert", "repair", "batch", "begin",
                   "commit"},
          w \in Workspaces :
          /\ [calls[c] EXCEPT !.pc = pc] \in Call
          /\ [calls[c] EXCEPT !.pc = pc, !.ws = w] \in Call
          /\ [calls[c] EXCEPT !.pc = pc, !.overtaken = FALSE] \in Call
    BY <1>2, MovedInCall
  <2>2. \A call \in Call : call # NoCall
    BY WorkspaceSentinels
  <2>3. QED BY <2>1, <2>2
<1>7. CASE Begin(c)
  <2>1. FirstStep(calls[c].op) = "insert"
    BY <1>1 DEF FirstStep
  <2>2. Step(c, db, [calls[c] EXCEPT !.pc = "insert"])
    BY <1>7, <2>1 DEF Begin, Continue
  <2>3. Workspaces # {}
    BY WorkspaceConstants
  <2>4. QED BY <1>4, <1>6, <2>2, <2>3
<1>8. CASE ReadMembership(c)
  <2>1. PICK pc \in {"repair", "batch", "begin"}, w \in Workspaces :
          \/ Step(c, db, [calls[c] EXCEPT !.pc = pc])
          \/ Step(c, db, [calls[c] EXCEPT !.pc = pc, !.ws = w])
    BY <1>8, WorkspaceConstants DEF ReadMembership, Continue, Homes
  <2>2. QED BY <1>4, <1>6, <2>1
<1>9. CASE RepairActive(c)
  <2>1. PICK d : d = [db EXCEPT !.active[calls[c].user] = calls[c].ws]
    OBVIOUS
  <2>2. At(c, "repair") /\ Step(c, d, NoCall)
    BY <1>9, <2>1 DEF RepairActive
  <2>3. calls[c].ws \in Homes(db, calls[c].user) /\ db' = d
    BY <1>1, <1>3, <1>4, <2>2 DEF Informed, At
  <2>4. /\ d.owner = db.owner /\ d.deleted = db.deleted /\ d.role = db.role
        /\ d.active[calls[c].user] = calls[c].ws
    BY <1>2, <2>1 DEF Tables
  <2>5. QED BY <2>3, <2>4 DEF Settled, Homes, Live, Member
<1>10. CASE InsertWorkspace(c)
  <2>1. /\ \E w \in Workspaces : db.owner[w] = Null
        /\ \/ Step(c, Inserted(c), [calls[c] EXCEPT !.pc = "commit",
                                                    !.overtaken = FALSE])
           \/ Step(c, Inserted(c), NoCall)
    BY <1>10 DEF InsertWorkspace
  <2>2. db' = Inserted(c)
    BY <1>4, <2>1
  <2>3. Settled(Inserted(c), calls[c].user)
    BY <1>1, <1>2, <2>1, InsertedGrows
  <2>4. QED BY <2>2, <2>3
<1>11. CASE Commit(c)
  <2>1. At(c, "commit") /\ db' = db
    BY <1>11 DEF Commit
  <2>2. Settled(db, calls[c].user)
    BY <1>1, <1>3, <2>1 DEF Informed, At
  <2>3. QED BY <2>1, <2>2
<1>12. QED BY <1>1, <1>7, <1>8, <1>9, <1>10, <1>11, SignInTakes

\* Nothing but a step of its own ends a sign-in, except a crash.
LEMMA OwnStepEnds ==
  ASSUME WorkspacesInv, [Next]_vars, NEW x \in Callers, SignInEnds(x)
  PROVE  Steps(x)
<1>1. ~ Idle(x) /\ calls'[x] = NoCall /\ spent' = spent
  BY DEF SignInEnds
<1>2. ~ Spend
  BY <1>1 DEF Spend, WorkspacesInv, TypeOK
<1>3. calls'[x] # calls[x]
  BY <1>1 DEF Idle
<1>4. CASE Requests
  <2>1. ASSUME NEW a \in Identities, getOrCreateUser(a)
        PROVE  FALSE
    <3>1. PICK d : d = db' /\ calls' = Overtake(d, calls)
      BY <2>1 DEF getOrCreateUser
    <3>2. Idle(x)' = Idle(x)
      BY <3>1, Watched DEF WorkspacesInv
    <3>3. QED BY <1>1, <3>2 DEF Idle
  <2>2. ASSUME NEW c \in Callers, NEW u \in Users, BeginSignIn(c, u)
        PROVE  FALSE
    BY <1>1, <1>3, <2>2 DEF BeginSignIn, Start, WorkspacesInv, TypeOK, Idle
  <2>3. QED BY <1>2, <1>4, <2>1, <2>2, RequestsSpend
<1>5. ASSUME NEW c \in Callers, Steps(c), c # x
      PROVE  FALSE
  <2>1. PICK d, next : Step(c, d, next)
    BY <1>5, StepsStep DEF WorkspacesInv
  <2>2. db' = d /\ calls'[x] = Overtake(d, calls)[x]
    BY <1>5, <2>1, StepWatched DEF WorkspacesInv
  <2>3. Idle(x)' = Idle(x)
    BY <2>2, Watched DEF WorkspacesInv
  <2>4. QED BY <1>1, <2>3 DEF Idle
<1>6. ~ Crash /\ ~ \E i \in Invites : FallDue(i)
  BY <1>2 DEF Crash, FallDue
<1>7. ~ UNCHANGED vars
  BY <1>3 DEF vars
<1>8. QED BY <1>4, <1>5, <1>6, <1>7 DEF Next

\* A sign-in ends with its user in a live workspace of which the user is a
\* member, and creates one, in a local transaction as in a D1 batch, only for
\* a user who has none, whatever removals, role changes, rollbacks and
\* acceptances race with it, unless one of them took, gave or moved away from
\* just that workspace since the sign-in read or wrote it
\* (getOrCreateDefaultWorkspace).
THEOREM SignInsSettle == Spec => SignInSettles
<1>1. Init => SignInInv
  BY SignInInit
<1>2. WorkspacesInv /\ SignInInv /\ [Next]_vars => SignInInv'
  BY SignInKnows
<1>3. ASSUME WorkspacesInv, SignInInv, [Next]_vars
      PROVE  [\A c \in Callers :
                /\ SignInEnds(c) => Settled(db', calls[c].user)
                /\ SignInCreates(c) => Homes(db, calls[c].user) = {}]_vars
  <2>1. ASSUME NEW c \in Callers, SignInCreates(c)
        PROVE  Homes(db, calls[c].user) = {}
    BY <1>3, <2>1 DEF SignInCreates, SignInInv, Informed, At
  <2>2. QED BY <1>3, <2>1, OwnStepEnds, SignInEndsSettled
<1>4. QED BY <1>1, <1>2, <1>3, WorkspacesInvariant, PTL DEF Spec, SignInSettles
=============================================================================
