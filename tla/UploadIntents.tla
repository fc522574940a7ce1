---------------------------- MODULE UploadIntents ----------------------------
(***************************************************************************)
(* The upload intents of one workspace: a row of upload_intents authorizes *)
(* one upload and reserves its bytes against the workspace's quota until   *)
(* it is consumed, cancelled or expires.  The bytes of stored files are    *)
(* those of the live s_file_meta rows, which the client pushes after its   *)
(* upload was accepted.                                                    *)
(*                                                                         *)
(* The local reserveUploadIntent is one transaction.  The D1 one reads the *)
(* files, then the reservations, and then sends a batch: three steps.      *)
(* Consuming and cancelling are one statement with either driver.          *)
(***************************************************************************)
EXTENDS Integers, FiniteSets, FiniteSetsExt

CONSTANTS
  Intents,              \* the intent ids of the reservation requests
  NoIntent, NoCall,     \* no row yet; no D1 reservation in flight
  Hashes, SizeOf,       \* file contents: a hash fixes the size
  Drivers,              \* the drivers of this instance
  workspaceQuotaBytes,
  NoQuota,              \* the request names no quota
  MaxNow                \* bound: the clock

ASSUME UploadConstants ==
  /\ IsFiniteSet(Intents) /\ IsFiniteSet(Hashes)
  /\ SizeOf \in [Hashes -> Nat \ {0}]
  /\ Drivers \subseteq {"local", "d1"}
  /\ workspaceQuotaBytes \in (Nat \ {0}) \cup {NoQuota}
  /\ MaxNow \in Nat

VARIABLES
  driver,     \* "local" or "d1", fixed by the configuration
  intents,    \* upload_intents, by id
  files,      \* the hashes of the live rows of s_file_meta
  now,        \* nowEpoch()
  calls,      \* the D1 reservations in flight
  raced,      \* intents granted on reads that another write had overtaken
  unseen      \* hashes still promised when a reservation did not count them

vars == <<driver, intents, files, now, calls, raced, unseen>>

Times == 0..MaxNow + 1

Intent == [hash: Hashes, reserved: Nat, expires: Times,
           status: {"active", "consumed", "cancelled", "expired"}]

\* overtaken (history): the files or the reservations grew after a read.
Call == [hash: Hashes, expires: Times, started: 0..MaxNow,
         pc: {"totals", "batch"}, stored: BOOLEAN, used: Nat, bytes: Nat,
         overtaken: BOOLEAN]

ASSUME UploadSentinels == NoIntent \notin Intent /\ NoCall \notin Call

Init ==
  /\ driver \in Drivers
  /\ intents = [i \in Intents |-> NoIntent]
  /\ files = {}
  /\ now = 0
  /\ calls = [i \in Intents |-> NoCall]
  /\ raced = {}
  /\ unseen = {}

-----------------------------------------------------------------------------
Present(i) == intents[i] # NoIntent

Active(i) == Present(i) /\ intents[i].status = "active"

Consumed == {i \in Intents : Present(i) /\ intents[i].status = "consumed"}

\* Active, and not past its expiry at time t.
LiveAt(t) == {i \in Intents : Active(i) /\ intents[i].expires > t}

\* The sum of the sizes of the members of S.
Total(size, S) == MapThenSumSet(LAMBDA x : size[x], S)

Bytes(hashes) == Total(SizeOf, hashes)

ReservedAt(t) == Total([i \in LiveAt(t) |-> intents[i].reserved], LiveAt(t))

\* The hash is paid for by a live intent that reserved its bytes.
ReservesHash(h, t) ==
  \E i \in LiveAt(t) : intents[i].hash = h /\ intents[i].reserved > 0

\* What the intent reserves: nothing for a hash stored or paid for already.
ReservedBytes(h, stored, t) ==
  IF stored \/ ReservesHash(h, t) THEN 0 ELSE SizeOf[h]

\* Mutant: the bytes of the request itself are left out.
RoomBefore(used, reserved, bytes) ==
  workspaceQuotaBytes = NoQuota \/ used + reserved <= workspaceQuotaBytes

WithinQuota(used, reserved, bytes) ==
  workspaceQuotaBytes = NoQuota
    \/ used + reserved + bytes <= workspaceQuotaBytes

\* Mutant: the sweep does not look at the status.
ExpireAll(t) ==
  [i \in Intents |-> IF Present(i) /\ intents[i].expires <= t
                     THEN [intents[i] EXCEPT !.status = "expired"]
                     ELSE intents[i]]

ExpireDue(t) ==
  [i \in Intents |-> IF Active(i) /\ intents[i].expires <= t
                     THEN [intents[i] EXCEPT !.status = "expired"]
                     ELSE intents[i]]

\* The write of a reservation, with the time t its call took.
Insert(i, h, bytes, expires, t) ==
  intents' = [ExpireDue(t) EXCEPT ![i] =
    [hash |-> h, reserved |-> bytes, expires |-> expires, status |-> "active"]]

\* The contents that are stored, or that an upload granted or accepted may
\* still store.
Committed ==
  files \cup {intents[i].hash : i \in LiveAt(now) \cup Consumed}

\* Those whose bytes neither table shows to the next reservation.
Promised == {h \in Committed \ files : ~ ReservesHash(h, now)}

\* Every reservation under way has read a state that is no longer current.
Overtaken(cs) ==
  [c \in Intents |-> IF cs[c] = NoCall THEN NoCall
                     ELSE [cs[c] EXCEPT !.overtaken = TRUE]]

\* The request is refused with 400 when it expires in the past, and by the
\* primary key when the id is taken.
Valid(i, expires) ==
  /\ expires > now
  /\ intents[i] = NoIntent /\ calls[i] = NoCall

reserveUploadIntent(i, h, expires) ==
  LET bytes == ReservedBytes(h, h \in files, now)
  IN  /\ driver = "local"
      /\ Valid(i, expires)
      /\ WithinQuota(Bytes(files), ReservedAt(now), bytes)
      /\ Insert(i, h, bytes, expires, now)
      /\ unseen' = unseen \cup Promised
      /\ UNCHANGED <<driver, files, now, calls, raced>>

\* The D1 reservation takes the time and reads the files.
BeginReserveInD1(i, h, expires) ==
  /\ driver = "d1"
  /\ Valid(i, expires)
  /\ calls' = [calls EXCEPT ![i] =
       [hash |-> h, expires |-> expires, started |-> now, pc |-> "totals",
        stored |-> h \in files, used |-> Bytes(files), bytes |-> 0,
        overtaken |-> FALSE]]
  /\ UNCHANGED <<driver, intents, files, now, raced, unseen>>

\* It reads the reservations and compares with the quota.
ReadTotals(i) ==
  LET c == calls[i]
      bytes == ReservedBytes(c.hash, c.stored, c.started)
  IN  /\ c # NoCall /\ c.pc = "totals"
      /\ calls' = [calls EXCEPT ![i] =
           IF WithinQuota(c.used, ReservedAt(c.started), bytes)
           THEN [c EXCEPT !.pc = "batch", !.bytes = bytes]
           ELSE NoCall]
      /\ UNCHANGED <<driver, intents, files, now, raced, unseen>>

CommitReserve(i) ==
  LET c == calls[i]
  IN  /\ c # NoCall /\ c.pc = "batch"
      /\ Insert(i, c.hash, c.bytes, c.expires, c.started)
      /\ calls' = Overtaken([calls EXCEPT ![i] = NoCall])
      /\ raced' = IF c.overtaken THEN raced \cup {i} ELSE raced
      /\ unseen' = unseen \cup Promised
      /\ UNCHANGED <<driver, files, now>>

EndAs(i, status) ==
  /\ intents' = [intents EXCEPT ![i].status = status]
  /\ UNCHANGED <<driver, files, now, calls, raced, unseen>>

\* The upload was accepted: its hash, type and size are those reserved.
consumeUploadIntent(i) == i \in LiveAt(now) /\ EndAs(i, "consumed")

\* Mutant: a status the table does not know.
CancelMisspelt(i) == Active(i) /\ EndAs(i, "canceled")

cancelUploadIntent(i) == Active(i) /\ EndAs(i, "cancelled")

-----------------------------------------------------------------------------
\* The client: it pushes the s_file_meta row of an upload that was accepted,
\* and deletes it.
PushFile(h) ==
  /\ h \notin files
  /\ \E i \in Consumed : intents[i].hash = h
  /\ files' = files \cup {h}
  /\ calls' = Overtaken(calls)
  /\ UNCHANGED <<driver, intents, now, raced, unseen>>

DeleteFile(h) ==
  /\ h \in files
  /\ files' = files \ {h}
  /\ UNCHANGED <<driver, intents, now, calls, raced, unseen>>

Tick ==
  /\ now < MaxNow
  /\ now' = now + 1
  /\ UNCHANGED <<driver, intents, files, calls, raced, unseen>>

Next ==
  \/ \E i \in Intents, h \in Hashes, expires \in Times :
       \/ reserveUploadIntent(i, h, expires)
       \/ BeginReserveInD1(i, h, expires)
  \/ \E i \in Intents : \/ ReadTotals(i) \/ CommitReserve(i)
                        \/ consumeUploadIntent(i) \/ cancelUploadIntent(i)
  \/ \E h \in Hashes : PushFile(h) \/ DeleteFile(h)
  \/ Tick

Spec == Init /\ [][Next]_vars

-----------------------------------------------------------------------------
\* Type correctness of the intents, the files and the calls in flight.
TypeOK ==
  /\ driver \in Drivers
  /\ intents \in [Intents -> Intent \cup {NoIntent}]
  /\ files \subseteq Hashes
  /\ now \in 0..MaxNow
  /\ calls \in [Intents -> Call \cup {NoCall}]
  /\ raced \subseteq Intents
  /\ unseen \subseteq Hashes

GrantedBytes(granted) ==
  Total([i \in granted |-> SizeOf[intents[i].hash]], granted)

\* reserveUploadIntent keeps what the workspace stores and what it may still
\* store within its quota, through expiry, cancellation, uploads that share
\* a hash, and deletion.  It is exceeded only by what the code does not see:
\* by reservations that D1 granted on overtaken reads, and by uploads whose
\* bytes neither table showed when another was granted, because consuming
\* had ended the reservation before the file's row arrived, or because the
\* reservation they shared had ended.
QuotaKept ==
  workspaceQuotaBytes # NoQuota =>
    Bytes(Committed)
      <= workspaceQuotaBytes + GrantedBytes(raced) + Bytes(unseen)

\* An upload intent ends once: one that was consumed is not consumed again,
\* cancelled or expired, one that was cancelled or expired authorizes no
\* upload, whatever reservation, sweep or answer comes late.
IntentEndsOnce ==
  [][\A i \in Intents :
       (Present(i) /\ ~ Active(i)) => intents'[i] = intents[i]]_vars

\* Concurrent reservations that together exceed the quota are rejected: the
\* bytes reserved at any time fit it (reserveUploadIntent).
ReservationsFitQuota ==
  workspaceQuotaBytes # NoQuota => ReservedAt(now) <= workspaceQuotaBytes
=============================================================================
