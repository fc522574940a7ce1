------------------------ MODULE UploadIntents_proofs ------------------------
(***************************************************************************)
(* An upload intent ends once, and the quota is kept, with either driver,  *)
(* for any number of intents and hashes, any sizes, quota and clock.       *)
(***************************************************************************)
EXTENDS UploadIntents, FiniteSetTheorems, TLAPS

-----------------------------------------------------------------------------
(* Sums.                                                                   *)

\* Induction over the subsets of a finite set: a collection G of them that
\* holds the empty set, and every other whose parts with one member less are
\* in G, holds them all.
LEMMA SubsetInduction ==
  ASSUME NEW S, IsFiniteSet(S), NEW G, {} \in G,
         \A s \in SUBSET S :
           s # {} /\ (\A x \in s : s \ {x} \in G) => s \in G
  PROVE  SUBSET S \subseteq G
<1> SUFFICES ASSUME (SUBSET S) \ G # {} PROVE FALSE
  OBVIOUS
<1> DEFINE T == (SUBSET S) \ G
           R == StrictSubsetOrdering(S)
<1>1. T \subseteq FiniteSubsetsOf(S)
  BY FS_FiniteSubsetsOfFinite
<1>2. PICK s \in T : \A t \in T : <<t, s>> \notin R
  <2> HIDE DEF T, R
  <2> QED BY <1>1, FS_StrictSubsetOrderingWellFounded, WFMin DEF T, R
<1>3. \A x \in s : s \ {x} \in G
  <2> SUFFICES ASSUME NEW x \in s, s \ {x} \notin G PROVE FALSE
    OBVIOUS
  <2>1. s \ {x} \in T /\ <<s \ {x}, s>> \in R
    BY <1>2 DEF StrictSubsetOrdering
  <2> QED BY <1>2, <2>1
<1> QED BY <1>2, <1>3

\* The units that S holds, size[x] of them for each of its members x.
Units(size, S) == {u \in S \X Nat : u[2] < size[u[1]]}

LEMMA UnitsOfOneMore ==
  ASSUME NEW S, NEW x \in S, NEW size, size[x] \in Nat,
         IsFiniteSet(Units(size, S \ {x}))
  PROVE  /\ IsFiniteSet(Units(size, S))
         /\ Cardinality(Units(size, S))
              = size[x] + Cardinality(Units(size, S \ {x}))
<1> DEFINE own == {x} \X (0..size[x] - 1)
           rest == Units(size, S \ {x})
<1>1. IsFiniteSet(own) /\ Cardinality(own) = size[x]
  <2>1. IsFiniteSet({x}) /\ Cardinality({x}) = 1
    BY FS_Singleton
  <2>2. IsFiniteSet(0..size[x] - 1) /\ Cardinality(0..size[x] - 1) = size[x]
    <3> DEFINE n == size[x]
    <3>1. n \in Nat
      OBVIOUS
    <3> DEFINE m == n - 1
    <3>2. m \in Int /\ (IF 0 > m THEN 0 ELSE m - 0 + 1) = n
      BY <3>1
    <3> HIDE DEF n, m
    <3>3. IsFiniteSet(0..m) /\ Cardinality(0..m) = n
      <4>1. \A a, b \in Int : /\ IsFiniteSet(a..b)
                              /\ Cardinality(a..b) = IF a > b THEN 0 ELSE b - a + 1
        BY FS_Interval
      <4>2. 0 \in Int
        OBVIOUS
      <4> QED BY <3>2, <4>1, <4>2
    <3> QED BY <3>3 DEF n, m
  <2>3. /\ IsFiniteSet(own)
        /\ Cardinality(own) = Cardinality({x}) * Cardinality(0..size[x] - 1)
    BY <2>1, <2>2, FS_Product
  <2> QED BY <2>1, <2>2, <2>3
<1>2. Units(size, S) = rest \cup own
  BY DEF Units
<1>3. rest \cap own = {}
  BY DEF Units
<1> HIDE DEF own, rest
<1>4. /\ IsFiniteSet(rest \cup own)
      /\ Cardinality(rest \cup own)
           = Cardinality(rest) + Cardinality(own) - Cardinality(rest \cap own)
  BY <1>1, FS_Union DEF rest
<1>5. Cardinality(rest \cap own) = 0 /\ Cardinality(rest) \in Nat
  BY <1>3, FS_EmptySet, FS_CardinalityType DEF rest
<1> QED BY <1>1, <1>2, <1>4, <1>5 DEF rest

\* A sum counts units.
LEMMA TotalCountsUnits ==
  ASSUME NEW S, IsFiniteSet(S), NEW size, \A x \in S : size[x] \in Nat
  PROVE  /\ IsFiniteSet(Units(size, S))
         /\ Total(size, S) = Cardinality(Units(size, S))
<1> DEFINE count(s) == Cardinality(Units(size, s))
           pick(s) == CHOOSE x \in s : TRUE
           Sums(g) == g = [s \in SUBSET S |->
                             IF s = {} THEN 0
                             ELSE size[pick(s)] + g[s \ {pick(s)}]]
           sum == CHOOSE g : Sums(g)
           Finite == {s \in SUBSET S : IsFiniteSet(Units(size, s))}
           Counted == {s \in SUBSET S : sum[s] = count(s)}
<1>1. Units(size, {}) = {} /\ IsFiniteSet({}) /\ count({}) = 0
  BY FS_EmptySet DEF Units
<1>2. SUBSET S \subseteq Finite
  <2>1. {} \in Finite
    BY <1>1
  <2>2. ASSUME NEW s \in SUBSET S, s # {}, \A x \in s : s \ {x} \in Finite
        PROVE  s \in Finite
    BY <2>2, UnitsOfOneMore
  <2> HIDE DEF Finite
  <2> QED BY <2>1, <2>2, SubsetInduction
<1>3. ASSUME NEW s \in SUBSET S, s # {}
      PROVE  /\ pick(s) \in s /\ s \ {pick(s)} \in SUBSET S
             /\ count(s) = size[pick(s)] + count(s \ {pick(s)})
  <2>1. pick(s) \in s /\ s \ {pick(s)} \in SUBSET S
    BY <1>3
  <2> QED BY <1>2, <2>1, UnitsOfOneMore
<1>4. Sums([s \in SUBSET S |-> count(s)])
  <2> HIDE DEF count, pick
  <2> QED BY <1>1, <1>3
<1>5. Sums(sum)
  <2> HIDE DEF Sums
  <2> QED BY <1>4
<1>6. SUBSET S \subseteq Counted
  <2> HIDE DEF sum
  <2>1. {} \in Counted
    BY <1>1, <1>5
  <2>2. ASSUME NEW s \in SUBSET S, s # {}, \A x \in s : s \ {x} \in Counted
        PROVE  s \in Counted
    <3>1. sum[s] = size[pick(s)] + sum[s \ {pick(s)}]
      BY <1>5, <2>2
    <3> HIDE DEF pick, count
    <3> QED BY <1>3, <2>2, <3>1
  <2> HIDE DEF Counted
  <2> QED BY <2>1, <2>2, SubsetInduction
<1>7. Total(size, S) = sum[S]
  BY DEF Total, MapThenSumSet, MapThenFoldSet
<1> QED BY <1>2, <1>6, <1>7

LEMMA TotalType ==
  ASSUME NEW S, IsFiniteSet(S), NEW size, \A x \in S : size[x] \in Nat
  PROVE  Total(size, S) \in Nat
BY TotalCountsUnits, FS_CardinalityType

\* A sum depends on the sizes of its members only.
LEMMA TotalOfSame ==
  ASSUME NEW S, IsFiniteSet(S), NEW size, NEW weight,
         \A x \in S : size[x] \in Nat /\ weight[x] = size[x]
  PROVE  Total(weight, S) = Total(size, S)
<1>1. Units(weight, S) = Units(size, S)
  BY DEF Units
<1> QED BY <1>1, TotalCountsUnits

LEMMA TotalOfPart ==
  ASSUME NEW S, IsFiniteSet(S), NEW T \in SUBSET S,
         NEW size, \A x \in S : size[x] \in Nat
  PROVE  Total(size, T) <= Total(size, S)
<1>1. IsFiniteSet(T) /\ Units(size, T) \subseteq Units(size, S)
  BY FS_Subset DEF Units
<1> QED BY <1>1, TotalCountsUnits, FS_Subset

LEMMA TotalOfUnion ==
  ASSUME NEW S, IsFiniteSet(S), NEW T, IsFiniteSet(T),
         NEW size, \A x \in S \cup T : size[x] \in Nat
  PROVE  /\ Total(size, S \cup T) <= Total(size, S) + Total(size, T)
         /\ S \cap T = {} =>
              Total(size, S \cup T) = Total(size, S) + Total(size, T)
<1> DEFINE A == Units(size, S)
           B == Units(size, T)
<1>1. IsFiniteSet(A) /\ IsFiniteSet(B) /\ IsFiniteSet(S \cup T)
  BY TotalCountsUnits, FS_Union
<1>2. Units(size, S \cup T) = A \cup B
  BY DEF Units
<1>3. S \cap T = {} => A \cap B = {}
  BY DEF Units
<1>4. /\ Total(size, S) = Cardinality(A) /\ Total(size, T) = Cardinality(B)
      /\ Total(size, S \cup T) = Cardinality(A \cup B)
  BY <1>1, <1>2, TotalCountsUnits
<1> HIDE DEF A, B
<1>5. /\ Cardinality(A) \in Nat /\ Cardinality(B) \in Nat
      /\ Cardinality(A \cap B) \in Nat
      /\ A \cap B = {} => Cardinality(A \cap B) = 0
      /\ Cardinality(A \cup B)
           = Cardinality(A) + Cardinality(B) - Cardinality(A \cap B)
  BY <1>1, FS_CardinalityType, FS_Intersection, FS_EmptySet, FS_Union
<1> QED BY <1>3, <1>4, <1>5

LEMMA TotalOfOne ==
  ASSUME NEW x, NEW size, size[x] \in Nat
  PROVE  Total(size, {x}) = size[x]
<1>1. /\ IsFiniteSet({x}) /\ {x} \ {x} = {}
      /\ IsFiniteSet({}) /\ Units(size, {}) = {} /\ Cardinality({}) = 0
  BY FS_Singleton, FS_EmptySet DEF Units
<1>2. Cardinality(Units(size, {x})) = size[x] + Cardinality({})
  <2>1. x \in {x} /\ IsFiniteSet(Units(size, {x} \ {x}))
    BY <1>1
  <2>2. Cardinality(Units(size, {x}))
          = size[x] + Cardinality(Units(size, {x} \ {x}))
    BY <2>1, UnitsOfOneMore
  <2> QED BY <1>1, <2>2
<1>3. Total(size, {x}) = Cardinality(Units(size, {x}))
  BY <1>1, TotalCountsUnits
<1> QED BY <1>1, <1>2, <1>3

\* If each member of S has a member of T of its own that is not smaller, the
\* sum over S is not greater.
LEMMA TotalOfImage ==
  ASSUME NEW S, IsFiniteSet(S), NEW T, IsFiniteSet(T), NEW f \in [S -> T],
         \A x, y \in S : f[x] = f[y] => x = y,
         NEW size, \A x \in S : size[x] \in Nat,
         NEW weight, \A y \in T : weight[y] \in Nat,
         \A x \in S : size[x] <= weight[f[x]]
  PROVE  Total(size, S) <= Total(weight, T)
<1> DEFINE A == Units(size, S)
           B == Units(weight, T)
           g == [u \in A |-> <<f[u[1]], u[2]>>]
<1>1. \A u \in A : u \in S \X Nat /\ <<f[u[1]], u[2]>> \in B
  BY DEF Units
<1>2. g \in [A -> B]
  <2> SUFFICES ASSUME NEW u \in A PROVE <<f[u[1]], u[2]>> \in B
    OBVIOUS
  <2> QED BY <1>1
<1>3. ASSUME NEW u \in A, NEW v \in A, g[u] = g[v]
      PROVE  u = v
  <2>1. f[u[1]] = f[v[1]] /\ u[2] = v[2]
    BY <1>3
  <2>2. u = <<u[1], u[2]>> /\ v = <<v[1], v[2]>> /\ u[1] \in S /\ v[1] \in S
    <3>1. \A p \in S \X Nat : p = <<p[1], p[2]>> /\ p[1] \in S
      OBVIOUS
    <3>2. u \in S \X Nat /\ v \in S \X Nat
      BY <1>1
    <3> HIDE DEF A, B
    <3> QED BY <3>1, <3>2
  <2> QED BY <2>1, <2>2
<1>4. g \in Injection(A, B)
  <2> HIDE DEF A, B, g
  <2> QED BY <1>2, <1>3 DEF Injection, IsInjective
<1>5. /\ IsFiniteSet(B)
      /\ Total(size, S) = Cardinality(A) /\ Total(weight, T) = Cardinality(B)
  BY TotalCountsUnits
<1> HIDE DEF A, B, g
<1> QED BY <1>4, <1>5, FS_Injection

-----------------------------------------------------------------------------
(* Intents end once.                                                       *)

\* The inductive invariant: a D1 reservation in flight has not written its
\* row, so that what it inserts overwrites nothing.
UploadInv ==
  /\ DOMAIN intents = Intents
  /\ DOMAIN calls = Intents
  /\ \A i \in Intents : calls[i] # NoCall => intents[i] = NoIntent

\* What a step may do to the row of an intent that has ended.
EndedKept ==
  \A i \in Intents : (Present(i) /\ ~ Active(i)) => intents'[i] = intents[i]

\* The sweep leaves what is not active, and adds no row.
LEMMA ExpireDueKeeps ==
  ASSUME NEW t
  PROVE  /\ DOMAIN ExpireDue(t) = Intents
         /\ \A i \in Intents : ~ Active(i) => ExpireDue(t)[i] = intents[i]
BY DEF ExpireDue

\* The insert of a new row changes no row that has ended.
LEMMA InsertKeeps ==
  ASSUME NEW i \in Intents, NEW h, NEW bytes, NEW expires, NEW t,
         intents[i] = NoIntent, Insert(i, h, bytes, expires, t)
  PROVE  /\ DOMAIN intents' = Intents
         /\ \A j \in Intents \ {i} :
              intents[j] = NoIntent => intents'[j] = NoIntent
         /\ EndedKept
<1> DEFINE row == [hash |-> h, reserved |-> bytes, expires |-> expires,
                   status |-> "active"]
<1>1. intents' = [ExpireDue(t) EXCEPT ![i] = row]
  BY DEF Insert
<1>2. /\ DOMAIN intents' = Intents
      /\ \A j \in Intents \ {i} : intents'[j] = ExpireDue(t)[j]
  <2> HIDE DEF row
  <2>1. QED BY <1>1, ExpireDueKeeps
<1>3. \A j \in Intents \ {i} :
        intents[j] = NoIntent => intents'[j] = NoIntent
  BY <1>2, ExpireDueKeeps DEF Active, Present
<1>4. EndedKept
  BY <1>2, ExpireDueKeeps DEF EndedKept, Present
<1>5. QED BY <1>2, <1>3, <1>4

\* What is overtaken is in flight, and the other way round.
LEMMA OvertakenKeeps ==
  ASSUME NEW cs
  PROVE  /\ DOMAIN Overtaken(cs) = Intents
         /\ \A c \in Intents : cs[c] = NoCall => Overtaken(cs)[c] = NoCall
BY DEF Overtaken

LEMMA StepKeeps ==
  ASSUME UploadInv, [Next]_vars
  PROVE  UploadInv' /\ EndedKept
<1>1. ASSUME NEW i \in Intents, NEW h \in Hashes, NEW expires \in Times,
             reserveUploadIntent(i, h, expires)
      PROVE  UploadInv' /\ EndedKept
  <2>1. /\ intents[i] = NoIntent /\ calls[i] = NoCall /\ calls' = calls
        /\ Insert(i, h, ReservedBytes(h, h \in files, now), expires, now)
    BY <1>1 DEF reserveUploadIntent, Valid
  <2>2. QED BY <2>1, InsertKeeps DEF UploadInv
<1>2. ASSUME NEW i \in Intents, NEW h \in Hashes, NEW expires \in Times,
             BeginReserveInD1(i, h, expires)
      PROVE  UploadInv' /\ EndedKept
  <2>1. intents[i] = NoIntent /\ intents' = intents
    BY <1>2 DEF BeginReserveInD1, Valid
  <2>2. /\ DOMAIN calls' = Intents
        /\ \A j \in Intents \ {i} : calls'[j] = calls[j]
    BY <1>2 DEF BeginReserveInD1, UploadInv
  <2>3. QED BY <2>1, <2>2 DEF UploadInv, EndedKept
<1>3. ASSUME NEW i \in Intents, ReadTotals(i)
      PROVE  UploadInv' /\ EndedKept
  <2>1. calls[i] # NoCall /\ intents' = intents
    BY <1>3 DEF ReadTotals
  <2>2. /\ DOMAIN calls' = Intents
        /\ \A j \in Intents \ {i} : calls'[j] = calls[j]
    BY <1>3 DEF ReadTotals, UploadInv
  <2>3. QED BY <2>1, <2>2 DEF UploadInv, EndedKept
<1>4. ASSUME NEW i \in Intents, CommitReserve(i)
      PROVE  UploadInv' /\ EndedKept
  <2>1. /\ calls[i] # NoCall
        /\ Insert(i, calls[i].hash, calls[i].bytes, calls[i].expires,
                  calls[i].started)
        /\ calls' = Overtaken([calls EXCEPT ![i] = NoCall])
    BY <1>4 DEF CommitReserve
  <2>2. intents[i] = NoIntent
    BY <2>1 DEF UploadInv
  <2>3. /\ DOMAIN calls' = Intents
        /\ calls'[i] = NoCall
        /\ \A j \in Intents : calls[j] = NoCall => calls'[j] = NoCall
    BY <2>1, OvertakenKeeps DEF UploadInv
  <2>4. QED BY <2>1, <2>2, <2>3, InsertKeeps DEF UploadInv
<1>5. ASSUME NEW i \in Intents, NEW status, Active(i), EndAs(i, status)
      PROVE  UploadInv' /\ EndedKept
  <2>1. calls[i] = NoCall /\ calls' = calls
    BY <1>5 DEF Active, Present, EndAs, UploadInv
  <2>2. /\ DOMAIN intents' = Intents
        /\ \A j \in Intents \ {i} : intents'[j] = intents[j]
    BY <1>5 DEF EndAs, UploadInv
  <2>3. QED BY <1>5, <2>1, <2>2 DEF UploadInv, EndedKept
<1>6. ASSUME NEW i \in Intents, consumeUploadIntent(i) \/ cancelUploadIntent(i)
      PROVE  UploadInv' /\ EndedKept
  BY <1>5, <1>6 DEF consumeUploadIntent, cancelUploadIntent, LiveAt
<1>7. ASSUME NEW h \in Hashes, PushFile(h)
      PROVE  UploadInv' /\ EndedKept
  <2>1. intents' = intents /\ calls' = Overtaken(calls)
    BY <1>7 DEF PushFile
  <2>2. QED BY <2>1, OvertakenKeeps DEF UploadInv, EndedKept
<1>8. ASSUME UNCHANGED <<intents, calls>>
      PROVE  UploadInv' /\ EndedKept
  BY <1>8 DEF UploadInv, EndedKept
<1>9. QED
  BY <1>1, <1>2, <1>3, <1>4, <1>6, <1>7, <1>8
     DEF Next, DeleteFile, Tick, vars

\* A reservation that D1 has in flight has not written its row: nothing it
\* inserts overwrites an intent.
THEOREM UploadInvariant == Spec => []UploadInv
<1>1. Init => UploadInv
  BY DEF Init, UploadInv
<1>2. QED BY <1>1, StepKeeps, PTL DEF Spec

\* An upload intent ends once: neither a sweep, nor a late consumption,
\* cancellation or reservation changes the row of one that has ended.
THEOREM IntentsEndOnce == Spec => IntentEndsOnce
<1>1. UploadInv /\ [Next]_vars => [EndedKept]_vars
  BY StepKeeps
<1>2. UploadInv /\ [Next]_vars =>
        [\A i \in Intents :
           (Present(i) /\ ~ Active(i)) => intents'[i] = intents[i]]_vars
  BY <1>1 DEF EndedKept
<1>3. QED BY <1>2, UploadInvariant, PTL DEF Spec, IntentEndsOnce

-----------------------------------------------------------------------------
(* Types.                                                                  *)

LEMMA SizesAreBytes ==
  /\ IsFiniteSet(Hashes) /\ IsFiniteSet(Intents)
  /\ \A h \in Hashes : SizeOf[h] \in Nat
  /\ Times \subseteq Nat /\ 0..MaxNow \subseteq Times
BY UploadConstants DEF Times

LEMMA BytesOfHashes ==
  ASSUME NEW F \in SUBSET Hashes, NEW G \in SUBSET Hashes
  PROVE  /\ Bytes(F) \in Nat
         /\ F \subseteq G => Bytes(F) <= Bytes(G)
         /\ Bytes(F \cup G) <= Bytes(F) + Bytes(G)
<1>1. /\ IsFiniteSet(F) /\ IsFiniteSet(G)
      /\ \A h \in F \cup G : SizeOf[h] \in Nat
  BY SizesAreBytes, FS_Subset
<1>2. Bytes(F) \in Nat
  BY <1>1, TotalType DEF Bytes
<1>3. F \subseteq G => Bytes(F) <= Bytes(G)
  BY <1>1, TotalOfPart DEF Bytes
<1>4. Bytes(F \cup G) <= Bytes(F) + Bytes(G)
  BY <1>1, TotalOfUnion DEF Bytes
<1> QED BY <1>2, <1>3, <1>4

LEMMA BytesOfHash ==
  ASSUME NEW h \in Hashes
  PROVE  Bytes({h}) = SizeOf[h]
BY SizesAreBytes, TotalOfOne DEF Bytes

LEMMA ReservedAtType ==
  ASSUME TypeOK, NEW t
  PROVE  /\ LiveAt(t) \subseteq Intents /\ IsFiniteSet(LiveAt(t))
         /\ \A i \in LiveAt(t) : intents[i].reserved \in Nat
         /\ ReservedAt(t) \in Nat
<1>1. LiveAt(t) \subseteq Intents /\ IsFiniteSet(LiveAt(t))
  BY SizesAreBytes, FS_Subset DEF LiveAt
<1>2. \A i \in LiveAt(t) : intents[i].reserved \in Nat
  BY DEF TypeOK, LiveAt, Active, Present, Intent
<1>3. ReservedAt(t) \in Nat
  <2> DEFINE reserved == [i \in LiveAt(t) |-> intents[i].reserved]
  <2>1. \A i \in LiveAt(t) : reserved[i] \in Nat
    BY <1>2
  <2> HIDE DEF reserved
  <2>2. Total(reserved, LiveAt(t)) \in Nat
    BY <1>1, <2>1, TotalType
  <2> QED BY <2>2 DEF ReservedAt, reserved
<1> QED BY <1>1, <1>2, <1>3

LEMMA InsertType ==
  ASSUME TypeOK, NEW i \in Intents, NEW h \in Hashes, NEW bytes \in Nat,
         NEW expires \in Times, NEW t, Insert(i, h, bytes, expires, t)
  PROVE  intents' \in [Intents -> Intent \cup {NoIntent}]
<1> DEFINE row == [hash |-> h, reserved |-> bytes, expires |-> expires,
                   status |-> "active"]
<1>1. row \in Intent
  BY DEF Intent
<1>2. ExpireDue(t) \in [Intents -> Intent \cup {NoIntent}]
  <2>1. ASSUME NEW j \in Intents, Active(j)
        PROVE  [intents[j] EXCEPT !.status = "expired"] \in Intent
    BY <2>1 DEF TypeOK, Active, Present, Intent
  <2> QED BY <2>1 DEF ExpireDue, TypeOK
<1>3. intents' = [ExpireDue(t) EXCEPT ![i] = row]
  BY DEF Insert
<1> HIDE DEF row
<1> QED BY <1>1, <1>2, <1>3

LEMMA OvertakenType ==
  ASSUME NEW cs \in [Intents -> Call \cup {NoCall}]
  PROVE  Overtaken(cs) \in [Intents -> Call \cup {NoCall}]
<1>1. ASSUME NEW c \in Intents, cs[c] # NoCall
      PROVE  [cs[c] EXCEPT !.overtaken = TRUE] \in Call
  <2>1. cs[c] \in Call
    BY <1>1
  <2> QED BY <2>1 DEF Call
<1> QED BY <1>1 DEF Overtaken

LEMMA TypeStep ==
  ASSUME TypeOK, [Next]_vars
  PROVE  TypeOK'
<1> USE DEF TypeOK
<1>1. ASSUME NEW i \in Intents, NEW h \in Hashes, NEW expires \in Times,
             reserveUploadIntent(i, h, expires)
      PROVE  TypeOK'
  <2>1. ReservedBytes(h, h \in files, now) \in Nat
    BY SizesAreBytes DEF ReservedBytes
  <2>2. Promised \subseteq Hashes
    BY DEF Promised, Committed, LiveAt, Consumed, Active, Present, Intent
  <2>3. intents' \in [Intents -> Intent \cup {NoIntent}]
    BY <1>1, <2>1, InsertType DEF reserveUploadIntent
  <2> QED BY <1>1, <2>2, <2>3 DEF reserveUploadIntent
<1>2. ASSUME NEW i \in Intents, NEW h \in Hashes, NEW expires \in Times,
             BeginReserveInD1(i, h, expires)
      PROVE  TypeOK'
  <2> DEFINE call ==
        [hash |-> h, expires |-> expires, started |-> now, pc |-> "totals",
         stored |-> h \in files, used |-> Bytes(files), bytes |-> 0,
         overtaken |-> FALSE]
  <2>1. Bytes(files) \in Nat
    BY BytesOfHashes
  <2>2. call \in Call
    BY <2>1 DEF Call
  <2>3. calls' = [calls EXCEPT ![i] = call]
    BY <1>2 DEF BeginReserveInD1
  <2> HIDE DEF call
  <2>4. calls' \in [Intents -> Call \cup {NoCall}]
    BY <2>2, <2>3
  <2> QED BY <1>2, <2>4 DEF BeginReserveInD1
<1>3. ASSUME NEW i \in Intents, ReadTotals(i)
      PROVE  TypeOK'
  <2> DEFINE c == calls[i]
             bytes == ReservedBytes(c.hash, c.stored, c.started)
             read == [c EXCEPT !.pc = "batch", !.bytes = bytes]
  <2>1. c \in Call
    BY <1>3 DEF ReadTotals
  <2>2. bytes \in Nat
    BY <2>1, SizesAreBytes DEF ReservedBytes, Call
  <2>3. read \in Call
    <3> HIDE DEF c, bytes
    <3> QED BY <2>1, <2>2 DEF Call
  <2>4. \/ calls' = [calls EXCEPT ![i] = read]
        \/ calls' = [calls EXCEPT ![i] = NoCall]
    BY <1>3 DEF ReadTotals
  <2> HIDE DEF read
  <2>5. calls' \in [Intents -> Call \cup {NoCall}]
    BY <2>3, <2>4
  <2> QED BY <1>3, <2>5 DEF ReadTotals
<1>4. ASSUME NEW i \in Intents, CommitReserve(i)
      PROVE  TypeOK'
  <2>1. calls[i] \in Call
    BY <1>4 DEF CommitReserve
  <2>2. intents' \in [Intents -> Intent \cup {NoIntent}]
    BY <1>4, <2>1, InsertType DEF CommitReserve, Call
  <2>3. calls' \in [Intents -> Call \cup {NoCall}]
    BY <1>4, OvertakenType DEF CommitReserve
  <2>4. Promised \subseteq Hashes
    BY DEF Promised, Committed, LiveAt, Consumed, Active, Present, Intent
  <2> QED BY <1>4, <2>2, <2>3, <2>4 DEF CommitReserve
<1>5. ASSUME NEW i \in Intents, consumeUploadIntent(i) \/ cancelUploadIntent(i)
      PROVE  TypeOK'
  <2>1. PICK status \in {"consumed", "cancelled"} : EndAs(i, status)
    BY <1>5 DEF consumeUploadIntent, cancelUploadIntent
  <2>2. intents[i] \in Intent
    BY <1>5 DEF consumeUploadIntent, cancelUploadIntent, LiveAt, Active, Present
  <2>3. [intents[i] EXCEPT !.status = status] \in Intent
    BY <2>2 DEF Intent
  <2> QED BY <2>1, <2>3 DEF EndAs
<1>6. ASSUME NEW h \in Hashes, PushFile(h)
      PROVE  TypeOK'
  BY <1>6, OvertakenType DEF PushFile
<1>7. ASSUME NEW h \in Hashes, DeleteFile(h)
      PROVE  TypeOK'
  BY <1>7 DEF DeleteFile
<1>8. CASE Tick
  BY <1>8, UploadConstants DEF Tick
<1>9. CASE UNCHANGED vars
  BY <1>9 DEF vars
<1> QED BY <1>1, <1>2, <1>3, <1>4, <1>5, <1>6, <1>7, <1>8, <1>9 DEF Next

\* The tables and the calls in flight have their types.
THEOREM UploadTypes == Spec => []TypeOK
<1>1. Init => TypeOK
  BY UploadConstants DEF Init, TypeOK
<1> QED BY <1>1, TypeStep, PTL DEF Spec

-----------------------------------------------------------------------------
(* The quota.                                                              *)

\* The hashes that a live intent pays for.
Paid(t) == {h \in Hashes : ReservesHash(h, t)}

\* An intent reserves its whole file or nothing.
ReservedInFull ==
  \A i \in Intents : Present(i) =>
    intents[i].reserved \in {0, SizeOf[intents[i].hash]}

RacedArePresent == \A i \in raced : Present(i)

\* What a D1 reservation knows, unless another write has overtaken it: what
\* it counted still covers the files, and once it has compared with the
\* quota, what is stored and paid for still fits together with its own hash.
CallFits(c) ==
  /\ c.started <= now
  /\ c.pc = "batch" => c.bytes \in {0, SizeOf[c.hash]}
  /\ ~ c.overtaken =>
       /\ c.pc = "totals" =>
            Bytes(files \cup {h \in {c.hash} : c.stored}) <= c.used
       /\ c.pc = "batch" /\ workspaceQuotaBytes # NoQuota =>
            Bytes(files \cup Paid(now) \cup {c.hash}) <= workspaceQuotaBytes

CallsFit == \A i \in Intents : calls[i] # NoCall => CallFits(calls[i])

\* Only D1 keeps a reservation in flight.
CallsAreD1 == driver = "local" => \A i \in Intents : calls[i] = NoCall

\* The inductive invariant of the quota.
QuotaInv ==
  /\ TypeOK /\ UploadInv
  /\ ReservedInFull /\ RacedArePresent /\ CallsFit /\ CallsAreD1
  /\ QuotaKept

\* An intent that is live later was live before, as long as it is there.
LEMMA LiveUntil ==
  ASSUME TypeOK, NEW s \in Nat, NEW t \in Nat, s <= t
  PROVE  LiveAt(t) \subseteq LiveAt(s) /\ Paid(t) \subseteq Paid(s)
<1>1. \A i \in Intents : Active(i) => intents[i].expires \in Nat
  BY SizesAreBytes DEF TypeOK, Active, Present, Intent
<1>2. LiveAt(t) \subseteq LiveAt(s)
  BY <1>1 DEF LiveAt
<1> QED BY <1>2 DEF Paid, ReservesHash

\* What live intents pay for they have reserved.
LEMMA PaidIsReserved ==
  ASSUME TypeOK, ReservedInFull, NEW t
  PROVE  Bytes(Paid(t)) <= ReservedAt(t)
<1> DEFINE payer == [h \in Paid(t) |-> CHOOSE i \in LiveAt(t) :
                       intents[i].hash = h /\ intents[i].reserved > 0]
           reserved == [i \in LiveAt(t) |-> intents[i].reserved]
<1>1. \A h \in Paid(t) : /\ payer[h] \in LiveAt(t)
                         /\ intents[payer[h]].hash = h
                         /\ intents[payer[h]].reserved > 0
  BY DEF Paid, ReservesHash
<1>2. payer \in [Paid(t) -> LiveAt(t)]
  BY <1>1
<1> HIDE DEF payer
<1>3. \A h \in Paid(t) : SizeOf[h] <= reserved[payer[h]]
  <2> SUFFICES ASSUME NEW h \in Paid(t) PROVE SizeOf[h] <= reserved[payer[h]]
    OBVIOUS
  <2>1. payer[h] \in Intents /\ Present(payer[h]) /\ h \in Hashes
    BY <1>1 DEF LiveAt, Active, Paid
  <2>2. intents[payer[h]].reserved = SizeOf[h]
    BY <1>1, <2>1 DEF ReservedInFull
  <2> QED BY <1>1, <2>1, <2>2, SizesAreBytes
<1>4. IsFiniteSet(Paid(t)) /\ \A h \in Paid(t) : SizeOf[h] \in Nat
  BY SizesAreBytes, FS_Subset DEF Paid
<1>5. IsFiniteSet(LiveAt(t)) /\ \A i \in LiveAt(t) : reserved[i] \in Nat
  BY ReservedAtType
<1>6. \A g, h \in Paid(t) : payer[g] = payer[h] => g = h
  BY <1>1
<1> HIDE DEF reserved
<1>7. Total(SizeOf, Paid(t)) <= Total(reserved, LiveAt(t))
  BY <1>2, <1>3, <1>4, <1>5, <1>6, TotalOfImage
<1> QED BY <1>7 DEF Bytes, ReservedAt, reserved

\* A reservation that counted the files of F and what was reserved at t fits
\* them, the hashes paid for and its own.
LEMMA ReservationFits ==
  ASSUME TypeOK, ReservedInFull, NEW t, NEW F \in SUBSET Hashes,
         NEW h \in Hashes, NEW stored \in BOOLEAN, stored => h \in F
  PROVE  Bytes(F \cup Paid(t) \cup {h})
           <= Bytes(F) + ReservedAt(t) + ReservedBytes(h, stored, t)
<1> DEFINE P == Paid(t)
<1>1. P \in SUBSET Hashes /\ F \cup P \in SUBSET Hashes /\ {h} \in SUBSET Hashes
  BY DEF Paid
<1>2. Bytes(P) <= ReservedAt(t) /\ ReservedAt(t) \in Nat
  BY PaidIsReserved, ReservedAtType
<1> HIDE DEF P
<1>3. /\ Bytes(F) \in Nat /\ Bytes(P) \in Nat /\ Bytes(F \cup P) \in Nat
      /\ Bytes(F \cup P) <= Bytes(F) + Bytes(P)
      /\ Bytes((F \cup P) \cup {h}) <= Bytes(F \cup P) + Bytes({h})
      /\ Bytes((F \cup P) \cup {h}) \in Nat
  BY <1>1, BytesOfHashes
<1>4. CASE stored \/ ReservesHash(h, t)
  <2>1. Bytes((F \cup P) \cup {h}) = Bytes(F \cup P)
    <3>1. (F \cup P) \cup {h} = F \cup P
      BY <1>4 DEF P, Paid
    <3> QED BY <3>1
  <2>2. ReservedBytes(h, stored, t) = 0
    BY <1>4 DEF ReservedBytes
  <2>3. Bytes((F \cup P) \cup {h})
          <= Bytes(F) + ReservedAt(t) + ReservedBytes(h, stored, t)
    BY <1>2, <1>3, <2>1, <2>2
  <2> QED BY <2>3 DEF P
<1>5. CASE ~ (stored \/ ReservesHash(h, t))
  <2>1. ReservedBytes(h, stored, t) = Bytes({h}) /\ Bytes({h}) \in Nat
    BY <1>5, BytesOfHash, SizesAreBytes DEF ReservedBytes
  <2> QED BY <1>2, <1>3, <2>1 DEF P
<1> QED BY <1>4, <1>5

\* The rows that were there keep what they reserved.
RowsKept ==
  \A i \in Intents : Present(i) =>
    /\ intents'[i] # NoIntent
    /\ intents'[i].hash = intents[i].hash
    /\ intents'[i].reserved = intents[i].reserved

LEMMA CommittedAreHashes ==
  ASSUME TypeOK
  PROVE  /\ Committed \subseteq Hashes /\ Promised \subseteq Hashes
         /\ Paid(now) \subseteq Hashes
         /\ Committed \subseteq files \cup Paid(now) \cup Promised
<1>1. Committed \subseteq Hashes
  BY DEF TypeOK, Committed, LiveAt, Consumed, Active, Present, Intent
<1> QED BY <1>1 DEF Promised, Paid

LEMMA GrantedIsKept ==
  ASSUME TypeOK, RacedArePresent, RowsKept
  PROVE  Total([i \in raced |-> SizeOf[intents'[i].hash]], raced)
           = GrantedBytes(raced)
         /\ GrantedBytes(raced) \in Nat
         /\ IsFiniteSet(raced)
<1> DEFINE old == [i \in raced |-> SizeOf[intents[i].hash]]
           new == [i \in raced |-> SizeOf[intents'[i].hash]]
<1>1. IsFiniteSet(raced)
  BY SizesAreBytes, FS_Subset DEF TypeOK
<1>2. \A i \in raced : old[i] \in Nat /\ new[i] = old[i]
  BY SizesAreBytes DEF TypeOK, RacedArePresent, RowsKept, Present, Intent
<1> HIDE DEF old, new
<1>3. Total(new, raced) = Total(old, raced) /\ Total(old, raced) \in Nat
  BY <1>1, <1>2, TotalOfSame, TotalType
<1> QED BY <1>1, <1>3 DEF GrantedBytes, old, new

\* A step that promises nothing new keeps the quota.
LEMMA NothingPromised ==
  ASSUME TypeOK, TypeOK', RacedArePresent, RowsKept, QuotaKept,
         raced' = raced, unseen' = unseen, Committed' \subseteq Committed
  PROVE  QuotaKept' /\ RacedArePresent'
<1>1. RacedArePresent'
  BY DEF RacedArePresent, RowsKept, TypeOK, Present
<1>2. GrantedBytes(raced)' = GrantedBytes(raced) /\ GrantedBytes(raced) \in Nat
  BY GrantedIsKept DEF GrantedBytes
<1>3. Bytes(Committed') <= Bytes(Committed)
      /\ Bytes(Committed') \in Nat /\ Bytes(Committed) \in Nat
  BY CommittedAreHashes, BytesOfHashes
<1>4. Bytes(unseen') = Bytes(unseen) /\ Bytes(unseen) \in Nat
  BY BytesOfHashes DEF TypeOK
<1>5. QuotaKept'
  <2> SUFFICES ASSUME workspaceQuotaBytes # NoQuota
               PROVE  Bytes(Committed') <=
                 workspaceQuotaBytes + GrantedBytes(raced)' + Bytes(unseen')
    BY DEF QuotaKept
  <2>1. workspaceQuotaBytes \in Nat
    BY UploadConstants
  <2> QED BY <1>2, <1>3, <1>4, <2>1 DEF QuotaKept
<1> QED BY <1>1, <1>5

\* Nor does it take from a reservation in flight what it has found to fit.
LEMMA CallsStillFit ==
  ASSUME TypeOK, TypeOK', CallsFit, calls' = calls, now <= now',
         files' \subseteq files, Paid(now)' \subseteq Paid(now)
  PROVE  CallsFit'
<1> SUFFICES ASSUME NEW i \in Intents, calls[i] # NoCall
             PROVE  CallFits(calls[i])'
  BY DEF CallsFit
<1> DEFINE c == calls[i]
           counted == files \cup {h \in {c.hash} : c.stored}
           counted1 == files' \cup {h \in {c.hash} : c.stored}
           room == files \cup Paid(now) \cup {c.hash}
           room1 == files' \cup Paid(now)' \cup {c.hash}
<1>1. c \in Call /\ CallFits(c)
  BY DEF TypeOK, CallsFit
<1>2. /\ counted \in SUBSET Hashes /\ counted1 \in SUBSET Hashes
      /\ room \in SUBSET Hashes /\ room1 \in SUBSET Hashes
      /\ counted1 \subseteq counted /\ room1 \subseteq room
  BY <1>1, CommittedAreHashes DEF TypeOK, Call
<1> HIDE DEF counted, counted1, room, room1
<1>3. /\ Bytes(counted) \in Nat /\ Bytes(counted1) \in Nat
      /\ Bytes(counted1) <= Bytes(counted)
      /\ Bytes(room) \in Nat /\ Bytes(room1) \in Nat
      /\ Bytes(room1) <= Bytes(room)
  BY <1>2, BytesOfHashes
<1>4. c.used \in Nat /\ c.started \in Nat /\ now \in Nat /\ now' \in Nat
  BY <1>1 DEF Call, TypeOK
<1>5. workspaceQuotaBytes # NoQuota => workspaceQuotaBytes \in Nat
  BY UploadConstants
<1>6. /\ c.started <= now'
      /\ c.pc = "batch" => c.bytes \in {0, SizeOf[c.hash]}
      /\ ~ c.overtaken =>
           /\ c.pc = "totals" => Bytes(counted1) <= c.used
           /\ c.pc = "batch" /\ workspaceQuotaBytes # NoQuota =>
                Bytes(room1) <= workspaceQuotaBytes
  BY <1>1, <1>3, <1>4, <1>5 DEF CallFits, counted, room
<1> QED BY <1>6 DEF CallFits, counted1, room1

\* A reservation that another write has overtaken claims nothing.
LEMMA OvertakenFit ==
  ASSUME TypeOK, CallsFit, NEW cs, \A j \in Intents : cs[j] \in {calls[j], NoCall},
         calls' = Overtaken(cs), now' = now
  PROVE  CallsFit'
<1> SUFFICES ASSUME NEW i \in Intents, calls'[i] # NoCall
             PROVE  CallFits(calls[i])'
  BY DEF CallsFit
<1>1. cs[i] # NoCall /\ cs[i] = calls[i] /\ calls'[i] = [calls[i] EXCEPT !.overtaken = TRUE]
  BY DEF Overtaken
<1>2. calls[i] \in Call /\ CallFits(calls[i])
  BY <1>1 DEF TypeOK, CallsFit
<1>3. /\ calls'[i].overtaken = TRUE /\ calls'[i].started = calls[i].started
      /\ calls'[i].pc = calls[i].pc /\ calls'[i].bytes = calls[i].bytes
      /\ calls'[i].hash = calls[i].hash
  BY <1>1, <1>2 DEF Call
<1> QED BY <1>2, <1>3 DEF CallFits

\* The row of a reservation is new, and the sweep before it ends only rows
\* that were not live any more.
LEMMA RowOfReservation ==
  ASSUME TypeOK, ReservedInFull,
         NEW i \in Intents, NEW h \in Hashes, NEW bytes \in {0, SizeOf[h]},
         NEW expires \in Times, NEW t \in Nat, t <= now, intents[i] = NoIntent,
         files' = files, now' = now, Insert(i, h, bytes, expires, t)
  PROVE  /\ RowsKept /\ ReservedInFull'
         /\ intents'[i] # NoIntent /\ intents'[i].hash = h
         /\ Committed' \subseteq Committed \cup {h}
<1> DEFINE row == [hash |-> h, reserved |-> bytes, expires |-> expires,
                   status |-> "active"]
<1>1. bytes \in Nat
  BY SizesAreBytes
<1>2. row \in Intent /\ row.hash = h /\ row.reserved = bytes /\ row.status = "active"
  BY <1>1 DEF Intent
<1>3. intents' = [ExpireDue(t) EXCEPT ![i] = row]
  BY DEF Insert
<1> HIDE DEF row
<1>4. intents'[i] = row /\ \A j \in Intents \ {i} : intents'[j] = ExpireDue(t)[j]
  BY <1>3, ExpireDueKeeps
<1>5. row # NoIntent
  BY <1>2, UploadSentinels
<1>6. \A j \in Intents \ {i} :
        /\ Present(j) <=> intents'[j] # NoIntent
        /\ Present(j) => /\ intents'[j].hash = intents[j].hash
                         /\ intents'[j].reserved = intents[j].reserved
                         /\ intents'[j].expires = intents[j].expires
                         /\ \/ intents'[j].status = intents[j].status
                            \/ /\ intents'[j].status = "expired"
                               /\ intents[j].status = "active"
  <2> SUFFICES ASSUME NEW j \in Intents \ {i}
      PROVE  /\ Present(j) <=> intents'[j] # NoIntent
             /\ Present(j) => /\ intents'[j].hash = intents[j].hash
                              /\ intents'[j].reserved = intents[j].reserved
                              /\ intents'[j].expires = intents[j].expires
                              /\ \/ intents'[j].status = intents[j].status
                                 \/ /\ intents'[j].status = "expired"
                                    /\ intents[j].status = "active"
    OBVIOUS
  <2>1. CASE Active(j) /\ intents[j].expires <= t
    <3>1. intents'[j] = [intents[j] EXCEPT !.status = "expired"]
      BY <1>4, <2>1 DEF ExpireDue
    <3>2. intents[j] \in Intent
      BY <2>1 DEF TypeOK, Active, Present
    <3>3. intents'[j] \in Intent
      BY <3>1, <3>2 DEF Intent
    <3> QED BY <2>1, <3>1, <3>2, <3>3, UploadSentinels DEF Intent, Active, Present
  <2>2. CASE ~ (Active(j) /\ intents[j].expires <= t)
    BY <1>4, <2>2 DEF ExpireDue, Present
  <2> QED BY <2>1, <2>2
<1>7. RowsKept
  BY <1>6 DEF RowsKept, Present
<1>8. ReservedInFull'
  BY <1>2, <1>4, <1>6 DEF ReservedInFull, Present
<1>9. Committed' \subseteq Committed \cup {h}
  <2> SUFFICES ASSUME NEW g \in Committed', g # h PROVE g \in Committed
    OBVIOUS
  <2>1. CASE g \in files'
    BY <2>1 DEF Committed
  <2>2. ASSUME NEW j \in LiveAt(now)' \cup Consumed', intents'[j].hash = g
        PROVE  g \in Committed
    <3>1. j \in Intents \ {i}
      BY <1>2, <1>4, <2>2 DEF LiveAt, Consumed
    <3>2. j \in LiveAt(now) \cup Consumed /\ intents[j].hash = g
      BY <1>6, <2>2, <3>1 DEF LiveAt, Consumed, Active, Present
    <3> QED BY <3>2 DEF Committed
  <2> QED BY <2>1, <2>2 DEF Committed
<1> QED BY <1>2, <1>4, <1>5, <1>7, <1>8, <1>9

\* A reservation that fits keeps the quota, up to what it did not see.
LEMMA FittingReservation ==
  ASSUME TypeOK, TypeOK', RacedArePresent, RowsKept, NEW h \in Hashes,
         workspaceQuotaBytes # NoQuota =>
           Bytes(files \cup Paid(now) \cup {h}) <= workspaceQuotaBytes,
         Committed' \subseteq Committed \cup {h},
         raced' = raced, unseen' = unseen \cup Promised
  PROVE  QuotaKept' /\ RacedArePresent'
<1>1. RacedArePresent'
  BY DEF RacedArePresent, RowsKept, TypeOK, Present
<1>2. GrantedBytes(raced)' \in Nat
  BY GrantedIsKept DEF GrantedBytes
<1> DEFINE seen == files \cup Paid(now) \cup {h}
           P == Promised
<1>3. /\ seen \in SUBSET Hashes /\ P \in SUBSET Hashes
      /\ unseen' \in SUBSET Hashes /\ P \subseteq unseen'
      /\ Committed' \in SUBSET Hashes /\ seen \cup P \in SUBSET Hashes
      /\ Committed' \subseteq seen \cup P
  <2>1. /\ seen \in SUBSET Hashes /\ P \in SUBSET Hashes
        /\ Committed' \subseteq seen \cup P
    BY CommittedAreHashes DEF TypeOK
  <2>2. unseen' \in SUBSET Hashes /\ P \subseteq unseen'
    BY DEF TypeOK
  <2> QED BY <2>1, <2>2
<1> HIDE DEF seen, P
<1>4. /\ Bytes(seen) \in Nat /\ Bytes(P) \in Nat /\ Bytes(unseen') \in Nat
      /\ Bytes(Committed') \in Nat /\ Bytes(seen \cup P) \in Nat
      /\ Bytes(Committed') <= Bytes(seen \cup P)
      /\ Bytes(seen \cup P) <= Bytes(seen) + Bytes(P)
      /\ Bytes(P) <= Bytes(unseen')
  BY <1>3, BytesOfHashes
<1>5. QuotaKept'
  <2> SUFFICES ASSUME workspaceQuotaBytes # NoQuota
               PROVE  Bytes(Committed') <=
                 workspaceQuotaBytes + GrantedBytes(raced)' + Bytes(unseen')
    BY DEF QuotaKept
  <2>1. workspaceQuotaBytes \in Nat /\ Bytes(seen) <= workspaceQuotaBytes
    BY UploadConstants DEF seen
  <2> QED BY <1>2, <1>4, <2>1
<1> QED BY <1>1, <1>5

\* One that D1 granted on overtaken reads is counted as such.
LEMMA RacedReservation ==
  ASSUME TypeOK, TypeOK', RacedArePresent, RowsKept, QuotaKept,
         NEW i \in Intents, NEW h \in Hashes, intents[i] = NoIntent,
         intents'[i] # NoIntent, intents'[i].hash = h,
         Committed' \subseteq Committed \cup {h},
         raced' = raced \cup {i}, unseen' = unseen \cup Promised
  PROVE  QuotaKept' /\ RacedArePresent'
<1>1. RacedArePresent'
  BY DEF RacedArePresent, RowsKept, TypeOK, Present
<1> DEFINE granted == [j \in raced' |-> SizeOf[intents'[j].hash]]
           before == [j \in raced |-> SizeOf[intents'[j].hash]]
<1>2. /\ Total(before, raced) = GrantedBytes(raced)
      /\ GrantedBytes(raced) \in Nat /\ IsFiniteSet(raced)
  BY GrantedIsKept
<1>3. /\ \A j \in raced \cup {i} : granted[j] \in Nat
      /\ \A j \in raced : before[j] \in Nat /\ granted[j] = before[j]
      /\ granted[i] = SizeOf[h]
      /\ raced \cap {i} = {} /\ raced' = raced \cup {i}
  BY SizesAreBytes DEF TypeOK, RacedArePresent, RowsKept, Present, Intent
<1>4. GrantedBytes(raced)' = Total(granted, raced')
  BY DEF GrantedBytes
<1> HIDE DEF granted, before
<1>5. Total(granted, raced \cup {i}) = Total(granted, raced) + Total(granted, {i})
  <2> DEFINE one == {i}
  <2>1. IsFiniteSet(one) /\ raced \cap one = {}
    BY <1>3, FS_Singleton
  <2>2. \A j \in raced \cup one : granted[j] \in Nat
    BY <1>3
  <2> HIDE DEF one
  <2>3. Total(granted, raced \cup one) = Total(granted, raced) + Total(granted, one)
    BY <1>2, <2>1, <2>2, TotalOfUnion
  <2> QED BY <2>3 DEF one
<1>6. Total(granted, raced) = Total(before, raced)
  BY <1>2, <1>3, TotalOfSame
<1>7. Total(granted, {i}) = SizeOf[h] /\ SizeOf[h] \in Nat
  BY <1>3, SizesAreBytes, TotalOfOne
<1>8. GrantedBytes(raced)' = GrantedBytes(raced) + SizeOf[h]
  <2>1. Total(granted, raced') = Total(granted, raced \cup {i})
    BY <1>3
  <2> QED BY <1>2, <1>4, <1>5, <1>6, <1>7, <2>1
<1>9. /\ Bytes(Committed') \in Nat /\ Bytes(Committed) \in Nat
      /\ Bytes(Committed') <= Bytes(Committed) + SizeOf[h]
  <2>1. /\ Committed \in SUBSET Hashes /\ {h} \in SUBSET Hashes
        /\ Committed' \in SUBSET Hashes /\ Committed \cup {h} \in SUBSET Hashes
    BY CommittedAreHashes
  <2>2. /\ Bytes(Committed') \in Nat /\ Bytes(Committed) \in Nat
        /\ Bytes(Committed \cup {h}) \in Nat
        /\ Bytes(Committed') <= Bytes(Committed \cup {h})
        /\ Bytes(Committed \cup {h}) <= Bytes(Committed) + Bytes({h})
    BY <2>1, BytesOfHashes
  <2>3. Bytes({h}) = SizeOf[h]
    BY BytesOfHash
  <2> QED BY <1>7, <2>2, <2>3
<1>10. Bytes(unseen) \in Nat /\ Bytes(unseen') \in Nat /\ Bytes(unseen) <= Bytes(unseen')
  <2>1. unseen \in SUBSET Hashes /\ unseen' \in SUBSET Hashes /\ unseen \subseteq unseen'
    BY DEF TypeOK
  <2> QED BY <2>1, BytesOfHashes
<1>11. QuotaKept'
  <2> SUFFICES ASSUME workspaceQuotaBytes # NoQuota
               PROVE  Bytes(Committed') <=
                 workspaceQuotaBytes + GrantedBytes(raced)' + Bytes(unseen')
    BY DEF QuotaKept
  <2>1. workspaceQuotaBytes \in Nat
    BY UploadConstants
  <2>2. Bytes(Committed) <= workspaceQuotaBytes + GrantedBytes(raced) + Bytes(unseen)
    BY DEF QuotaKept
  <2> QED BY <1>2, <1>7, <1>8, <1>9, <1>10, <2>1, <2>2
<1> QED BY <1>1, <1>11

LEMMA QuotaStep ==
  ASSUME QuotaInv, [Next]_vars
  PROVE  QuotaInv'
<1> USE DEF QuotaInv
<1>0. TypeOK' /\ UploadInv'
  BY TypeStep, StepKeeps
<1>n. now \in Nat /\ now' \in Nat
  BY <1>0, SizesAreBytes DEF TypeOK
<1>1. ASSUME NEW i \in Intents, NEW h \in Hashes, NEW expires \in Times,
             reserveUploadIntent(i, h, expires)
      PROVE  QuotaInv'
  <2> DEFINE bytes == ReservedBytes(h, h \in files, now)
  <2>1. /\ intents[i] = NoIntent /\ Insert(i, h, bytes, expires, now)
        /\ files' = files /\ now' = now /\ calls' = calls /\ driver' = driver
        /\ driver = "local"
        /\ WithinQuota(Bytes(files), ReservedAt(now), bytes)
        /\ unseen' = unseen \cup Promised /\ raced' = raced
    BY <1>1 DEF reserveUploadIntent, Valid
  <2>2. bytes \in {0, SizeOf[h]}
    BY DEF ReservedBytes
  <2>3. Bytes(files \cup Paid(now) \cup {h})
          <= Bytes(files) + ReservedAt(now) + bytes
    <3>1. files \in SUBSET Hashes /\ (h \in files) \in BOOLEAN
      BY DEF TypeOK
    <3> QED BY <3>1, ReservationFits
  <2> HIDE DEF bytes
  <2>4. /\ RowsKept /\ ReservedInFull'
        /\ Committed' \subseteq Committed \cup {h}
    BY <1>n, <2>1, <2>2, RowOfReservation
  <2>5. workspaceQuotaBytes # NoQuota =>
          Bytes(files \cup Paid(now) \cup {h}) <= workspaceQuotaBytes
    <3>1. /\ Bytes(files) \in Nat /\ ReservedAt(now) \in Nat /\ bytes \in Nat
          /\ Bytes(files \cup Paid(now) \cup {h}) \in Nat
      <4>1. files \in SUBSET Hashes /\ files \cup Paid(now) \cup {h} \in SUBSET Hashes
        BY CommittedAreHashes DEF TypeOK
      <4>2. Bytes(files) \in Nat /\ Bytes(files \cup Paid(now) \cup {h}) \in Nat
        BY <4>1, BytesOfHashes
      <4>3. bytes \in Nat
        BY <2>2, SizesAreBytes
      <4>4. ReservedAt(now) \in Nat
        BY ReservedAtType
      <4> QED BY <4>2, <4>3, <4>4
    <3> QED BY <2>1, <2>3, <3>1, UploadConstants DEF WithinQuota
  <2>6. QuotaKept' /\ RacedArePresent'
    BY <1>0, <2>1, <2>4, <2>5, FittingReservation
  <2>7. CallsFit' /\ CallsAreD1'
    BY <2>1 DEF CallsFit, CallsAreD1
  <2> QED BY <1>0, <2>4, <2>6, <2>7
<1>2. ASSUME NEW i \in Intents, NEW h \in Hashes, NEW expires \in Times,
             BeginReserveInD1(i, h, expires)
      PROVE  QuotaInv'
  <2> DEFINE call ==
        [hash |-> h, expires |-> expires, started |-> now, pc |-> "totals",
         stored |-> h \in files, used |-> Bytes(files), bytes |-> 0,
         overtaken |-> FALSE]
  <2>1. /\ calls' = [calls EXCEPT ![i] = call] /\ driver = "d1"
        /\ UNCHANGED <<driver, intents, files, now, raced, unseen>>
    BY <1>2 DEF BeginReserveInD1
  <2>2. CallFits(call)
    <3>1. files \cup {g \in {call.hash} : call.stored} = files
      OBVIOUS
    <3>2. Bytes(files \cup {g \in {call.hash} : call.stored}) = call.used
      BY <3>1
    <3>3. call.used \in Nat
      BY BytesOfHashes DEF TypeOK
    <3> QED BY <1>n, <3>2, <3>3 DEF CallFits
  <2>3. calls'[i] = call /\ \A j \in Intents \ {i} : calls'[j] = calls[j]
    BY <2>1 DEF TypeOK
  <2> HIDE DEF call
  <2>4. ASSUME NEW c, CallFits(c)
        PROVE  /\ c.started <= now'
               /\ c.pc = "batch" => c.bytes \in {0, SizeOf[c.hash]}
               /\ ~ c.overtaken =>
                    /\ c.pc = "totals" =>
                         Bytes(files' \cup {g \in {c.hash} : c.stored}) <= c.used
                    /\ c.pc = "batch" /\ workspaceQuotaBytes # NoQuota =>
                         Bytes(files' \cup Paid(now)' \cup {c.hash})
                           <= workspaceQuotaBytes
    <3>1. Paid(now)' = Paid(now) /\ files' = files
      BY <2>1 DEF Paid, ReservesHash, LiveAt, Active, Present
    <3> QED BY <2>1, <2>4, <3>1 DEF CallFits
  <2>5. CallsFit'
    <3> SUFFICES ASSUME NEW j \in Intents, calls'[j] # NoCall
                 PROVE  CallFits(calls[j])'
      BY DEF CallsFit
    <3>1. CallFits(calls'[j])
      BY <2>2, <2>3 DEF CallsFit
    <3> QED BY <2>4, <3>1 DEF CallFits
  <2>6. /\ RowsKept /\ Committed' \subseteq Committed /\ ReservedInFull'
        /\ CallsAreD1'
    BY <2>1 DEF RowsKept, Present, Committed, LiveAt, Active, Consumed,
                ReservedInFull, CallsAreD1
  <2>7. QuotaKept' /\ RacedArePresent'
    BY <1>0, <2>1, <2>6, NothingPromised
  <2> QED BY <1>0, <2>5, <2>6, <2>7
<1>3. ASSUME NEW i \in Intents, ReadTotals(i)
      PROVE  QuotaInv'
  <2> DEFINE c == calls[i]
             bytes == ReservedBytes(c.hash, c.stored, c.started)
             read == [c EXCEPT !.pc = "batch", !.bytes = bytes]
  <2>1. /\ c # NoCall /\ c.pc = "totals"
        /\ calls' = [calls EXCEPT ![i] =
             IF WithinQuota(c.used, ReservedAt(c.started), bytes)
             THEN read ELSE NoCall]
        /\ UNCHANGED <<driver, intents, files, now, raced, unseen>>
    BY <1>3 DEF ReadTotals
  <2>2. c \in Call /\ CallFits(c) /\ driver # "local"
    BY <2>1 DEF TypeOK, CallsFit, CallsAreD1
  <2>3. bytes \in {0, SizeOf[c.hash]}
    BY DEF ReservedBytes
  <2> DEFINE counted == files \cup {g \in {c.hash} : c.stored}
             room == files \cup Paid(now) \cup {c.hash}
             room0 == counted \cup Paid(c.started) \cup {c.hash}
  <2>4. ASSUME WithinQuota(c.used, ReservedAt(c.started), bytes),
               ~ c.overtaken, workspaceQuotaBytes # NoQuota
        PROVE  Bytes(room) <= workspaceQuotaBytes
    <3>1. /\ counted \in SUBSET Hashes /\ c.hash \in Hashes /\ c.stored \in BOOLEAN
          /\ c.stored => c.hash \in counted
      BY <2>2 DEF TypeOK, Call
    <3>2. Bytes(room0) <= Bytes(counted) + ReservedAt(c.started) + bytes
      <4> HIDE DEF counted
      <4> QED BY <3>1, ReservationFits
    <3>3. c.started \in Nat /\ c.started <= now
      BY <2>2 DEF Call, CallFits
    <3>4. Paid(now) \subseteq Paid(c.started) /\ Paid(c.started) \subseteq Hashes
      BY <1>n, <3>3, LiveUntil DEF Paid
    <3>5. room \subseteq room0 /\ room \in SUBSET Hashes /\ room0 \in SUBSET Hashes
      BY <3>1, <3>4
    <3>6. Bytes(counted) <= c.used
      BY <2>1, <2>2, <2>4 DEF CallFits
    <3> HIDE DEF counted, room, room0, bytes, c
    <3>7. /\ Bytes(room) \in Nat /\ Bytes(room0) \in Nat /\ Bytes(room) <= Bytes(room0)
          /\ Bytes(counted) \in Nat /\ ReservedAt(c.started) \in Nat
          /\ c.used \in Nat /\ bytes \in Nat
      <4>1. /\ Bytes(room) \in Nat /\ Bytes(room0) \in Nat /\ Bytes(room) <= Bytes(room0)
            /\ Bytes(counted) \in Nat
        BY <3>1, <3>5, BytesOfHashes
      <4>2. ReservedAt(c.started) \in Nat
        BY ReservedAtType
      <4>3. c.used \in Nat
        BY <2>2 DEF Call
      <4>4. bytes \in Nat
        BY <2>3, <3>1, SizesAreBytes
      <4> QED BY <4>1, <4>2, <4>3, <4>4
    <3> QED BY <2>4, <3>2, <3>6, <3>7, UploadConstants DEF WithinQuota
  <2>5. /\ read.started = c.started /\ read.pc = "batch" /\ read.bytes = bytes
        /\ read.hash = c.hash /\ read.overtaken = c.overtaken
    BY <2>2 DEF Call
  <2>6. WithinQuota(c.used, ReservedAt(c.started), bytes) => CallFits(read)
    <3> HIDE DEF read, bytes
    <3> QED BY <2>2, <2>3, <2>4, <2>5 DEF CallFits
  <2>7. /\ calls'[i] = IF WithinQuota(c.used, ReservedAt(c.started), bytes)
                       THEN read ELSE NoCall
        /\ \A j \in Intents \ {i} : calls'[j] = calls[j]
    BY <2>1 DEF TypeOK
  <2> HIDE DEF read, bytes, c
  <2>8. CallsFit'
    <3> SUFFICES ASSUME NEW j \in Intents, calls'[j] # NoCall
                 PROVE  CallFits(calls[j])'
      BY DEF CallsFit
    <3>1. CallFits(calls'[j])
      BY <2>6, <2>7 DEF CallsFit
    <3>2. Paid(now)' = Paid(now) /\ files' = files /\ now' = now
      BY <2>1 DEF Paid, ReservesHash, LiveAt, Active, Present
    <3> QED BY <3>1, <3>2 DEF CallFits
  <2>9. /\ RowsKept /\ Committed' \subseteq Committed /\ ReservedInFull'
        /\ CallsAreD1'
    BY <2>1, <2>2 DEF RowsKept, Present, Committed, LiveAt, Active, Consumed,
                ReservedInFull, CallsAreD1
  <2>10. QuotaKept' /\ RacedArePresent'
    BY <1>0, <2>1, <2>9, NothingPromised
  <2> QED BY <1>0, <2>8, <2>9, <2>10
<1>4. ASSUME NEW i \in Intents, CommitReserve(i)
      PROVE  QuotaInv'
  <2> DEFINE c == calls[i]
  <2>1. /\ c # NoCall /\ c.pc = "batch"
        /\ Insert(i, c.hash, c.bytes, c.expires, c.started)
        /\ calls' = Overtaken([calls EXCEPT ![i] = NoCall])
        /\ raced' = IF c.overtaken THEN raced \cup {i} ELSE raced
        /\ unseen' = unseen \cup Promised
        /\ driver' = driver /\ files' = files /\ now' = now
    BY <1>4 DEF CommitReserve
  <2>2. c \in Call /\ CallFits(c) /\ driver # "local" /\ intents[i] = NoIntent
    BY <2>1 DEF TypeOK, CallsFit, CallsAreD1, UploadInv
  <2>3. /\ c.hash \in Hashes /\ c.bytes \in {0, SizeOf[c.hash]}
        /\ c.expires \in Times /\ c.started \in Nat /\ c.started <= now
        /\ c.overtaken \in BOOLEAN
    BY <2>1, <2>2 DEF Call, CallFits
  <2>4. ~ c.overtaken /\ workspaceQuotaBytes # NoQuota =>
          Bytes(files \cup Paid(now) \cup {c.hash}) <= workspaceQuotaBytes
    BY <2>1, <2>2 DEF CallFits
  <2> HIDE DEF c
  <2>5. /\ RowsKept /\ ReservedInFull'
        /\ intents'[i] # NoIntent /\ intents'[i].hash = c.hash
        /\ Committed' \subseteq Committed \cup {c.hash}
    BY <2>1, <2>2, <2>3, RowOfReservation
  <2>6. QuotaKept' /\ RacedArePresent'
    <3>1. CASE c.overtaken
      <4>1. raced' = raced \cup {i}
        BY <2>1, <3>1
      <4> QED BY <1>0, <2>1, <2>2, <2>3, <2>5, <4>1, RacedReservation
    <3>2. CASE ~ c.overtaken
      <4>1. raced' = raced
        BY <2>1, <3>2
      <4> QED BY <1>0, <2>1, <2>3, <2>4, <2>5, <3>2, <4>1, FittingReservation
    <3> QED BY <3>1, <3>2
  <2>7. CallsFit'
    <3> DEFINE cs == [calls EXCEPT ![i] = NoCall]
    <3>1. \A j \in Intents : cs[j] \in {calls[j], NoCall}
      BY DEF TypeOK
    <3>2. calls' = Overtaken(cs) /\ now' = now
      BY <2>1
    <3> HIDE DEF cs
    <3> QED BY <3>1, <3>2, OvertakenFit
  <2>8. CallsAreD1'
    BY <2>1, <2>2 DEF CallsAreD1
  <2> QED BY <1>0, <2>5, <2>6, <2>7, <2>8
<1>5. ASSUME NEW i \in Intents, consumeUploadIntent(i) \/ cancelUploadIntent(i)
      PROVE  QuotaInv'
  <2>1. PICK status \in {"consumed", "cancelled"} :
          /\ EndAs(i, status)
          /\ status = "consumed" => i \in LiveAt(now)
    BY <1>5 DEF consumeUploadIntent, cancelUploadIntent
  <2>2. /\ intents' = [intents EXCEPT ![i].status = status]
        /\ UNCHANGED <<driver, files, now, calls, raced, unseen>>
    BY <2>1 DEF EndAs
  <2>3. intents[i] \in Intent /\ Active(i)
    BY <1>5 DEF consumeUploadIntent, cancelUploadIntent, LiveAt, Active,
                Present, TypeOK
  <2>4. /\ intents'[i] \in Intent /\ intents'[i].status = status
        /\ intents'[i].hash = intents[i].hash
        /\ intents'[i].reserved = intents[i].reserved
        /\ intents'[i].expires = intents[i].expires
    <3>1. intents'[i] = [intents[i] EXCEPT !.status = status]
      BY <2>2 DEF TypeOK
    <3> QED BY <2>1, <2>3, <3>1 DEF Intent
  <2>5. \A j \in Intents \ {i} : intents'[j] = intents[j]
    BY <2>2 DEF TypeOK
  <2>6. RowsKept /\ ReservedInFull'
    BY <2>3, <2>4, <2>5, UploadSentinels
       DEF RowsKept, ReservedInFull, Active, Present
  <2>7. LiveAt(now)' \subseteq LiveAt(now)
        /\ Consumed' \subseteq Consumed \cup LiveAt(now)
    BY <2>1, <2>2, <2>3, <2>4, <2>5 DEF LiveAt, Consumed, Active, Present
  <2>8. \A j \in LiveAt(now) \cup Consumed :
          intents'[j].hash = intents[j].hash
          /\ intents'[j].reserved = intents[j].reserved
    BY <2>4, <2>5 DEF LiveAt, Consumed
  <2>9. Committed' \subseteq Committed /\ Paid(now)' \subseteq Paid(now)
    <3>1. Committed' \subseteq Committed
      BY <2>2, <2>7, <2>8 DEF Committed
    <3>2. Paid(now)' \subseteq Paid(now)
      BY <2>2, <2>7, <2>8 DEF Paid, ReservesHash
    <3> QED BY <3>1, <3>2
  <2>10. CallsFit'
    BY <1>0, <1>n, <2>2, <2>9, CallsStillFit
  <2>11. QuotaKept' /\ RacedArePresent'
    BY <1>0, <2>2, <2>6, <2>9, NothingPromised
  <2>12. CallsAreD1'
    BY <2>2 DEF CallsAreD1
  <2> QED BY <1>0, <2>6, <2>10, <2>11, <2>12
<1>6. ASSUME NEW h \in Hashes, PushFile(h)
      PROVE  QuotaInv'
  <2>1. /\ files' = files \cup {h} /\ calls' = Overtaken(calls)
        /\ UNCHANGED <<driver, intents, now, raced, unseen>>
        /\ \E i \in Consumed : intents[i].hash = h
    BY <1>6 DEF PushFile
  <2>2. /\ RowsKept /\ Committed' \subseteq Committed /\ ReservedInFull'
    BY <2>1 DEF RowsKept, Present, Committed, LiveAt, Active, Consumed,
                ReservedInFull
  <2>3. CallsFit'
    BY <2>1, OvertakenFit
  <2>4. QuotaKept' /\ RacedArePresent'
    BY <1>0, <2>1, <2>2, NothingPromised
  <2>5. CallsAreD1'
    BY <2>1 DEF CallsAreD1, Overtaken
  <2> QED BY <1>0, <2>2, <2>3, <2>4, <2>5
<1>7. ASSUME NEW h \in Hashes, DeleteFile(h)
      PROVE  QuotaInv'
  <2>1. /\ files' \subseteq files
        /\ UNCHANGED <<driver, intents, now, calls, raced, unseen>>
    BY <1>7 DEF DeleteFile
  <2>2. /\ RowsKept /\ Committed' \subseteq Committed /\ ReservedInFull'
        /\ Paid(now)' \subseteq Paid(now) /\ CallsAreD1'
    BY <2>1 DEF RowsKept, Present, Committed, LiveAt, Active, Consumed,
                ReservedInFull, Paid, ReservesHash, CallsAreD1
  <2>3. CallsFit'
    BY <1>0, <1>n, <2>1, <2>2, CallsStillFit
  <2>4. QuotaKept' /\ RacedArePresent'
    BY <1>0, <2>1, <2>2, NothingPromised
  <2> QED BY <1>0, <2>2, <2>3, <2>4
<1>8. CASE Tick \/ UNCHANGED vars
  <2>1. /\ now <= now'
        /\ UNCHANGED <<driver, intents, files, calls, raced, unseen>>
    BY <1>8, <1>n DEF Tick, vars
  <2>2. LiveAt(now)' \subseteq LiveAt(now) /\ Consumed' = Consumed
    <3>1. LiveAt(now') \subseteq LiveAt(now)
      BY <1>n, <2>1, LiveUntil
    <3> QED BY <2>1, <3>1 DEF LiveAt, Consumed, Active, Present
  <2>3. /\ RowsKept /\ Committed' \subseteq Committed /\ ReservedInFull'
        /\ Paid(now)' \subseteq Paid(now) /\ CallsAreD1'
    <3>1. Committed' \subseteq Committed
      BY <2>1, <2>2 DEF Committed
    <3>2. Paid(now)' \subseteq Paid(now)
      BY <2>1, <2>2 DEF Paid, ReservesHash
    <3>3. RowsKept /\ ReservedInFull' /\ CallsAreD1'
      BY <2>1 DEF RowsKept, ReservedInFull, Present, CallsAreD1
    <3> QED BY <3>1, <3>2, <3>3
  <2>4. CallsFit'
    BY <1>0, <1>n, <2>1, <2>3, CallsStillFit
  <2>5. QuotaKept' /\ RacedArePresent'
    BY <1>0, <2>1, <2>3, NothingPromised
  <2> QED BY <1>0, <2>3, <2>4, <2>5
<1> QED BY <1>1, <1>2, <1>3, <1>4, <1>5, <1>6, <1>7, <1>8 DEF Next

\* What the workspace stores, or may still store by uploads it has accepted
\* or authorized, stays within its quota, with either driver, but for what
\* D1 grants on overtaken reads and for the uploads that no table showed to
\* a later reservation.
THEOREM QuotaHolds == Spec => []QuotaKept
<1>1. Init => QuotaInv
  <2> SUFFICES ASSUME Init PROVE QuotaInv
    OBVIOUS
  <2>1. TypeOK /\ UploadInv
    BY UploadConstants DEF Init, TypeOK, UploadInv
  <2>2. ReservedInFull /\ RacedArePresent /\ CallsFit /\ CallsAreD1
    BY DEF Init, ReservedInFull, RacedArePresent, CallsFit, CallsAreD1, Present
  <2>3. Committed = {} /\ raced = {} /\ unseen = {}
    BY DEF Init, Committed, LiveAt, Consumed, Active, Present
  <2>4. Bytes(Committed) = 0
    <3>1. Bytes({}) = 0
      <4>1. IsFiniteSet({}) /\ Units(SizeOf, {}) = {} /\ Cardinality({}) = 0
        BY FS_EmptySet DEF Units
      <4>2. Total(SizeOf, {}) = Cardinality(Units(SizeOf, {}))
        BY <4>1, TotalCountsUnits
      <4> QED BY <4>1, <4>2 DEF Bytes
    <3> QED BY <2>3, <3>1
  <2>5. GrantedBytes(raced) \in Nat /\ Bytes(unseen) \in Nat
    <3>1. Bytes(unseen) \in Nat
      BY <2>1, BytesOfHashes DEF TypeOK
    <3>2. GrantedBytes(raced) \in Nat
      <4> DEFINE granted == [i \in raced |-> SizeOf[intents[i].hash]]
      <4>1. IsFiniteSet(raced) /\ \A i \in raced : granted[i] \in Nat
        BY <2>3, FS_EmptySet
      <4> HIDE DEF granted
      <4>2. Total(granted, raced) \in Nat
        BY <4>1, TotalType
      <4> QED BY <4>2 DEF GrantedBytes, granted
    <3> QED BY <3>1, <3>2
  <2>6. QuotaKept
    BY <2>4, <2>5, UploadConstants DEF QuotaKept
  <2> QED BY <2>1, <2>2, <2>6 DEF QuotaInv
<1>2. QuotaInv /\ [Next]_vars => QuotaInv'
  BY QuotaStep
<1>3. QuotaInv => QuotaKept
  BY DEF QuotaInv
<1> QED BY <1>1, <1>2, <1>3, PTL DEF Spec
=============================================================================
