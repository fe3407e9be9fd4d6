-------------------------- MODULE EtfProfiles_proofs ---------------------------
(***************************************************************************)
(* TLAPS proofs about EtfProfiles, for any workers, instruments, fields,   *)
(* values and listings, any page size and any bound on time, as long as    *)
(* upserts follow each other (MaxUpserts = 1).                             *)
(*                                                                         *)
(* A profile shows what all rows of its instrument resolve to, and a pack  *)
(* tells what the rows of its transaction and before resolve to.  A pack   *)
(* that is found and kept was made from rows between two sets that make    *)
(* the same items, so the newest pack tells what the profile shows.        *)
(***************************************************************************)
EXTENDS EtfProfiles, FiniteSetTheorems, NaturalsInduction, WellFoundedInduction, TLAPS

Jobs == [phase : Phases, answer : Answers, no : 0..(MaxTime + 1), time : 0..MaxTime,
         start : 0..MaxTime, todo : SUBSET Instruments, rows : SUBSET Rows,
         seen : SUBSET Rows, shown : Tables, packs : SUBSET Packs]

(* The rows of one instrument. *)
RowsOf(rows, i) == {r \in rows : r.i = i}

(* What a pack was built from: the rows of its transaction and before. *)
SeenBy(p) == {r \in evidence : r.i = p.i /\ r.created <= p.created}

Shows(profile, rows) == profile = [f \in Fields |-> Resolved(rows, f)]
Tells(p, rows)       == p.items = [f \in Fields |-> Item(rows, f)]

Running == {"choose", "add", "read", "write", "commit"}

Alone == \A v, w \in Workers :
           worker[v].phase \in Running /\ worker[w].phase \in Running => v = w

(* A pack that no other pack of its instrument is newer than. *)
Newest(p) == \A q \in packs : q.i = p.i => q.created <= p.created

-----------------------------------------------------------------------------
(* Attempts *)

Numbers == {a.no : a \in attempts}

NumbersDense == \A a \in attempts : \A n \in 1 .. a.no : n \in Numbers

NumberOK(w) ==
  /\ w.phase \in {"number", "record"} => w.time \in 1 .. MaxTime
  /\ w.phase = "record" => w.no # 0 /\ \A n \in 1 .. w.no - 1 : n \in Numbers

(* Attempts at least as fresh are listed. *)
Fresh(time) == \E a \in Listed : a.answer.ok /\ time <= a.finished

-----------------------------------------------------------------------------
(* Profiles and packs *)

ProfilesInv ==
  /\ \A r \in evidence : r.created <= now
  /\ DOMAIN profiles = {r.i : r \in evidence}
  /\ \A i \in DOMAIN profiles : Shows(profiles[i], RowsOf(evidence, i))

PackOK(p) == p.created <= now /\ Fresh(p.observed) /\ Tells(p, SeenBy(p))

PacksInv ==
  /\ \A p \in packs : PackOK(p)
  /\ \A p, q \in packs : p.i = q.i /\ p.created <= q.created => p.observed <= q.observed
  /\ \A p, q \in packs : SamePack(p, q) => p = q
  /\ \A i \in DOMAIN profiles : \E p \in packs :
       p.i = i /\ Newest(p) /\ Tells(p, RowsOf(evidence, i))

-----------------------------------------------------------------------------
(* A running upsert *)

Mapping == {"read", "write", "commit"}

StartOK(w) ==
  /\ w.start # 0 /\ w.start <= now
  /\ \A r \in evidence : r.created < w.start
  /\ \A p \in packs : p.created < w.start

ChosenOK(w) ==
  /\ w.answer.ok /\ w.time # 0 /\ Fresh(w.time)
  /\ \A p \in packs : p.observed <= w.time
  /\ w.todo \subseteq DOMAIN w.answer.listing
  /\ w.todo \intersect DOMAIN w.shown = {}

(* What the evidence will be when the upsert commits. *)
Stored(w) == evidence \union w.rows

RowsOK(w) ==
  /\ \A r \in w.rows : r.i \in w.todo \union DOMAIN w.shown /\ r.created = w.start
  /\ \A i \in w.todo \union DOMAIN w.shown : \E r \in Stored(w) : r.i = i

OwnPackOK(w, p) ==
  /\ p.i \in DOMAIN w.shown /\ p.created = w.start /\ p.observed = w.time
  /\ Tells(p, RowsOf(Stored(w), p.i))
  /\ \A q \in packs : ~SamePack(p, q)

ServedOK(w, i) ==
  \/ \E p \in w.packs : p.i = i
  \/ \E p \in packs : p.i = i /\ Newest(p) /\ Tells(p, RowsOf(Stored(w), i))

ShownOK(w) ==
  /\ \A i \in DOMAIN w.shown : Shows(w.shown[i], RowsOf(Stored(w), i)) /\ ServedOK(w, i)
  /\ \A p \in w.packs : OwnPackOK(w, p)
  /\ \A p, q \in w.packs : p.i = q.i => p = q

SeenOK(w) ==
  \E i \in w.todo : (\A j \in w.todo : i <= j) /\ w.seen = RowsOf(Stored(w), i)

UpsertOK(w) ==
  /\ w.phase \in Mapping \union {"choose", "add"} => StartOK(w)
  /\ w.phase \in Mapping \union {"add"} => ChosenOK(w)
  /\ w.phase \in {"choose", "add"} => w.shown = Nothing /\ w.packs = {} /\ w.rows = {}
  /\ w.phase \in {"add", "read", "write"} => w.todo # {}
  /\ w.phase = "commit" => w.todo = {}
  /\ w.phase \in Mapping => RowsOK(w) /\ ShownOK(w)
  /\ w.phase = "write" => SeenOK(w)

WorkersOK == \A w \in Workers : NumberOK(worker[w]) /\ UpsertOK(worker[w])

ProfileInv ==
  TypeOK /\ NumbersDense /\ ProfilesInv /\ PacksInv /\ Alone /\ WorkersOK

-----------------------------------------------------------------------------
(* Least and greatest numbers *)

LEMMA SmallestNumber ==
  ASSUME NEW T, T \subseteq Nat, T # {}
  PROVE  \E x \in T : \A y \in T : x <= y
<1> DEFINE R == {p \in Nat \X Nat : p[1] < p[2]}
<1>1. R = OpToRel(<, Nat)
  BY Zenon DEF OpToRel
<1>2. IsWellFoundedOn(R, Nat)
  BY <1>1, NatLessThanWellFounded, Zenon
<1>3. \E x \in T : \A y \in T : ~(<<y, x>> \in R)
  <2> HIDE DEF R
  <2> QED
    BY <1>2, WFMin, Zenon
<1>4. \A x, y \in T : x <= y \/ <<y, x>> \in R
  OBVIOUS
<1> QED
  BY <1>3, <1>4

LEMMA LargestNumber ==
  ASSUME NEW n \in Nat, NEW T, T \subseteq 0 .. n, T # {}
  PROVE  \E x \in T : \A y \in T : y <= x
<1>1. PICK U : U = {k \in 0 .. n : n - k \in T}
  OBVIOUS
<1>2. U \subseteq Nat /\ U # {}
  <2>1. PICK t : t \in T
    OBVIOUS
  <2>2. n - t \in 0 .. n /\ n - (n - t) = t
    BY <2>1
  <2> QED
    BY <1>1, <2>1, <2>2
<1>3. PICK k \in U : \A l \in U : k <= l
  BY <1>2, SmallestNumber
<1>4. n - k \in T
  BY <1>1, <1>3
<1>5. ASSUME NEW y \in T PROVE y <= n - k
  <2>1. n - y \in 0 .. n /\ n - (n - y) = y
    OBVIOUS
  <2>2. n - y \in U
    BY <1>1, <2>1
  <2> QED
    BY <1>1, <1>3, <2>2
<1> QED
  BY <1>4, <1>5

-----------------------------------------------------------------------------
(* Tables, rows and items *)

LEMMA TableShape ==
  ASSUME NEW t \in Tables
  PROVE  /\ DOMAIN t \subseteq Instruments
         /\ t \in [DOMAIN t -> [Fields -> Values \union {None}]]
<1>1. PICK S \in SUBSET Instruments : t \in [S -> [Fields -> Values \union {None}]]
  BY DEF Tables
<1> QED
  BY <1>1

LEMMA TableMade ==
  ASSUME NEW S \in SUBSET Instruments, NEW t \in [S -> [Fields -> Values \union {None}]]
  PROVE  t \in Tables
BY DEF Tables

LEMMA NothingIsTable == Nothing \in Tables /\ DOMAIN Nothing = {}
<1>1. Nothing \in [{} -> [Fields -> Values \union {None}]]
  BY DEF Nothing
<1> QED
  BY <1>1, TableMade DEF Nothing

(* The values of a field, and what the resolver makes of them. *)
LEMMA ResolverTypes ==
  ASSUME ProfilesOK, NEW R \in SUBSET Rows, NEW f \in Fields
  PROVE  /\ DistinctValues(R, f) \subseteq Values
         /\ Resolved(R, f) \in Values \union {None}
         /\ Item(R, f) \in Items
<1>1. NonNull(R, f) \subseteq R /\ DistinctValues(R, f) \subseteq Values
  BY DEF NonNull, DistinctValues, Rows
<1>2. Status(R, f) \in {"missing", "resolved", "conflict"}
  BY DEF Status
<1>3. Resolved(R, f) \in Values \union {None}
  <2>1. CASE Status(R, f) = "resolved"
    <3>1. DistinctValues(R, f) # {}
      BY <2>1 DEF Status
    <3>2. (CHOOSE v \in DistinctValues(R, f) : TRUE) \in DistinctValues(R, f)
      BY <3>1
    <3> QED
      BY <1>1, <2>1, <3>2 DEF Resolved
  <2>2. CASE Status(R, f) # "resolved"
    BY <2>2 DEF Resolved
  <2> QED
    BY <2>1, <2>2
<1>4. Cited(R, f) \in SUBSET Rows /\ Anchor(R, f) \in SUBSET Rows
  BY <1>1 DEF Cited, Anchor, Selected
<1> QED
  BY <1>1, <1>2, <1>3, <1>4 DEF Item, Items

(* A field is resolved to v when v is its only value, otherwise to none. *)
LEMMA ResolvedMeans ==
  ASSUME ProfilesOK, NEW R \in SUBSET Rows, NEW f \in Fields, NEW v \in Values
  PROVE  Resolved(R, f) = v <=> DistinctValues(R, f) = {v}
<1>1. v # None
  BY DEF ProfilesOK
<1>2. CASE Status(R, f) = "resolved"
  <2>1. PICK x \in DistinctValues(R, f) : DistinctValues(R, f) = {x}
    BY <1>2 DEF Status
  <2>2. (CHOOSE y \in DistinctValues(R, f) : TRUE) = x
    BY <2>1
  <2> QED
    BY <1>2, <2>1, <2>2 DEF Resolved
<1>3. CASE Status(R, f) # "resolved"
  <2>1. Resolved(R, f) = None
    BY <1>3 DEF Resolved
  <2>2. DistinctValues(R, f) # {v}
    BY <1>3 DEF Status
  <2> QED
    BY <1>1, <2>1, <2>2
<1> QED
  BY <1>2, <1>3

LEMMA SelectedExists ==
  ASSUME ProfilesOK, NEW R \in SUBSET Rows, NEW f \in Fields, NonNull(R, f) # {}
  PROVE  Selected(R, f) # {}
<1>1. PICK T : T = {r.observed : r \in NonNull(R, f)}
  OBVIOUS
<1>2. T \subseteq 0 .. MaxTime /\ T # {} /\ MaxTime \in Nat
  BY <1>1 DEF NonNull, Rows, ProfilesOK
<1>3. PICK x \in T : \A y \in T : y <= x
  BY <1>2, LargestNumber
<1>4. PICK r \in NonNull(R, f) : r.observed = x
  BY <1>1, <1>3
<1>5. r \in Selected(R, f)
  BY <1>1, <1>3, <1>4 DEF Selected
<1> QED
  BY <1>5

(* Of three growing sets of rows the middle one makes the item that both   *)
(* others make: an item only ever changes to one it never was.             *)
LEMMA ItemBetween ==
  ASSUME ProfilesOK, NEW Q \in SUBSET Rows, NEW R \in SUBSET Rows, NEW T \in SUBSET Rows,
         Q \subseteq R, R \subseteq T, NEW f \in Fields, Item(Q, f) = Item(T, f)
  PROVE  Item(R, f) = Item(Q, f)
<1>1. NonNull(Q, f) \subseteq NonNull(R, f) /\ NonNull(R, f) \subseteq NonNull(T, f)
  BY DEF NonNull
<1>2. Status(Q, f) = Status(T, f) /\ Cited(Q, f) = Cited(T, f)
  BY DEF Item
<1>3. CASE NonNull(Q, f) = NonNull(T, f)
  <2>1. NonNull(R, f) = NonNull(Q, f)
    BY <1>1, <1>3
  <2>2. DistinctValues(R, f) = DistinctValues(Q, f) /\ Selected(R, f) = Selected(Q, f)
    BY <2>1 DEF DistinctValues, Selected
  <2>3. Status(R, f) = Status(Q, f)
    BY <2>2 DEF Status
  <2>4. Resolved(R, f) = Resolved(Q, f)
    <3>1. CASE Status(Q, f) = "resolved"
      <4>1. PICK v \in DistinctValues(Q, f) : DistinctValues(Q, f) = {v}
        BY <3>1 DEF Status
      <4>2. v \in Values
        BY ResolverTypes
      <4> QED
        BY <2>2, <4>1, <4>2, ResolvedMeans
    <3>2. CASE Status(Q, f) # "resolved"
      BY <2>3, <3>2 DEF Resolved
    <3> QED
      BY <3>1, <3>2
  <2>5. Cited(R, f) = Cited(Q, f)
    BY <2>1, <2>2, <2>3 DEF Cited
  <2>6. Anchor(R, f) = Anchor(Q, f)
    BY <2>1, <2>2, <2>3, Zenon DEF Anchor
  <2> QED
    BY <2>3, <2>4, <2>5, <2>6 DEF Item
<1>4. CASE NonNull(Q, f) # NonNull(T, f)
  <2>1. Status(Q, f) = "resolved" /\ Status(T, f) = "resolved"
    <3>1. Status(T, f) # "missing"
      BY <1>1, <1>4 DEF Status, DistinctValues
    <3>2. Status(T, f) # "conflict"
      BY <1>2, <1>4 DEF Cited
    <3> QED
      BY <1>2, <3>1, <3>2 DEF Status
  <2>2. PICK v : DistinctValues(T, f) = {v}
    BY <2>1 DEF Status
  <2>3. DistinctValues(Q, f) = {v} /\ DistinctValues(R, f) = {v} /\ NonNull(Q, f) # {}
    <3>1. DistinctValues(Q, f) # {}
      BY <2>1 DEF Status
    <3>2. DistinctValues(Q, f) \subseteq DistinctValues(R, f)
          /\ DistinctValues(R, f) \subseteq DistinctValues(T, f)
      BY <1>1 DEF DistinctValues
    <3>3. NonNull(Q, f) # {}
      BY <3>1 DEF DistinctValues
    <3> QED
      BY <2>2, <3>1, <3>2, <3>3
  <2>4. Status(R, f) = "resolved"
    BY <2>3 DEF Status
  <2>5. Selected(Q, f) = Selected(T, f)
    BY <1>2, <2>1 DEF Cited
  <2>6. Selected(R, f) = Selected(Q, f)
    <3>1. PICK s \in Selected(Q, f) : TRUE
      BY <2>3, SelectedExists
    <3>2. s \in NonNull(R, f) /\ \A q \in NonNull(T, f) : q.observed <= s.observed
      BY <1>1, <2>5, <3>1 DEF Selected
    <3>3. \A q \in NonNull(T, f) : q.observed \in Nat
      BY DEF NonNull, Rows
    <3> QED
      BY <1>1, <2>5, <3>2, <3>3 DEF Selected
  <2>7. Resolved(R, f) = Resolved(Q, f)
    BY <2>1, <2>2, <2>3, <2>4, Zenon DEF Resolved
  <2>8. Cited(R, f) = Cited(Q, f) /\ Anchor(R, f) = Anchor(Q, f)
    BY <2>1, <2>4, <2>6 DEF Cited, Anchor
  <2> QED
    BY <2>1, <2>4, <2>7, <2>8 DEF Item
<1> QED
  BY <1>3, <1>4

-----------------------------------------------------------------------------
(* Steps of one worker *)

(* What a step of worker w must leave to the others, and to w itself.      *)
LEMMA WorkersStep ==
  ASSUME TypeOK, WorkersOK, Alone, NEW w \in Workers, NEW u \in Jobs, Become(w, u),
         NumberOK(u)', UpsertOK(u)',
         u.phase \in Running =>
           worker[w].phase \in Running \/ \A v \in Workers : worker[v].phase \notin Running,
         \A x \in Jobs : /\ NumberOK(x) => NumberOK(x)'
                         /\ UpsertOK(x) /\ (worker[w].phase \in Running => x.phase \notin Running)
                              => UpsertOK(x)'
  PROVE  WorkersOK' /\ Alone' /\ worker' \in [Workers -> Jobs]
<1>1. worker \in [Workers -> Jobs] /\ worker' = [worker EXCEPT ![w] = u]
  BY DEF TypeOK, Jobs, Become
<1>2. ASSUME NEW v \in Workers PROVE NumberOK(worker[v])' /\ UpsertOK(worker[v])'
  <2>1. CASE v = w
    <3>1. worker'[v] = u
      BY <1>1, <2>1
    <3>2. NumberOK(worker[v])' <=> NumberOK(u)'
      BY <3>1 DEF NumberOK
    <3> QED
      BY <3>1, <3>2 DEF UpsertOK
  <2>2. CASE v # w
    <3>1. PICK x \in Jobs : x = worker[v]
      BY <1>1
    <3>2. worker'[v] = x
      BY <1>1, <2>2, <3>1
    <3>3. NumberOK(x) /\ UpsertOK(x)
      BY <3>1 DEF WorkersOK
    <3>4. worker[w].phase \in Running => x.phase \notin Running
      BY <2>2, <3>1 DEF Alone
    <3>5. NumberOK(x)' /\ UpsertOK(x)'
      BY <3>3, <3>4
    <3> QED
      BY <3>2, <3>5
  <2> QED
    BY <2>1, <2>2
<1>3. Alone'
  BY <1>1 DEF Alone
<1> QED
  BY <1>1, <1>2, <1>3 DEF WorkersOK

(* What collecting leaves to a worker: numbers and attempts only grow. *)
Collected ==
  /\ UNCHANGED <<evidence, packs>>
  /\ Numbers \subseteq Numbers'
  /\ \A t : Fresh(t) => Fresh(t)'
  /\ now' \in Nat /\ now <= now'

LEMMA NothingCollected ==
  ASSUME UNCHANGED <<attempts, evidence, packs>>, now' \in Nat, now <= now'
  PROVE  Collected
<1>1. Numbers' = Numbers /\ Listed' = Listed
  BY DEF Numbers, Listed
<1>2. \A t : Fresh(t) => Fresh(t)'
  BY <1>1 DEF Fresh
<1> QED
  BY <1>1, <1>2 DEF Collected

LEMMA WorkerKept ==
  ASSUME TypeOK, Collected, NEW x \in Jobs
  PROVE  /\ NumberOK(x) => NumberOK(x)'
         /\ UpsertOK(x) => UpsertOK(x)'
<1> USE DEF Collected
<1>1. NumberOK(x) => NumberOK(x)'
  BY DEF NumberOK
<1>2. StartOK(x) => StartOK(x)'
  <2>1. x.start \in Nat /\ now \in Nat
    BY DEF Jobs, TypeOK
  <2> QED
    BY <2>1 DEF StartOK
<1>3. ChosenOK(x) => ChosenOK(x)'
  BY DEF ChosenOK
<1>4. Stored(x)' = Stored(x)
  BY DEF Stored
<1>5. RowsOK(x) => RowsOK(x)'
  BY <1>4 DEF RowsOK
<1>6. SeenOK(x) => SeenOK(x)'
  BY <1>4 DEF SeenOK
<1>7. ShownOK(x) => ShownOK(x)'
  <2>1. \A p : Newest(p) <=> Newest(p)'
    BY DEF Newest
  <2>2. \A i : ServedOK(x, i) <=> ServedOK(x, i)'
    BY <1>4, <2>1 DEF ServedOK, Tells
  <2>3. \A p : OwnPackOK(x, p) <=> OwnPackOK(x, p)'
    BY <1>4 DEF OwnPackOK, Tells
  <2> QED
    BY <1>4, <2>2, <2>3 DEF ShownOK, Shows
<1> QED
  BY <1>1, <1>2, <1>3, <1>5, <1>6, <1>7 DEF UpsertOK

LEMMA TablesKept ==
  ASSUME TypeOK, ProfilesInv, PacksInv, Collected, profiles' = profiles
  PROVE  ProfilesInv' /\ PacksInv'
<1> USE DEF Collected
<1>1. ProfilesInv'
  <2>1. now \in Nat /\ \A r \in evidence : r.created \in Nat
    BY DEF TypeOK, Rows
  <2>2. \A r \in evidence : r.created <= now'
    BY <2>1 DEF ProfilesInv
  <2>3. \A i \in DOMAIN profiles : Shows(profiles[i], RowsOf(evidence, i))'
    BY DEF ProfilesInv, Shows, RowsOf
  <2> QED
    BY <2>2, <2>3 DEF ProfilesInv
<1>2. PacksInv'
  <2>1. now \in Nat /\ \A p \in packs : p.created \in Nat
    BY DEF TypeOK, Packs
  <2>2. \A p \in packs : PackOK(p)'
    BY <2>1 DEF PacksInv, PackOK, SeenBy, Tells
  <2> QED
    BY <2>2 DEF PacksInv, Newest, Tells
<1> QED
  BY <1>1, <1>2

(* A step that moves its worker, and perhaps the clock. *)
LEMMA WorkerStep ==
  ASSUME ProfilesOK, ProfileInv, NEW w \in Workers, NEW u \in Jobs, Become(w, u),
         NumberOK(u)', UpsertOK(u)',
         u.phase \in Running =>
           worker[w].phase \in Running \/ \A v \in Workers : worker[v].phase \notin Running,
         UNCHANGED <<known, attempts, evidence, profiles, packs>>,
         now' \in 0 .. MaxTime, now <= now'
  PROVE  ProfileInv'
<1>1. Collected
  BY NothingCollected, ProfilesOK DEF ProfilesOK
<1>2. WorkersOK' /\ Alone' /\ worker' \in [Workers -> Jobs]
  BY <1>1, WorkerKept, WorkersStep DEF ProfileInv
<1>3. TypeOK' /\ NumbersDense'
  BY <1>2 DEF ProfileInv, TypeOK, Jobs, NumbersDense, Numbers
<1> QED
  BY <1>1, <1>2, <1>3, TablesKept DEF ProfileInv

LEMMA QuietStep ==
  ASSUME ProfilesOK, ProfileInv, NEW w \in Workers, NEW u \in Jobs, Become(w, u),
         NumberOK(u), UpsertOK(u),
         u.phase \in Running =>
           worker[w].phase \in Running \/ \A v \in Workers : worker[v].phase \notin Running,
         UNCHANGED <<known, attempts, evidence, profiles, packs, now>>
  PROVE  ProfileInv'
<1>1. now' \in 0 .. MaxTime /\ now' \in Nat /\ now <= now' /\ TypeOK
  BY DEF ProfileInv, TypeOK
<1>2. NumberOK(u)' /\ UpsertOK(u)'
  BY <1>1, NothingCollected, WorkerKept
<1> QED
  BY <1>1, <1>2, WorkerStep

LEMMA IdleJob ==
  ASSUME ProfilesOK
  PROVE  Idle \in Jobs /\ Idle.phase = "idle" /\ NumberOK(Idle) /\ UpsertOK(Idle)
         /\ Idle.start = 0 /\ Idle.todo = {} /\ Idle.rows = {} /\ Idle.packs = {}
         /\ Idle.shown = Nothing
<1>1. Idle \in Jobs
  <2>1. Failed \in Answers /\ 0 \in 0 .. (MaxTime + 1) /\ 0 \in 0 .. MaxTime
    BY DEF Answers, ProfilesOK
  <2>2. "idle" \in Phases
    BY DEF Phases
  <2> QED
    BY <2>1, <2>2, NothingIsTable DEF Idle, Jobs
<1>2. Idle.phase = "idle"
  BY DEF Idle
<1> QED
  BY <1>1, <1>2 DEF Idle, NumberOK, UpsertOK, Mapping

(* A rollback. *)
LEMMA AbortStep ==
  ASSUME ProfilesOK, ProfileInv, NEW w \in Workers, Abort(w), UNCHANGED <<known, now>>
  PROVE  ProfileInv'
<1>1. PICK u : u = Idle
  OBVIOUS
<1>2. u \in Jobs /\ u.phase = "idle" /\ NumberOK(u) /\ UpsertOK(u)
  BY <1>1, IdleJob
<1>3. Become(w, u) /\ UNCHANGED <<known, attempts, evidence, profiles, packs, now>>
  BY <1>1 DEF Abort, Ended
<1> QED
  BY <1>2, <1>3, QuietStep DEF Running

-----------------------------------------------------------------------------
(* Collecting *)

LEMMA RegisterStep ==
  ASSUME ProfilesOK, ProfileInv, NEW i \in Instruments, Register(i)
  PROVE  ProfileInv'
<1>1. UNCHANGED <<attempts, evidence, profiles, packs, now, worker>>
      /\ known' \subseteq Instruments
  BY DEF Register, ProfileInv, TypeOK
<1>2. now \in Nat /\ now <= now'
  BY <1>1 DEF ProfileInv, TypeOK
<1>3. TypeOK' /\ Alone'
  BY <1>1 DEF ProfileInv, TypeOK, Alone
<1>4. Collected
  BY <1>1, <1>2, NothingCollected DEF ProfileInv, TypeOK
<1>5. NumbersDense' /\ ProfilesInv' /\ PacksInv'
  BY <1>1, <1>4, TablesKept DEF ProfileInv, NumbersDense, Numbers
<1>6. WorkersOK'
  <2>1. TypeOK /\ WorkersOK /\ worker \in [Workers -> Jobs]
    BY DEF ProfileInv, TypeOK, Jobs
  <2> SUFFICES ASSUME NEW v \in Workers PROVE NumberOK(worker[v])' /\ UpsertOK(worker[v])'
    BY DEF WorkersOK
  <2>2. PICK x \in Jobs : x = worker[v]
    BY <2>1
  <2>3. NumberOK(x)' /\ UpsertOK(x)'
    BY <1>4, <2>1, <2>2, WorkerKept DEF WorkersOK
  <2>4. worker'[v] = x
    BY <1>1, <2>2
  <2> QED
    BY <2>3, <2>4
<1> QED
  BY <1>3, <1>5, <1>6 DEF ProfileInv

LEMMA FetchStep ==
  ASSUME ProfilesOK, ProfileInv, NEW w \in Workers, NEW answer \in Answers, Fetch(w, answer)
  PROVE  ProfileInv'
<1>1. now + 1 \in 1 .. MaxTime /\ now' = now + 1 /\ now' \in 0 .. MaxTime /\ now <= now'
  BY DEF Fetch, Tick, ProfileInv, TypeOK, ProfilesOK
<1>2. PICK u : u = [Idle EXCEPT !.phase = "number", !.answer = answer, !.time = now + 1]
  OBVIOUS
<1>3. u \in Jobs /\ u.phase = "number" /\ u.time = now + 1
  <2>1. Idle \in Jobs /\ "number" \in Phases
    BY IdleJob DEF Phases
  <2>2. now + 1 \in 0 .. MaxTime
    BY <1>1
  <2> QED
    BY <1>2, <2>1, <2>2 DEF Jobs
<1>4. Become(w, u) /\ UNCHANGED <<known, attempts, evidence, profiles, packs>>
  BY <1>2 DEF Fetch
<1>5. NumberOK(u)' /\ UpsertOK(u)' /\ u.phase \notin Running
  BY <1>1, <1>3 DEF NumberOK, UpsertOK, Mapping, Running
<1> QED
  BY <1>1, <1>3, <1>4, <1>5, WorkerStep

LEMMA NumberStep ==
  ASSUME ProfilesOK, ProfileInv, NEW w \in Workers, NEW n \in 1 .. (MaxTime + 1), Number(w, n)
  PROVE  ProfileInv'
<1>1. PICK x \in Jobs : x = worker[w]
  BY DEF ProfileInv, TypeOK, Jobs
<1>2. PICK u : u = [x EXCEPT !.phase = "record", !.no = n]
  OBVIOUS
<1>3. u \in Jobs /\ u.phase = "record" /\ u.time = x.time /\ u.no = n
  <2>1. "record" \in Phases /\ n \in 0 .. (MaxTime + 1)
    BY DEF Phases, ProfilesOK
  <2> QED
    BY <1>1, <1>2, <2>1 DEF Jobs
<1>4. Become(w, u) /\ UNCHANGED <<known, attempts, evidence, profiles, packs, now>>
  BY <1>1, <1>2 DEF Number
<1>5. x.time \in 1 .. MaxTime
  BY <1>1 DEF Number, ProfileInv, WorkersOK, NumberOK
<1>6. \A k \in 1 .. n - 1 : k \in Numbers
  <2>1. CASE Listed = {}
    <3>1. n = 1
      BY <2>1 DEF Number, IsNextNumber
    <3> QED
      BY <3>1
  <2>2. CASE Listed # {}
    <3>1. PICK a \in Listed : n = a.no + 1
      BY <2>2 DEF Number, IsNextNumber
    <3>2. a \in attempts /\ a.no \in Nat
      BY DEF Listed, ProfileInv, TypeOK, Attempts
    <3>3. n - 1 = a.no
      BY <3>1, <3>2
    <3> QED
      BY <3>2, <3>3 DEF ProfileInv, NumbersDense
  <2> QED
    BY <2>1, <2>2
<1>7. NumberOK(u) /\ UpsertOK(u) /\ u.phase \notin Running
  <2>1. u.no # 0
    BY <1>3
  <2> QED
    BY <1>3, <1>5, <1>6, <2>1 DEF NumberOK, UpsertOK, Mapping, Running
<1> QED
  BY <1>3, <1>4, <1>7, QuietStep

(* A new attempt has the highest number of all. *)
LEMMA RecordStep ==
  ASSUME ProfilesOK, ProfileInv, NEW w \in Workers, Record(w)
  PROVE  ProfileInv'
<1>1. PICK x \in Jobs : x = worker[w]
  BY DEF ProfileInv, TypeOK, Jobs
<1>2. CASE \E a \in attempts : a.no = x.no
  BY <1>1, <1>2, AbortStep DEF Record
<1>3. CASE ~ \E a \in attempts : a.no = x.no
  <2>1. PICK n : n = [no |-> x.no, finished |-> x.time, answer |-> x.answer]
    OBVIOUS
  <2>2. attempts' = attempts \union {n} /\ Become(w, Idle)
        /\ UNCHANGED <<known, evidence, profiles, packs, now>>
    BY <1>1, <1>3, <2>1 DEF Record, Ended
  <2>3. x.phase = "record" /\ NumberOK(x)
    BY <1>1 DEF Record, ProfileInv, WorkersOK
  <2>4. x.time \in 1 .. MaxTime /\ x.no \in 1 .. (MaxTime + 1)
        /\ \A k \in 1 .. x.no - 1 : k \in Numbers
    BY <2>3 DEF NumberOK, Jobs, ProfilesOK
  <2>5. n \in Attempts /\ n.no = x.no
    BY <2>1, <2>4 DEF Attempts, Jobs
  <2>6. \A a \in attempts : a.no \in Nat /\ a.no < n.no
    <3> TAKE a \in attempts
    <3>1. a.no \in 1 .. (MaxTime + 1)
      BY DEF ProfileInv, TypeOK, Attempts
    <3>2. n.no \notin Numbers
      BY <1>3, <2>5 DEF Numbers
    <3>3. n.no \notin 1 .. a.no
      BY <3>2 DEF ProfileInv, NumbersDense
    <3> QED
      BY <2>4, <2>5, <3>1, <3>3
  <2>7. Numbers \subseteq Numbers' /\ n.no \in Numbers'
    BY <2>2 DEF Numbers
  <2>8. NumbersDense'
    <3> SUFFICES ASSUME NEW a \in attempts', NEW k \in 1 .. a.no PROVE k \in Numbers'
      BY DEF NumbersDense
    <3>1. CASE a \in attempts
      BY <2>7, <3>1 DEF ProfileInv, NumbersDense
    <3>2. CASE a = n
      BY <2>4, <2>5, <2>7, <3>2
    <3> QED
      BY <2>2, <3>1, <3>2
  <2>9. Listed \subseteq Listed'
    <3> SUFFICES ASSUME NEW a \in Listed PROVE a \in Listed'
      OBVIOUS
    <3>1. a \in attempts /\ Cardinality({b \in attempts : b.no < a.no}) < Page
      BY DEF Listed
    <3>2. ~(n.no < a.no)
      BY <2>4, <2>5, <2>6, <3>1
    <3>3. {b \in attempts' : b.no < a.no} = {b \in attempts : b.no < a.no}
      BY <2>2, <3>2
    <3> QED
      BY <2>2, <3>1, <3>3 DEF Listed
  <2>10. Collected
    <3>1. \A t : Fresh(t) => Fresh(t)'
      BY <2>9 DEF Fresh
    <3> QED
      BY <2>2, <2>7, <3>1 DEF Collected, ProfileInv, TypeOK
  <2>11. PICK u : u = Idle
    OBVIOUS
  <2>12. u \in Jobs /\ u.phase = "idle" /\ Become(w, u)
    BY <2>2, <2>11, IdleJob
  <2>13. NumberOK(u)' /\ UpsertOK(u)' /\ u.phase \notin Running
    BY <2>12 DEF NumberOK, UpsertOK, Mapping, Running
  <2>14. WorkersOK' /\ Alone' /\ worker' \in [Workers -> Jobs]
    BY <2>10, <2>12, <2>13, WorkerKept, WorkersStep DEF ProfileInv
  <2>15. TypeOK'
    BY <2>2, <2>5, <2>14 DEF ProfileInv, TypeOK, Jobs
  <2> QED
    BY <2>2, <2>8, <2>10, <2>14, <2>15, TablesKept DEF ProfileInv
<1> QED
  BY <1>2, <1>3

-----------------------------------------------------------------------------
(* Upserting *)

LEMMA NobodyRuns ==
  ASSUME Alone, MaxUpserts = 1, Cardinality(Upserting) < MaxUpserts
  PROVE  \A v \in Workers : worker[v].phase \notin Running
<1> SUFFICES ASSUME NEW v \in Workers, worker[v].phase \in Running PROVE FALSE
  OBVIOUS
<1>1. Upserting = {v}
  BY DEF Upserting, Alone, Running
<1>2. Cardinality({v}) = 1
  BY FS_Singleton
<1> QED
  BY <1>1, <1>2

LEMMA BeginStep ==
  ASSUME ProfilesOK, ProfileInv, MaxUpserts = 1, NEW w \in Workers, Begin(w)
  PROVE  ProfileInv'
<1>1. now \in Nat /\ now + 1 \in 1 .. MaxTime /\ now' = now + 1 /\ now' \in 0 .. MaxTime
      /\ now <= now'
  BY DEF Begin, Tick, ProfileInv, TypeOK, ProfilesOK
<1>2. PICK u : u = [Idle EXCEPT !.phase = "choose", !.start = now + 1]
  OBVIOUS
<1>3. u \in Jobs /\ u.phase = "choose" /\ u.start = now + 1
      /\ u.shown = Nothing /\ u.packs = {} /\ u.rows = {}
  <2>1. Idle \in Jobs /\ "choose" \in Phases /\ now + 1 \in 0 .. MaxTime
    BY <1>1, IdleJob DEF Phases
  <2>2. u \in Jobs /\ u.phase = "choose" /\ u.start = now + 1
    BY <1>2, <2>1 DEF Jobs
  <2> QED
    BY <1>2, <2>2, IdleJob DEF Idle
<1>4. Become(w, u) /\ UNCHANGED <<known, attempts, evidence, profiles, packs>>
  BY <1>2 DEF Begin
<1>5. \A v \in Workers : worker[v].phase \notin Running
  BY NobodyRuns DEF Begin, ProfileInv
<1>6. StartOK(u)'
  <2>1. \A r \in evidence : r.created \in Nat /\ r.created <= now
    BY DEF ProfileInv, ProfilesInv, TypeOK, Rows
  <2>2. \A p \in packs : p.created \in Nat /\ p.created <= now
    BY DEF ProfileInv, PacksInv, PackOK, TypeOK, Packs
  <2> QED
    BY <1>1, <1>3, <1>4, <2>1, <2>2 DEF StartOK
<1>7. NumberOK(u)' /\ UpsertOK(u)'
  BY <1>3, <1>6 DEF NumberOK, UpsertOK, Mapping
<1> QED
  BY <1>1, <1>3, <1>4, <1>5, <1>7, WorkerStep

(* The chosen attempt is as fresh as that of any pack: what was listed     *)
(* then is listed now.                                                     *)
LEMMA ChooseStep ==
  ASSUME ProfilesOK, ProfileInv, NEW w \in Workers, Choose(w)
  PROVE  ProfileInv'
<1>1. PICK x \in Jobs : x = worker[w]
  BY DEF ProfileInv, TypeOK, Jobs
<1>2. UNCHANGED <<known, now>> /\ x.phase = "choose" /\ NumberOK(x) /\ UpsertOK(x)
  BY <1>1 DEF Choose, ProfileInv, WorkersOK
<1>3. CASE Abort(w)
  BY <1>2, <1>3, AbortStep
<1>4. CASE ~Abort(w)
  <2>1. PICK a \in Freshest :
          LET found == known \intersect DOMAIN a.answer.listing IN
          /\ found # {}
          /\ Become(w, [x EXCEPT !.phase = "add", !.todo = found,
                          !.time = a.finished, !.answer = a.answer])
          /\ UNCHANGED <<attempts, evidence, profiles, packs>>
    BY <1>1, <1>4 DEF Choose
  <2>2. PICK found : found = known \intersect DOMAIN a.answer.listing
    OBVIOUS
  <2>3. PICK u : u = [x EXCEPT !.phase = "add", !.todo = found,
                        !.time = a.finished, !.answer = a.answer]
    OBVIOUS
  <2>4. a \in Listed /\ a \in attempts /\ a.answer.ok /\ a.answer \in Answers
        /\ a.finished \in 1 .. MaxTime /\ a.finished \in 0 .. MaxTime
    BY DEF Freshest, Listed, ProfileInv, TypeOK, Attempts
  <2>5. found \in SUBSET Instruments /\ found # {} /\ found \subseteq DOMAIN a.answer.listing
    BY <2>1, <2>2 DEF ProfileInv, TypeOK
  <2>6. /\ u \in Jobs /\ u.phase = "add" /\ u.todo = found /\ u.time = a.finished
        /\ u.answer = a.answer /\ u.start = x.start /\ u.rows = x.rows
        /\ u.shown = x.shown /\ u.packs = x.packs
    <3>1. "add" \in Phases
      BY DEF Phases
    <3> QED
      BY <2>3, <2>4, <2>5, <3>1 DEF Jobs
  <2>7. Become(w, u) /\ UNCHANGED <<known, attempts, evidence, profiles, packs, now>>
    BY <1>2, <2>1, <2>2, <2>3
  <2>8. StartOK(x) /\ x.shown = Nothing /\ x.packs = {} /\ x.rows = {}
    BY <1>2 DEF UpsertOK
  <2>9. \A t \in 0 .. MaxTime : Fresh(t) => t <= a.finished
    <3>1. \A b \in Listed : b.answer.ok => b.finished <= a.finished
      <4>1. \A b \in Listed : b.finished \in Nat
        BY DEF Listed, ProfileInv, TypeOK, Attempts
      <4> QED
        BY <2>4, <4>1 DEF Freshest
    <3>2. \A b \in Listed : b.finished \in 0 .. MaxTime
      BY DEF Listed, ProfileInv, TypeOK, Attempts
    <3> QED
      BY <2>4, <3>1, <3>2 DEF Fresh
  <2>10. \A p \in packs : p.observed <= a.finished
    <3>1. \A p \in packs : p.observed \in 0 .. MaxTime /\ Fresh(p.observed)
      BY DEF ProfileInv, PacksInv, PackOK, TypeOK, Packs
    <3> QED
      BY <2>9, <3>1
  <2>11. Fresh(a.finished)
    BY <2>4 DEF Fresh
  <2>12. StartOK(u)
    BY <2>6, <2>8 DEF StartOK
  <2>13. ChosenOK(u)
    <3>1. u.todo \intersect DOMAIN u.shown = {}
      BY <2>6, <2>8, NothingIsTable
    <3> QED
      BY <2>4, <2>5, <2>6, <2>10, <2>11, <3>1 DEF ChosenOK
  <2>14. NumberOK(u) /\ UpsertOK(u)
    BY <2>5, <2>6, <2>8, <2>12, <2>13 DEF NumberOK, UpsertOK, Mapping
  <2> QED
    BY <1>1, <1>2, <2>6, <2>7, <2>14, QuietStep DEF Running
<1> QED
  BY <1>3, <1>4

LEMMA MappedType ==
  ASSUME ProfilesOK, ProfileInv, NEW w \in Workers, worker[w].phase = "add"
  PROVE  Mapped(w) \subseteq Rows
<1>1. PICK x \in Jobs : x = worker[w]
  BY DEF ProfileInv, TypeOK, Jobs
<1>2. StartOK(x) /\ ChosenOK(x)
  BY <1>1 DEF ProfileInv, WorkersOK, UpsertOK
<1>3. PICK t \in Tables : t = x.answer.listing
  <2>1. PICK a \in Answers : a = x.answer
    BY DEF Jobs
  <2>2. CASE a = Failed
    BY <2>1, <2>2, NothingIsTable DEF Failed
  <2>3. CASE a # Failed
    BY <2>1, <2>3 DEF Answers, ProfilesOK
  <2> QED
    BY <2>2, <2>3
<1>4. x.time \in 1 .. MaxTime /\ x.start \in 1 .. MaxTime
  BY <1>2 DEF StartOK, ChosenOK, Jobs, ProfilesOK
<1>5. x.todo \subseteq Instruments /\ x.todo \subseteq DOMAIN t
  BY <1>2, <1>3 DEF ChosenOK, Jobs
<1>6. \A i \in x.todo, f \in Fields : t[i][f] \in Values \union {None}
  BY <1>5, TableShape
<1> QED
  BY <1>1, <1>3, <1>4, <1>5, <1>6 DEF Mapped, Rows

LEMMA AddStep ==
  ASSUME ProfilesOK, ProfileInv, NEW w \in Workers, Add(w)
  PROVE  ProfileInv'
<1>1. PICK x \in Jobs : x = worker[w]
  BY DEF ProfileInv, TypeOK, Jobs
<1>2. x.phase = "add" /\ NumberOK(x) /\ UpsertOK(x)
  BY <1>1 DEF Add, ProfileInv, WorkersOK
<1>3. PICK new : new = {r \in Mapped(w) : \A q \in evidence : ~SameRow(r, q)}
  OBVIOUS
<1>4. PICK u : u = [x EXCEPT !.phase = "read", !.rows = new]
  OBVIOUS
<1>5. Become(w, u) /\ UNCHANGED <<known, attempts, evidence, profiles, packs, now>>
  BY <1>1, <1>3, <1>4 DEF Add
<1>6. new \in SUBSET Rows
  BY <1>1, <1>2, <1>3, MappedType
<1>7. /\ u \in Jobs /\ u.phase = "read" /\ u.rows = new /\ u.todo = x.todo /\ u.start = x.start
      /\ u.time = x.time /\ u.answer = x.answer /\ u.shown = x.shown /\ u.packs = x.packs
  <2>1. "read" \in Phases
    BY DEF Phases
  <2> QED
    BY <1>4, <1>6, <2>1 DEF Jobs
<1>8. StartOK(x) /\ ChosenOK(x) /\ x.shown = Nothing /\ x.packs = {} /\ x.todo # {}
  BY <1>2 DEF UpsertOK
<1>9. StartOK(u) /\ ChosenOK(u)
  BY <1>7, <1>8 DEF StartOK, ChosenOK
<1>10. RowsOK(u)
  <2>1. \A r \in new : r.i \in x.todo /\ r.created = x.start
    BY <1>1, <1>3 DEF Mapped
  <2>2. ASSUME NEW i \in x.todo PROVE \E r \in Stored(u) : r.i = i
    <3>1. PICK f \in Fields : TRUE
      BY DEF ProfilesOK
    <3>2. PICK r \in Mapped(w) : r.i = i
      <4>1. PICK r : r = [i |-> i, field |-> f, value |-> x.answer.listing[i][f],
                          observed |-> x.time, created |-> x.start]
        OBVIOUS
      <4>2. r \in Mapped(w)
        BY <1>1, <4>1 DEF Mapped
      <4>3. r.i = i
        BY <4>1
      <4> QED
        BY <4>2, <4>3
    <3>3. CASE r \in new
      BY <1>7, <3>2, <3>3 DEF Stored
    <3>4. CASE r \notin new
      BY <1>3, <3>2, <3>4 DEF SameRow, Stored
    <3> QED
      BY <3>3, <3>4
  <2>3. DOMAIN u.shown = {}
    BY <1>7, <1>8, NothingIsTable
  <2> QED
    BY <1>7, <2>1, <2>2, <2>3 DEF RowsOK
<1>11. ShownOK(u)
  <2>1. DOMAIN u.shown = {} /\ u.packs = {}
    BY <1>7, <1>8, NothingIsTable
  <2> QED
    BY <2>1 DEF ShownOK
<1>12. NumberOK(u) /\ UpsertOK(u)
  BY <1>7, <1>8, <1>9, <1>10, <1>11 DEF NumberOK, UpsertOK, Mapping
<1> QED
  BY <1>1, <1>2, <1>5, <1>7, <1>12, QuietStep DEF Running

LEMMA TurnIsLeast ==
  ASSUME ProfilesOK, NEW w, NEW T, T = worker[w].todo, T \subseteq Instruments, T # {}
  PROVE  /\ Turn(w) \in T /\ \A j \in T : Turn(w) <= j
         /\ \A i \in T : (\A j \in T : i <= j) => i = Turn(w)
<1>1. T \subseteq Nat
  BY DEF ProfilesOK
<1>2. \E i \in T : \A j \in T : i <= j
  BY <1>1, SmallestNumber
<1>3. Turn(w) \in T /\ \A j \in T : Turn(w) <= j
  BY <1>2 DEF Turn
<1> QED
  BY <1>1, <1>3

LEMMA ReadStep ==
  ASSUME ProfilesOK, ProfileInv, NEW w \in Workers, Read(w)
  PROVE  ProfileInv'
<1>1. PICK x \in Jobs : x = worker[w]
  BY DEF ProfileInv, TypeOK, Jobs
<1>2. x.phase = "read" /\ NumberOK(x) /\ UpsertOK(x)
  BY <1>1 DEF Read, ProfileInv, WorkersOK
<1>3. PICK i : i = Turn(w)
  OBVIOUS
<1>4. PICK seen : seen = RowsOf(Stored(x), i)
  OBVIOUS
<1>5. PICK u : u = [x EXCEPT !.phase = "write", !.seen = seen]
  OBVIOUS
<1>6. Become(w, u) /\ UNCHANGED <<known, attempts, evidence, profiles, packs, now>>
  BY <1>1, <1>3, <1>4, <1>5 DEF Read, RowsOf, Stored
<1>7. seen \in SUBSET Rows
  BY <1>4 DEF RowsOf, Stored, Jobs, ProfileInv, TypeOK
<1>8. /\ u \in Jobs /\ u.phase = "write" /\ u.seen = seen /\ u.rows = x.rows /\ u.todo = x.todo
      /\ u.start = x.start /\ u.time = x.time /\ u.answer = x.answer /\ u.shown = x.shown
      /\ u.packs = x.packs
  <2>1. "write" \in Phases
    BY DEF Phases
  <2> QED
    BY <1>5, <1>7, <2>1 DEF Jobs
<1>9. StartOK(x) /\ ChosenOK(x) /\ x.todo # {} /\ RowsOK(x) /\ ShownOK(x)
  BY <1>2 DEF UpsertOK, Mapping
<1>10. Stored(u) = Stored(x)
  BY <1>8 DEF Stored
<1>11. StartOK(u) /\ ChosenOK(u) /\ RowsOK(u)
  BY <1>8, <1>9, <1>10 DEF StartOK, ChosenOK, RowsOK
<1>12. ShownOK(u)
  BY <1>8, <1>9, <1>10 DEF ShownOK, ServedOK, OwnPackOK
<1>13. SeenOK(u)
  <2>1. i \in x.todo /\ \A j \in x.todo : i <= j
    BY <1>1, <1>3, <1>9, TurnIsLeast DEF Jobs
  <2> QED
    BY <1>4, <1>8, <1>10, <2>1 DEF SeenOK
<1>14. NumberOK(u) /\ UpsertOK(u)
  BY <1>8, <1>9, <1>11, <1>12, <1>13 DEF NumberOK, UpsertOK, Mapping
<1> QED
  BY <1>1, <1>2, <1>6, <1>8, <1>14, QuietStep DEF Running

(* A pack that is found again is the newest of its instrument: a newer one *)
(* would be of the same attempt, and so rest on rows between those of the  *)
(* pack and those of this upsert, which make the same items.               *)
LEMMA FoundIsNewest ==
  ASSUME ProfilesOK, ProfileInv, NEW x \in Jobs, StartOK(x), ChosenOK(x),
         NEW q \in packs, q.observed = x.time, Tells(q, RowsOf(Stored(x), q.i))
  PROVE  Newest(q)
<1> SUFFICES ASSUME NEW p \in packs, p.i = q.i, ~(p.created <= q.created) PROVE FALSE
  BY DEF Newest
<1>1. p \in Packs /\ q \in Packs /\ evidence \subseteq Rows /\ x.rows \subseteq Rows
  BY DEF ProfileInv, TypeOK, Jobs
<1>2. q.created \in Nat /\ p.created \in Nat /\ p.observed \in Nat /\ q.observed \in Nat
      /\ x.time \in Nat
  BY <1>1 DEF Packs, Jobs
<1>3. q.created <= p.created
  BY <1>2
<1>4. q.observed <= p.observed /\ p.observed <= x.time
  BY <1>3 DEF ProfileInv, PacksInv, ChosenOK
<1>5. p.observed = q.observed
  BY <1>2, <1>4
<1>6. PICK Q \in SUBSET Rows, R \in SUBSET Rows, T \in SUBSET Rows :
        Q = SeenBy(q) /\ R = SeenBy(p) /\ T = RowsOf(Stored(x), q.i)
  BY <1>1 DEF SeenBy, RowsOf, Stored
<1>7. Q \subseteq R /\ R \subseteq T
  <2>1. \A r \in evidence : r.created \in Nat
    BY <1>1 DEF Rows
  <2> QED
    BY <1>2, <1>3, <1>6, <2>1 DEF SeenBy, RowsOf, Stored
<1>8. Tells(q, Q) /\ Tells(p, R) /\ Tells(q, T)
  BY <1>6 DEF ProfileInv, PacksInv, PackOK
<1>9. \A f \in Fields : Item(Q, f) = Item(T, f)
  <2> TAKE f \in Fields
  <2>1. q.items[f] = Item(Q, f) /\ q.items[f] = Item(T, f)
    BY <1>8 DEF Tells
  <2> QED
    BY <2>1
<1>10. \A f \in Fields : Item(R, f) = Item(Q, f)
  BY <1>7, <1>9, ItemBetween
<1>11. p.items = q.items
  <2>1. p.items = [f \in Fields |-> Item(R, f)] /\ q.items = [f \in Fields |-> Item(Q, f)]
    BY <1>8 DEF Tells
  <2> QED
    BY <1>10, <2>1
<1>12. p = q
  BY <1>5, <1>11 DEF ProfileInv, PacksInv, SamePack
<1> QED
  BY <1>2, <1>12

LEMMA WriteStep ==
  ASSUME ProfilesOK, ProfileInv, NEW w \in Workers, Write(w)
  PROVE  ProfileInv'
<1>1. PICK x \in Jobs : x = worker[w]
  BY DEF ProfileInv, TypeOK, Jobs
<1>2. x.phase = "write" /\ NumberOK(x) /\ UpsertOK(x)
  BY <1>1 DEF Write, ProfileInv, WorkersOK
<1>3. PICK i : i = Turn(w)
  OBVIOUS
<1>4. StartOK(x) /\ ChosenOK(x) /\ x.todo # {} /\ RowsOK(x) /\ ShownOK(x) /\ SeenOK(x)
  BY <1>2 DEF UpsertOK, Mapping
<1>5. PICK R \in SUBSET Rows : R = RowsOf(Stored(x), i)
  BY DEF RowsOf, Stored, Jobs, ProfileInv, TypeOK
<1>6. i \in x.todo /\ i \in Instruments /\ x.seen = R
  BY <1>1, <1>3, <1>4, <1>5, TurnIsLeast DEF Jobs, SeenOK
<1>7. PICK pack : pack = [i |-> i, observed |-> x.time,
                          items |-> [f \in Fields |-> Item(R, f)], created |-> x.start]
  OBVIOUS
<1>8. pack = Pack(w)
  BY <1>1, <1>3, <1>6, <1>7 DEF Pack
<1>9. PICK values : values = [f \in Fields |-> Resolved(R, f)]
  OBVIOUS
<1>10. PICK shown : shown = [j \in DOMAIN x.shown \union {i} |->
                               IF j = i THEN values ELSE x.shown[j]]
  OBVIOUS
<1>11. PICK new : new = {p \in {pack} : \A q \in packs : ~SamePack(p, q)}
  OBVIOUS
<1>12. PICK u : u = [x EXCEPT !.phase = IF x.todo = {i} THEN "commit" ELSE "read",
                       !.todo = x.todo \ {i}, !.seen = {}, !.shown = shown,
                       !.packs = x.packs \union new]
  OBVIOUS
<1>13. Become(w, u) /\ UNCHANGED <<known, attempts, evidence, profiles, packs, now>>
  BY <1>1, <1>3, <1>6, <1>8, <1>9, <1>10, <1>11, <1>12, Zenon DEF Write
<1>14. shown \in Tables /\ DOMAIN shown = DOMAIN x.shown \union {i}
       /\ shown[i] = values /\ \A j \in DOMAIN x.shown \ {i} : shown[j] = x.shown[j]
  <2>1. x.shown \in Tables /\ x.shown \in [DOMAIN x.shown -> [Fields -> Values \union {None}]]
        /\ DOMAIN x.shown \subseteq Instruments
    BY TableShape DEF Jobs
  <2>2. values \in [Fields -> Values \union {None}]
    BY <1>9, ResolverTypes
  <2>3. shown \in [DOMAIN x.shown \union {i} -> [Fields -> Values \union {None}]]
    BY <1>10, <2>1, <2>2
  <2>4. DOMAIN x.shown \union {i} \in SUBSET Instruments
    BY <1>6, <2>1
  <2> QED
    BY <1>10, <2>3, <2>4, TableMade
<1>15. pack \in Packs
  <2>1. x.time \in 1 .. MaxTime /\ x.start \in 1 .. MaxTime
    BY <1>4 DEF StartOK, ChosenOK, Jobs, ProfilesOK
  <2>2. [f \in Fields |-> Item(R, f)] \in [Fields -> Items]
    BY ResolverTypes
  <2> QED
    BY <1>6, <1>7, <2>1, <2>2 DEF Packs
<1>16. /\ u \in Jobs /\ u.todo = x.todo \ {i} /\ u.shown = shown /\ u.packs = x.packs \union new
       /\ u.rows = x.rows /\ u.start = x.start /\ u.time = x.time /\ u.answer = x.answer
       /\ u.phase = IF x.todo = {i} THEN "commit" ELSE "read"
  <2>1. (IF x.todo = {i} THEN "commit" ELSE "read") \in Phases
    BY DEF Phases
  <2>2. new \subseteq Packs /\ x.todo \ {i} \in SUBSET Instruments /\ {} \in SUBSET Rows
    BY <1>11, <1>15 DEF Jobs
  <2>3. x.packs \union new \in SUBSET Packs
    BY <2>2 DEF Jobs
  <2> QED
    BY <1>12, <1>14, <2>1, <2>2, <2>3 DEF Jobs
<1>17. Stored(u) = Stored(x)
  BY <1>16 DEF Stored
<1>18. u.todo \union DOMAIN u.shown = x.todo \union DOMAIN x.shown
  BY <1>6, <1>14, <1>16
<1>19. StartOK(u) /\ ChosenOK(u) /\ RowsOK(u)
  <2>1. u.todo \intersect DOMAIN u.shown = {} /\ u.todo \subseteq x.todo
    BY <1>4, <1>14, <1>16 DEF ChosenOK
  <2>2. StartOK(u)
    BY <1>4, <1>16 DEF StartOK
  <2>3. ChosenOK(u)
    BY <1>4, <1>16, <2>1 DEF ChosenOK
  <2>4. RowsOK(u)
    BY <1>4, <1>16, <1>17, <1>18 DEF RowsOK
  <2> QED
    BY <2>2, <2>3, <2>4
<1>20. pack.i = i /\ pack.observed = x.time /\ pack.created = x.start /\ Tells(pack, R)
  BY <1>7 DEF Tells
<1>21. ShownOK(u)
  <2>1. ASSUME NEW j \in DOMAIN u.shown
        PROVE  Shows(u.shown[j], RowsOf(Stored(u), j)) /\ ServedOK(u, j)
    <3>1. CASE j = i
      <4>1. Shows(u.shown[j], RowsOf(Stored(u), j))
        BY <1>5, <1>9, <1>14, <1>16, <1>17, <3>1 DEF Shows
      <4>2. CASE pack \in new
        BY <1>16, <1>20, <3>1, <4>1, <4>2 DEF ServedOK
      <4>3. CASE pack \notin new
        <5>1. PICK q \in packs : SamePack(pack, q)
          BY <1>11, <4>3
        <5>2. q.i = i /\ q.observed = x.time /\ Tells(q, R)
          BY <1>20, <5>1 DEF SamePack, Tells
        <5>3. Newest(q)
          BY <1>4, <1>5, <5>2, FoundIsNewest
        <5> QED
          BY <1>5, <1>17, <3>1, <4>1, <5>2, <5>3 DEF ServedOK
      <4> QED
        BY <4>1, <4>2, <4>3
    <3>2. CASE j # i
      <4>1. j \in DOMAIN x.shown /\ u.shown[j] = x.shown[j]
        BY <1>14, <1>16, <3>2
      <4>2. Shows(x.shown[j], RowsOf(Stored(x), j)) /\ ServedOK(x, j)
        BY <1>4, <4>1 DEF ShownOK
      <4> QED
        BY <1>16, <1>17, <4>1, <4>2 DEF ServedOK
    <3> QED
      BY <3>1, <3>2
  <2>2. i \notin DOMAIN x.shown
    BY <1>4, <1>6 DEF ChosenOK
  <2>3. \A p \in x.packs : OwnPackOK(x, p) /\ p.i # i
    BY <1>4, <2>2 DEF ShownOK, OwnPackOK
  <2>4. \A p \in x.packs : OwnPackOK(u, p)
    BY <1>14, <1>16, <1>17, <2>3 DEF OwnPackOK
  <2>5. \A p \in new : p = pack /\ OwnPackOK(u, p)
    BY <1>5, <1>11, <1>14, <1>16, <1>17, <1>20 DEF OwnPackOK
  <2>6. \A p, q \in x.packs : p.i = q.i => p = q
    BY <1>4 DEF ShownOK
  <2>7. \A p, q \in u.packs : p.i = q.i => p = q
    BY <1>16, <1>20, <2>3, <2>5, <2>6
  <2> QED
    BY <1>16, <2>1, <2>4, <2>5, <2>7 DEF ShownOK
<1>22. NumberOK(u) /\ UpsertOK(u)
  <2>1. u.phase = "read" => u.todo # {}
    BY <1>6, <1>16
  <2>2. u.phase = "commit" => u.todo = {}
    BY <1>16
  <2> QED
    BY <1>16, <1>19, <1>21, <2>1, <2>2 DEF NumberOK, UpsertOK, Mapping
<1> QED
  BY <1>1, <1>2, <1>13, <1>16, <1>22, QuietStep DEF Running

-----------------------------------------------------------------------------
(* Committing *)

LEMMA CommitStep ==
  ASSUME ProfilesOK, ProfileInv, NEW w \in Workers, Commit(w)
  PROVE  ProfileInv'
<1>1. PICK x \in Jobs : x = worker[w]
  BY DEF ProfileInv, TypeOK, Jobs
<1>2. x.phase = "commit" /\ NumberOK(x) /\ UpsertOK(x)
  BY <1>1 DEF Commit, ProfileInv, WorkersOK
<1>3. StartOK(x) /\ ChosenOK(x) /\ x.todo = {} /\ RowsOK(x) /\ ShownOK(x)
  BY <1>2 DEF UpsertOK, Mapping
<1>4. /\ evidence' = Stored(x) /\ packs' = packs \union x.packs
      /\ profiles' = [i \in DOMAIN profiles \union DOMAIN x.shown |->
                        IF i \in DOMAIN x.shown THEN x.shown[i] ELSE profiles[i]]
      /\ Become(w, Idle) /\ UNCHANGED <<known, attempts, now>>
  BY <1>1 DEF Commit, Stored, Ended
<1>5. /\ evidence \subseteq Rows /\ x.rows \subseteq Rows /\ evidence' \subseteq Rows
      /\ packs \subseteq Packs /\ x.packs \subseteq Packs
      /\ now \in Nat /\ x.start \in Nat /\ x.time \in Nat
  BY <1>4 DEF ProfileInv, TypeOK, Jobs, Stored
<1>6. /\ \A r \in evidence \union x.rows : r.created \in Nat
      /\ \A p \in packs \union x.packs : p.created \in Nat /\ p.observed \in Nat
  BY <1>5 DEF Rows, Packs
<1>7. /\ \A r \in evidence : r.created < x.start
      /\ \A p \in packs : p.created < x.start /\ p.observed <= x.time
      /\ \A r \in x.rows : r.created = x.start /\ r.i \in DOMAIN x.shown
      /\ x.start <= now
  BY <1>3 DEF StartOK, ChosenOK, RowsOK
<1>8. \A p \in x.packs : OwnPackOK(x, p)
  BY <1>3 DEF ShownOK
<1>9. \A t : Fresh(t) <=> Fresh(t)'
  <2>1. Listed' = Listed
    BY <1>4 DEF Listed
  <2> QED
    BY <2>1 DEF Fresh
<1>10. NumbersDense'
  BY <1>4 DEF ProfileInv, NumbersDense, Numbers
<1>11. profiles' \in Tables
  <2>1. profiles \in [DOMAIN profiles -> [Fields -> Values \union {None}]]
        /\ x.shown \in [DOMAIN x.shown -> [Fields -> Values \union {None}]]
        /\ DOMAIN profiles \union DOMAIN x.shown \in SUBSET Instruments
    BY TableShape DEF ProfileInv, TypeOK, Jobs
  <2>2. profiles' \in [DOMAIN profiles \union DOMAIN x.shown -> [Fields -> Values \union {None}]]
    BY <1>4, <2>1
  <2> QED
    BY <2>1, <2>2, TableMade
<1>12. ProfilesInv'
  <2>1. DOMAIN profiles' = DOMAIN profiles \union DOMAIN x.shown
    BY <1>4
  <2>2. DOMAIN profiles' = {r.i : r \in evidence'}
    <3>1. DOMAIN profiles = {r.i : r \in evidence}
      BY DEF ProfileInv, ProfilesInv
    <3>2. \A i \in DOMAIN x.shown : \E r \in Stored(x) : r.i = i
      BY <1>3 DEF RowsOK
    <3> QED
      BY <1>4, <1>7, <2>1, <3>1, <3>2 DEF Stored
  <2>3. \A r \in evidence' : r.created <= now'
    BY <1>4, <1>5, <1>6, <1>7 DEF Stored
  <2>4. ASSUME NEW i \in DOMAIN profiles' PROVE Shows(profiles'[i], RowsOf(evidence', i))
    <3>1. CASE i \in DOMAIN x.shown
      BY <1>3, <1>4, <2>1, <3>1 DEF ShownOK
    <3>2. CASE i \notin DOMAIN x.shown
      <4>1. RowsOf(evidence', i) = RowsOf(evidence, i)
        BY <1>4, <1>7, <3>2 DEF RowsOf, Stored
      <4>2. profiles'[i] = profiles[i] /\ i \in DOMAIN profiles
        BY <1>4, <2>1, <3>2
      <4> QED
        BY <4>1, <4>2 DEF ProfileInv, ProfilesInv
    <3> QED
      BY <3>1, <3>2
  <2> QED
    BY <2>2, <2>3, <2>4 DEF ProfilesInv, Shows, RowsOf
<1>13. PacksInv'
  <2>1. ASSUME NEW p \in packs PROVE PackOK(p)'
    <3>1. PackOK(p)
      BY DEF ProfileInv, PacksInv
    <3>2. SeenBy(p)' = SeenBy(p)
      BY <1>4, <1>5, <1>6, <1>7 DEF SeenBy, Stored
    <3> QED
      BY <1>4, <1>9, <3>1, <3>2 DEF PackOK, Tells
  <2>2. ASSUME NEW p \in x.packs PROVE PackOK(p)'
    <3>1. p.created = x.start /\ p.observed = x.time /\ Tells(p, RowsOf(Stored(x), p.i))
      BY <1>8 DEF OwnPackOK
    <3>2. SeenBy(p)' = RowsOf(Stored(x), p.i)
      BY <1>4, <1>5, <1>6, <1>7, <3>1 DEF SeenBy, RowsOf, Stored
    <3>3. Fresh(x.time) /\ p.created <= now'
      BY <1>3, <1>4, <1>7, <3>1 DEF ChosenOK
    <3> QED
      BY <1>9, <3>1, <3>2, <3>3 DEF PackOK, Tells
  <2>3. \A p, q \in packs' : p.i = q.i /\ p.created <= q.created => p.observed <= q.observed
    <3>1. \A p, q \in packs : p.i = q.i /\ p.created <= q.created => p.observed <= q.observed
      BY DEF ProfileInv, PacksInv
    <3>2. \A p \in x.packs : p.created = x.start /\ p.observed = x.time
      BY <1>8 DEF OwnPackOK
    <3> QED
      BY <1>4, <1>5, <1>6, <1>7, <3>1, <3>2
  <2>4. \A p, q \in packs' : SamePack(p, q) => p = q
    <3>1. \A p, q \in packs : SamePack(p, q) => p = q
      BY DEF ProfileInv, PacksInv
    <3>2. \A p, q \in x.packs : SamePack(p, q) => p = q
      BY <1>3 DEF ShownOK, SamePack
    <3>3. \A p \in x.packs, q \in packs : ~SamePack(p, q) /\ ~SamePack(q, p)
      BY <1>8 DEF OwnPackOK, SamePack
    <3> QED
      BY <1>4, <3>1, <3>2, <3>3
  <2>5. ASSUME NEW i \in DOMAIN profiles'
        PROVE  \E p \in packs' : p.i = i /\ Newest(p)' /\ Tells(p, RowsOf(evidence', i))
    <3>1. \A p \in x.packs : p.created = x.start /\ p.i \in DOMAIN x.shown
      BY <1>8 DEF OwnPackOK
    <3>2. ASSUME NEW p \in packs, Newest(p), \A q \in x.packs : q.i # p.i PROVE Newest(p)'
      BY <1>4, <3>2 DEF Newest
    <3>3. CASE \E p \in x.packs : p.i = i
      <4>1. PICK p \in x.packs : p.i = i
        BY <3>3
      <4>2. Newest(p)'
        BY <1>4, <1>5, <1>6, <1>7, <3>1, <4>1 DEF Newest
      <4>3. Tells(p, RowsOf(evidence', i))
        BY <1>4, <1>8, <4>1 DEF OwnPackOK
      <4> QED
        BY <1>4, <4>1, <4>2, <4>3
    <3>4. CASE i \in DOMAIN x.shown /\ ~ \E p \in x.packs : p.i = i
      <4>1. ServedOK(x, i)
        BY <1>3, <3>4 DEF ShownOK
      <4>2. PICK p \in packs : p.i = i /\ Newest(p) /\ Tells(p, RowsOf(Stored(x), i))
        BY <3>4, <4>1 DEF ServedOK
      <4> QED
        BY <1>4, <3>2, <3>4, <4>2
    <3>5. CASE i \notin DOMAIN x.shown
      <4>1. i \in DOMAIN profiles
        BY <1>4, <3>5
      <4>2. PICK p \in packs : p.i = i /\ Newest(p) /\ Tells(p, RowsOf(evidence, i))
        BY <4>1 DEF ProfileInv, PacksInv
      <4>3. RowsOf(evidence', i) = RowsOf(evidence, i)
        BY <1>4, <1>7, <3>5 DEF RowsOf, Stored
      <4>4. Newest(p)'
        BY <3>1, <3>2, <3>5, <4>2
      <4> QED
        BY <1>4, <4>2, <4>3, <4>4
    <3> QED
      BY <3>3, <3>4, <3>5
  <2>6. \A p \in packs' : PackOK(p)'
    BY <1>4, <2>1, <2>2
  <2> QED
    BY <2>3, <2>4, <2>5, <2>6 DEF PacksInv, Tells, RowsOf, SamePack
<1>14. PICK u : u = Idle
  OBVIOUS
<1>15. u \in Jobs /\ u.phase = "idle" /\ Become(w, u)
  BY <1>4, <1>14, IdleJob
<1>16. NumberOK(u)' /\ UpsertOK(u)' /\ u.phase \notin Running
  BY <1>15 DEF NumberOK, UpsertOK, Mapping, Running
<1>17. ASSUME NEW y \in Jobs
       PROVE  /\ NumberOK(y) => NumberOK(y)'
              /\ y.phase \notin Running => UpsertOK(y)'
  BY <1>4 DEF NumberOK, Numbers, UpsertOK, Mapping, Running
<1>18. WorkersOK' /\ Alone' /\ worker' \in [Workers -> Jobs]
  <2>1. worker[w].phase \in Running
    BY <1>1, <1>2 DEF Running
  <2> QED
    BY <1>15, <1>16, <1>17, <2>1, WorkersStep DEF ProfileInv
<1>19. TypeOK'
  BY <1>4, <1>5, <1>11, <1>18 DEF ProfileInv, TypeOK, Jobs
<1> QED
  BY <1>10, <1>12, <1>13, <1>18, <1>19 DEF ProfileInv

-----------------------------------------------------------------------------
(* The invariant *)

LEMMA ProfilesStart == ASSUME ProfilesOK, Init PROVE ProfileInv
<1>1. \A w \in Workers : worker[w] = Idle
  BY DEF Init
<1>2. TypeOK
  BY IdleJob, NothingIsTable DEF Init, TypeOK, Jobs, ProfilesOK
<1>3. WorkersOK
  BY <1>1, IdleJob DEF WorkersOK
<1>4. Alone
  BY <1>1, IdleJob DEF Alone, Running
<1>5. ProfilesInv /\ PacksInv /\ NumbersDense
  BY NothingIsTable DEF Init, ProfilesInv, PacksInv, NumbersDense
<1> QED
  BY <1>2, <1>3, <1>4, <1>5 DEF ProfileInv

LEMMA ProfilesNext ==
  ASSUME ProfilesOK, ProfileInv, MaxUpserts = 1, Next
  PROVE  ProfileInv'
<1>1. ASSUME NEW i \in Instruments, Register(i) PROVE ProfileInv'
  BY <1>1, RegisterStep
<1>2. ASSUME NEW w \in Workers, NEW answer \in Answers, Fetch(w, answer) PROVE ProfileInv'
  BY <1>2, FetchStep
<1>3. ASSUME NEW w \in Workers, NEW n \in 1 .. (MaxTime + 1), Number(w, n) PROVE ProfileInv'
  BY <1>3, NumberStep
<1>4. ASSUME NEW w \in Workers, Record(w) PROVE ProfileInv'
  BY <1>4, RecordStep
<1>5. ASSUME NEW w \in Workers, Begin(w) PROVE ProfileInv'
  BY <1>5, BeginStep
<1>6. ASSUME NEW w \in Workers, Choose(w) PROVE ProfileInv'
  BY <1>6, ChooseStep
<1>7. ASSUME NEW w \in Workers, Add(w) PROVE ProfileInv'
  BY <1>7, AddStep
<1>8. ASSUME NEW w \in Workers, Read(w) PROVE ProfileInv'
  BY <1>8, ReadStep
<1>9. ASSUME NEW w \in Workers, Write(w) PROVE ProfileInv'
  BY <1>9, WriteStep
<1>10. ASSUME NEW w \in Workers, Commit(w) PROVE ProfileInv'
  BY <1>10, CommitStep
<1>11. ASSUME NEW w \in Workers, Die(w) PROVE ProfileInv'
  BY <1>11, AbortStep DEF Die
<1> HIDE DEF Register, Fetch, Number, Record, Begin, Choose, Add, Read, Write, Commit, Die
<1> QED
  BY <1>1, <1>2, <1>3, <1>4, <1>5, <1>6, <1>7, <1>8, <1>9, <1>10, <1>11, Zenon DEF Next

LEMMA ProfilesStutter ==
  ASSUME ProfilesOK, ProfileInv, UNCHANGED vars
  PROVE  ProfileInv'
<1>1. UNCHANGED <<known, attempts, evidence, profiles, packs, now, worker>>
  BY DEF vars
<1>2. Collected /\ NumbersDense'
  <2>1. now \in Nat /\ now <= now'
    BY <1>1 DEF ProfileInv, TypeOK
  <2> QED
    BY <1>1, <2>1, NothingCollected DEF ProfileInv, NumbersDense, Numbers
<1>3. ProfilesInv' /\ PacksInv'
  BY <1>1, <1>2, TablesKept DEF ProfileInv
<1>4. TypeOK' /\ Alone'
  BY <1>1 DEF ProfileInv, TypeOK, Alone
<1>5. WorkersOK'
  <2>1. worker \in [Workers -> Jobs]
    BY DEF ProfileInv, TypeOK, Jobs
  <2> SUFFICES ASSUME NEW v \in Workers PROVE NumberOK(worker[v])' /\ UpsertOK(worker[v])'
    BY DEF WorkersOK
  <2>2. PICK x \in Jobs : x = worker[v]
    BY <2>1
  <2>3. NumberOK(x)' /\ UpsertOK(x)'
    BY <1>2, <2>2, WorkerKept DEF ProfileInv, WorkersOK
  <2>4. worker'[v] = x
    BY <1>1, <2>2
  <2> QED
    BY <2>3, <2>4
<1> QED
  BY <1>2, <1>3, <1>4, <1>5 DEF ProfileInv

(* The invariant holds as long as upserts follow each other.               *)
THEOREM ProfilesAlways ==
  ASSUME MaxUpserts = 1
  PROVE  Spec => []ProfileInv
<1>1. Init => ProfileInv
  BY ProfilesOK, ProfilesStart
<1>2. ProfileInv /\ [Next]_vars => ProfileInv'
  BY ProfilesOK, ProfilesNext, ProfilesStutter
<1> QED
  BY <1>1, <1>2, PTL DEF Spec

(* Every variable has its type. *)
THEOREM ProfilesTypeCorrect ==
  ASSUME MaxUpserts = 1
  PROVE  Spec => []TypeOK
<1>1. ProfileInv => TypeOK
  BY DEF ProfileInv
<1> QED
  BY <1>1, ProfilesAlways, PTL

LEMMA RowsOfStored ==
  ASSUME ProfileInv, NEW i
  PROVE  RowsOf(evidence, i) \in SUBSET Rows
BY DEF RowsOf, ProfileInv, TypeOK

(* A profile shows a value exactly when it is the only one the stored      *)
(* evidence has for the field.                                             *)
THEOREM ProfilesAreResolutions ==
  ASSUME MaxUpserts = 1
  PROVE  Spec => []ProfileIsResolution
<1>1. ASSUME ProfileInv PROVE ProfileIsResolution
  <2> SUFFICES ASSUME NEW i \in DOMAIN profiles, NEW f \in Fields, NEW v \in Values
               PROVE  profiles[i][f] = v <=>
                        /\ \E r \in evidence : r.i = i /\ r.field = f /\ r.value = v
                        /\ \A r \in evidence : r.i = i /\ r.field = f => r.value \in {v, None}
    BY <1>1 DEF ProfileInv, ProfilesInv, ProfileIsResolution
  <2>1. PICK R \in SUBSET Rows : R = RowsOf(evidence, i)
    BY <1>1, RowsOfStored
  <2>2. profiles[i][f] = Resolved(R, f)
    BY <1>1, <2>1 DEF ProfileInv, ProfilesInv, Shows
  <2>3. profiles[i][f] = v <=> DistinctValues(R, f) = {v}
    BY ProfilesOK, <2>2, ResolvedMeans
  <2>4. v # None
    BY ProfilesOK DEF ProfilesOK
  <2>5. DistinctValues(R, f) = {r.value : r \in {q \in evidence : q.i = i /\ q.field = f
                                                                 /\ q.value # None}}
    BY <2>1 DEF DistinctValues, NonNull, RowsOf
  <2> QED
    BY <2>3, <2>4, <2>5
<1> QED
  BY <1>1, ProfilesAlways, PTL

(* The pack an API client is served agrees with the profile and cites      *)
(* stored evidence only.                                                   *)
THEOREM ProfilesNewestPackAgrees ==
  ASSUME MaxUpserts = 1
  PROVE  Spec => []NewestPackAgrees
<1>1. ASSUME ProfileInv PROVE NewestPackAgrees
  <2> SUFFICES ASSUME NEW i \in DOMAIN profiles
               PROVE  \E p \in packs :
                        /\ p.i = i
                        /\ \A q \in packs : q.i = i => q.created <= p.created
                        /\ \A f \in Fields :
                             /\ p.items[f].value = profiles[i][f]
                             /\ p.items[f].refs \union p.items[f].anchor \subseteq evidence
    BY DEF NewestPackAgrees
  <2>1. PICK R : R = RowsOf(evidence, i)
    OBVIOUS
  <2>2. PICK p \in packs : p.i = i /\ Newest(p) /\ Tells(p, R)
    BY <1>1, <2>1 DEF ProfileInv, PacksInv
  <2>3. ASSUME NEW f \in Fields
        PROVE  /\ p.items[f].value = profiles[i][f]
               /\ p.items[f].refs \union p.items[f].anchor \subseteq evidence
    <3>1. p.items[f] = Item(R, f)
      BY <2>2 DEF Tells
    <3>2. profiles[i][f] = Resolved(R, f)
      BY <1>1, <2>1 DEF ProfileInv, ProfilesInv, Shows
    <3>3. NonNull(R, f) \subseteq evidence
      BY <2>1 DEF NonNull, RowsOf
    <3>4. Cited(R, f) \subseteq evidence /\ Anchor(R, f) \subseteq evidence
      BY <3>3 DEF Cited, Anchor, Selected
    <3> QED
      BY <3>1, <3>2, <3>4 DEF Item
  <2> QED
    BY <2>2, <2>3 DEF Newest
<1> QED
  BY <1>1, ProfilesAlways, PTL
================================================================================
