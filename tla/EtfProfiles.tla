----------------------------- MODULE EtfProfiles ------------------------------
(***************************************************************************)
(* The descriptive profiles of the ETFs.  write_etf_profiles_raw asks the  *)
(* provider for its whole listing and keeps the answer as an attempt;      *)
(* upsert_etf_profiles takes the freshest succeeded attempt, adds one      *)
(* evidence row per field to analytics.etf_profile_fields, resolves all    *)
(* the rows an instrument ever got, overwrites its core.etf_profiles row   *)
(* with the resolved values, and adds a research context pack.             *)
(*                                                                         *)
(* Workers call the two functions in any order, and a collection may       *)
(* overlap anything.  Transactions are READ COMMITTED: a statement sees    *)
(* what is committed when it runs, and what its own transaction wrote.     *)
(* Only the mapper of one provider writes evidence, so the provider tiers  *)
(* of the resolver never decide; the six fields it has no column for are   *)
(* missing from every profile and add only observed_at to a pack.          *)
(***************************************************************************)
EXTENDS Integers, FiniteSets

CONSTANTS
  Workers,      \* callers of the two functions
  Instruments,  \* ETFs, numbered in the order of the provider's listing
  Fields,       \* fields the mapper writes evidence for
  Values,       \* values of a field
  None,         \* no value
  Listings,     \* what the provider may answer
  Page,         \* bound: how many attempts list_by_request returns (1000)
  MaxTime,      \* bound: answers and transactions together
  MaxUpserts,   \* bound: upserts that run at the same time
  CanDie        \* whether workers die

(* A value or None for every field of some instruments. *)
Tables == UNION {[S -> [Fields -> Values \union {None}]] : S \in SUBSET Instruments}

ASSUME ProfilesOK ==
  /\ Instruments \subseteq Nat
  /\ Fields # {}
  /\ None \notin Values
  /\ Listings \subseteq Tables
  /\ {MaxTime, MaxUpserts} \subseteq Nat
  /\ Page \in Nat \ {0}
  /\ CanDie \in BOOLEAN

VARIABLES
  known,     \* instruments in core.instruments
  attempts,  \* raw.provider_attempts of the one logical request
  evidence,  \* committed rows of analytics.etf_profile_fields
  profiles,  \* core.etf_profiles: a value or None per field
  packs,     \* analytics.research_context_packs of the profiles
  now,       \* the clock of finished_at and created_at
  worker     \* the state of each worker

vars == <<known, attempts, evidence, profiles, packs, now, worker>>

Nothing == [x \in {} |-> None]
Failed  == [ok |-> FALSE, listing |-> Nothing]
Answers == [ok : {TRUE}, listing : Listings] \union {Failed}

Attempts == [no : 1..(MaxTime + 1), finished : 1..MaxTime, answer : Answers]

(* A row is told by its field, its value and the attempt it was observed   *)
(* by: content_hash covers all of them.  created is the start of the       *)
(* transaction that added it.                                              *)
Rows == [i : Instruments, field : Fields, value : Values \union {None},
         observed : 1..MaxTime, created : 1..MaxTime]

(* What a worker holds between its steps. *)
Idle == [phase |-> "idle", answer |-> Failed, no |-> 0, time |-> 0, start |-> 0,
         todo |-> {}, rows |-> {}, seen |-> {}, shown |-> Nothing, packs |-> {}]

Init ==
  /\ known = {}
  /\ attempts = {}
  /\ evidence = {}
  /\ profiles = Nothing
  /\ packs = {}
  /\ now = 0
  /\ worker = [w \in Workers |-> Idle]

Tick        == now < MaxTime /\ now' = now + 1
Become(w, r) == worker' = [worker EXCEPT ![w] = r]

(* The session is closed with everything it holds. *)
Ended(w) == Idle

(* An exception rolls the transaction back. *)
Abort(w) == Become(w, Ended(w)) /\ UNCHANGED <<attempts, evidence, profiles, packs>>

(* Another service adds an instrument. *)
Register(i) ==
  /\ i \notin known
  /\ known' = known \union {i}
  /\ UNCHANGED <<attempts, evidence, profiles, packs, now, worker>>

-----------------------------------------------------------------------------
(* write_etf_profiles_raw *)

(* The provider is asked before the transaction begins. *)
Fetch(w, answer) ==
  /\ worker[w].phase = "idle"
  /\ Tick
  /\ Become(w, [Idle EXCEPT !.phase = "number", !.answer = answer, !.time = now + 1])
  /\ UNCHANGED <<known, attempts, evidence, profiles, packs>>

(* list_by_request returns the attempts with the lowest numbers. *)
Listed == {a \in attempts : Cardinality({b \in attempts : b.no < a.no}) < Page}

IsNextNumber(n) ==
  IF Listed = {} THEN n = 1
  ELSE \E a \in Listed : n = a.no + 1 /\ \A b \in Listed : b.no <= a.no

(* get_or_create of the first request waits for a worker that inserts it. *)
Number(w, n) ==
  /\ worker[w].phase = "number"
  /\ attempts = {} => \A v \in Workers : worker[v].phase # "record"
  /\ IsNextNumber(n)
  /\ Become(w, [worker[w] EXCEPT !.phase = "record", !.no = n])
  /\ UNCHANGED <<known, attempts, evidence, profiles, packs, now>>

(* The attempt and its batch are committed unless its number is taken. *)
Record(w) ==
  /\ worker[w].phase = "record"
  /\ IF \E a \in attempts : a.no = worker[w].no
     THEN Abort(w)
     ELSE /\ attempts' = attempts \union {[no |-> worker[w].no, finished |-> worker[w].time,
                                           answer |-> worker[w].answer]}
          /\ Become(w, Ended(w))
          /\ UNCHANGED <<evidence, profiles, packs>>
  /\ UNCHANGED <<known, now>>

-----------------------------------------------------------------------------
(* upsert_etf_profiles: one transaction from Begin to Commit *)

Upserting == {w \in Workers : worker[w].phase \in {"choose", "add", "read", "write", "commit"}}

Begin(w) ==
  /\ worker[w].phase = "idle"
  /\ Cardinality(Upserting) < MaxUpserts
  /\ Tick
  /\ Become(w, [Idle EXCEPT !.phase = "choose", !.start = now + 1])
  /\ UNCHANGED <<known, attempts, evidence, profiles, packs>>

(* max by (finished_at, attempt_no) *)
Freshest ==
  {a \in Listed : /\ a.answer.ok
                  /\ \A b \in Listed : b.answer.ok =>
                       \/ b.finished < a.finished
                       \/ b.finished = a.finished /\ b.no <= a.no}

(* Entries of unknown instruments are skipped.  Without a succeeded        *)
(* attempt the upsert raises, without an entry it has nothing to do.       *)
Choose(w) ==
  /\ worker[w].phase = "choose"
  /\ \/ \E a \in Freshest :
          LET found == known \intersect DOMAIN a.answer.listing IN
          IF found = {} THEN Abort(w)
          ELSE /\ Become(w, [worker[w] EXCEPT !.phase = "add", !.todo = found,
                               !.time = a.finished, !.answer = a.answer])
               /\ UNCHANGED <<attempts, evidence, profiles, packs>>
     \/ Freshest = {} /\ Abort(w)
  /\ UNCHANGED <<known, now>>

SameRow(r, q) == /\ r.i = q.i /\ r.field = q.field
                 /\ r.value = q.value /\ r.observed = q.observed

Mapped(w) ==
  {[i |-> i, field |-> f, value |-> worker[w].answer.listing[i][f],
    observed |-> worker[w].time, created |-> worker[w].start] :
      i \in worker[w].todo, f \in Fields}

(* ON CONFLICT (content_hash) DO NOTHING, after waiting for a transaction  *)
(* that has inserted the same row.                                         *)
Add(w) ==
  /\ worker[w].phase = "add"
  /\ \A v \in Workers \ {w} : \A r \in Mapped(w), q \in worker[v].rows : ~SameRow(r, q)
  /\ Become(w, [worker[w] EXCEPT !.phase = "read",
                  !.rows = {r \in Mapped(w) : \A q \in evidence : ~SameRow(r, q)}])
  /\ UNCHANGED <<known, attempts, evidence, profiles, packs, now>>

Turn(w) == CHOOSE i \in worker[w].todo : \A j \in worker[w].todo : i <= j

(* get_by_instrument *)
Read(w) ==
  /\ worker[w].phase = "read"
  /\ Become(w, [worker[w] EXCEPT !.phase = "write",
                  !.seen = {r \in evidence \union worker[w].rows : r.i = Turn(w)}])
  /\ UNCHANGED <<known, attempts, evidence, profiles, packs, now>>

-----------------------------------------------------------------------------
(* The resolver *)

NonNull(rows, f) == {r \in rows : r.field = f /\ r.value # None}

(* Mutant: the latest observation overrides the others. *)
LatestOnly(rows, f) ==
  {r.value : r \in {q \in NonNull(rows, f) : \A p \in NonNull(rows, f) : p.observed <= q.observed}}

(* _distinct_values of the rows that carry one *)
DistinctValues(rows, f) == {r.value : r \in NonNull(rows, f)}

Status(rows, f) ==
  LET values == DistinctValues(rows, f) IN
  IF values = {} THEN "missing"
  ELSE IF \E v \in values : values = {v} THEN "resolved" ELSE "conflict"

(* Two different values are a conflict: no row wins. *)
Resolved(rows, f) ==
  IF Status(rows, f) = "resolved" THEN CHOOSE v \in DistinctValues(rows, f) : TRUE ELSE None

(* _select_best: of the rows with the value, the latest observation *)
Selected(rows, f) ==
  {r \in NonNull(rows, f) : \A q \in NonNull(rows, f) : q.observed <= r.observed}

(* _build_item_for_field: the evidence a field's item refers to, and the   *)
(* row that its source and observed_at are copied from: of a conflict the  *)
(* first stored one, of a missing field none.                              *)
Cited(rows, f) ==
  IF Status(rows, f) = "resolved" THEN Selected(rows, f) ELSE NonNull(rows, f)

Anchor(rows, f) ==
  IF Status(rows, f) = "conflict"
  THEN {r \in NonNull(rows, f) : \A q \in NonNull(rows, f) : r.created <= q.created}
  ELSE Selected(rows, f)

Item(rows, f) == [status |-> Status(rows, f), value |-> Resolved(rows, f),
                  refs |-> Cited(rows, f), anchor |-> Anchor(rows, f)]

(* build_etf_profile_context_pack; a missing item is stamped with the      *)
(* observed_at of the attempt.                                             *)
Pack(w) == [i |-> Turn(w), observed |-> worker[w].time,
            items |-> [f \in Fields |-> Item(worker[w].seen, f)], created |-> worker[w].start]

(* Mutant: a pack is found by its instrument and context_version. *)
SameVersion(p, q) == p.i = q.i

(* The content_hash of a pack covers everything but created_at. *)
SamePack(p, q) == p.i = q.i /\ p.observed = q.observed /\ p.items = q.items

-----------------------------------------------------------------------------

(* The upsert of the profile waits for a transaction that has written the  *)
(* same row, overwrites every field, and the pack is added if it is new.   *)
Write(w) ==
  LET i == Turn(w)
      values == [f \in Fields |-> Resolved(worker[w].seen, f)]
      unseen == {p \in {Pack(w)} : \A q \in packs : ~SamePack(p, q)}
  IN
  /\ worker[w].phase = "write"
  /\ \A v \in Workers \ {w} : i \notin DOMAIN worker[v].shown
  /\ Become(w, [worker[w] EXCEPT
       !.phase = IF worker[w].todo = {i} THEN "commit" ELSE "read",
       !.todo  = @ \ {i},
       !.seen  = {},
       !.shown = [j \in DOMAIN @ \union {i} |-> IF j = i THEN values ELSE @[j]],
       !.packs = @ \union unseen])
  /\ UNCHANGED <<known, attempts, evidence, profiles, packs, now>>

Commit(w) ==
  LET shown == worker[w].shown IN
  /\ worker[w].phase = "commit"
  /\ evidence' = evidence \union worker[w].rows
  /\ profiles' = [i \in DOMAIN profiles \union DOMAIN shown |->
                    IF i \in DOMAIN shown THEN shown[i] ELSE profiles[i]]
  /\ packs' = packs \union worker[w].packs
  /\ Become(w, Ended(w))
  /\ UNCHANGED <<known, attempts, now>>

Die(w) ==
  /\ CanDie
  /\ worker[w].phase # "idle"
  /\ Abort(w)
  /\ UNCHANGED <<known, now>>

Next ==
  \/ \E i \in Instruments : Register(i)
  \/ \E w \in Workers :
       \/ \E answer \in Answers : Fetch(w, answer)
       \/ \E n \in 1..(MaxTime + 1) : Number(w, n)
       \/ Record(w)
       \/ Begin(w) \/ Choose(w) \/ Add(w) \/ Read(w) \/ Write(w) \/ Commit(w)
       \/ Die(w)

Spec == Init /\ [][Next]_vars

-----------------------------------------------------------------------------

Phases == {"idle", "number", "record", "choose", "add", "read", "write", "commit"}

Items == [status : {"missing", "resolved", "conflict"}, value : Values \union {None},
          refs : SUBSET Rows, anchor : SUBSET Rows]

Packs == [i : Instruments, observed : 1..MaxTime, items : [Fields -> Items],
          created : 1..MaxTime]

(* Every variable has its type. *)
TypeOK ==
  /\ known \subseteq Instruments
  /\ attempts \subseteq Attempts
  /\ evidence \subseteq Rows
  /\ profiles \in Tables
  /\ packs \subseteq Packs
  /\ now \in 0..MaxTime
  /\ worker \in [Workers ->
       [phase : Phases, answer : Answers, no : 0..(MaxTime + 1), time : 0..MaxTime,
        start : 0..MaxTime, todo : SUBSET Instruments, rows : SUBSET Rows,
        seen : SUBSET Rows, shown : Tables, packs : SUBSET Packs]]

(* A profile shows a value exactly when every row that was ever stored for *)
(* the field and carries a value carries that one, and an instrument with  *)
(* evidence has a profile, although upserts take whichever attempt is the  *)
(* freshest, repeat, skip instruments they do not know yet and die.        *)
ProfileIsResolution ==
  /\ DOMAIN profiles = {r.i : r \in evidence}
  /\ \A i \in DOMAIN profiles, f \in Fields, v \in Values :
       profiles[i][f] = v <=>
         /\ \E r \in evidence : r.i = i /\ r.field = f /\ r.value = v
         /\ \A r \in evidence : r.i = i /\ r.field = f => r.value \in {v, None}

(* get_by_instrument_and_version answers with the pack created last: it    *)
(* carries the values the profile shows and cites only stored evidence.    *)
NewestPackAgrees ==
  \A i \in DOMAIN profiles :
    \E p \in packs :
      /\ p.i = i
      /\ \A q \in packs : q.i = i => q.created <= p.created
      /\ \A f \in Fields : /\ p.items[f].value = profiles[i][f]
                           /\ p.items[f].refs \union p.items[f].anchor \subseteq evidence
=============================================================================
