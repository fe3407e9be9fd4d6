---------------------- MODULE ObservationAdmission_proofs ----------------------
(***************************************************************************)
(* Proofs about ObservationAdmission, for any number of observations,      *)
(* importers, requests and cases, and, in the second half, about the       *)
(* CandidateIntake of the packages the observations come in.               *)
(*                                                                         *)
(* An observation that has an instrument keeps it, and it must have one    *)
(* before it is loaded to be admitted.  What is on the page of list_recent *)
(* was on it since it was imported (RecentStays).  So of two observations  *)
(* on the page that contradict each other, the one decided later had the   *)
(* other among its peers, whatever has become of the other since           *)
(* (NoRivals).                                                             *)
(***************************************************************************)
EXTENDS ObservationAdmission, CandidateIntake, TLAPS, NaturalsInduction,
        WellFoundedInduction, FiniteSetTheorems

Resolved(o) == row[o] # None /\ row[o].instrument = o.symbol

(* A request whose success admits an observation or makes it evidence. *)
Claims(w, o) ==
  /\ w # None
  /\ \/ w.todo = "save" /\ w.of = o /\ w.decision = "admitted"
     \/ w.todo = "insert" /\ w.item.observation = o

(* On its way to be admitted, admitted, or evidence, even when a later     *)
(* decision has replaced the status since.                                 *)
Approved(o) == Admitted(o) \/ HasEvidence(o) \/ \E c \in Workers : Claims(request[c], o)

ImportedOK ==
  /\ \A o \in Imported : row[o].instrument \in {None, o.symbol}
  /\ \A i \in Importers : importer[i] # None =>
       \A o \in DOMAIN importer[i].seen : o \in Imported /\ o.run = importer[i].run

LoadOK(w) ==
  w # None /\ w.todo \in {"decide", "save"} =>
    /\ w.of \in Imported
    /\ w.was.instrument # None => Resolved(w.of) /\ w.was.instrument = w.of.symbol
    /\ w.todo = "save" /\ w.decision = "admitted" => w.was.instrument # None

LoadedOK == \A c \in Workers : LoadOK(request[c])

ApprovedResolved == \A o \in Observations : Approved(o) => Resolved(o)

NoRivals ==
  \A o, p \in Recent : Contradict(o, p) => ~(Approved(o) /\ Approved(p))

AdmissionInv ==
  TypeOK /\ ImportedOK /\ LoadedOK /\ ApprovedResolved /\ NoRivals /\ EvidenceOnce

(* Imports of one run come one after the other. *)
RunsInTurn ==
  \A i, j \in Importers :
    importer[i] # None /\ importer[j] # None /\ importer[i].run = importer[j].run => i = j

(* What an import has listed stays unresolved until it saves. *)
ListedUnresolved ==
  \A i \in Importers : importer[i] # None =>
    \A o \in DOMAIN importer[i].seen : row[o].instrument = None

AuditInv ==
  /\ ListedUnresolved
  /\ AdmissionKeepsAudit
  /\ \A c \in Workers : Owes(c, "insert") => request[c].item.admission.status = "admitted"

-----------------------------------------------------------------------------
(* What every step leaves as it is *)

RowsKept ==
  /\ row' \in [Observations -> Rows \union {None}]
  /\ Imported \subseteq Imported'
  /\ \A o \in Observations : Resolved(o) => Resolved(o)'
  /\ \A o \in Imported' : row'[o].instrument \in {None, o.symbol}

(* An observation that has an instrument, and whose rivals on the page     *)
(* have none.                                                              *)
Unrivalled(o) ==
  Resolved(o) /\ \A p \in Recent : Contradict(o, p) => ~Resolved(p)

OnlyUnrivalled ==
  \A o \in Observations : Approved(o)' => Approved(o) \/ Unrivalled(o)

(* What is imported already and is on the page after a step was on it      *)
(* before: only more rows can be newer.                                    *)
LEMMA RecentStays ==
  ASSUME RowsKept, NEW o \in Recent', o \in Imported
  PROVE  o \in Recent
<1> DEFINE Before == {q \in Imported : Newer(q, o)}
           After  == {q \in Imported' : Newer(q, o)}
<1>1. After = {q \in Imported : Newer(q, o)}'
  BY DEF Newer
<1>2. Cardinality(After) < Page
  BY <1>1 DEF Recent
<1>3. IsFiniteSet(After) /\ Before \subseteq After
  <2>1. Imported' \subseteq Observations /\ IsFiniteSet(Observations)
    BY AdmissionOK DEF Imported
  <2>2. IsFiniteSet(After)
    BY <2>1, FS_Subset
  <2> QED
    BY <2>2 DEF RowsKept
<1>4. Cardinality(Before) <= Cardinality(After)
  BY <1>3, FS_Subset
<1>5. Cardinality(Before) \in Nat /\ Cardinality(After) \in Nat /\ Page \in Nat
  BY <1>3, FS_Subset, FS_CardinalityType, AdmissionOK
<1>6. Cardinality(Before) < Page
  BY <1>2, <1>4, <1>5
<1> QED
  BY <1>6 DEF Recent

(* An approval that comes in a step is unrivalled: its rivals are neither  *)
(* approved already nor approved in the same step.                         *)
LEMMA RivalsStep ==
  ASSUME AdmissionInv, RowsKept, OnlyUnrivalled
  PROVE  ApprovedResolved' /\ NoRivals'
<1>1. ApprovedResolved'
  BY DEF AdmissionInv, ApprovedResolved, RowsKept, OnlyUnrivalled, Unrivalled
<1>2. NoRivals'
  <2> SUFFICES ASSUME NEW o \in Recent', NEW p \in Recent',
                      Contradict(o, p), Approved(o)', Approved(p)'
               PROVE  FALSE
    BY DEF NoRivals, Contradict
  <2>1. Contradict(p, o) /\ o \in Observations /\ p \in Observations
    BY DEF Contradict, Recent, Imported
  <2>2. Resolved(o) /\ Resolved(p)
    BY <2>1 DEF AdmissionInv, ApprovedResolved, OnlyUnrivalled, Unrivalled
  <2>3. o \in Recent /\ p \in Recent
    BY <2>1, <2>2, RecentStays DEF Resolved, Imported
  <2>4. Approved(o) /\ Approved(p)
    BY <2>1, <2>2, <2>3 DEF OnlyUnrivalled, Unrivalled
  <2> QED
    BY <2>3, <2>4 DEF AdmissionInv, NoRivals
<1> QED
  BY <1>1, <1>2

(* A step that writes one request. *)
LEMMA RequestStep ==
  ASSUME AdmissionInv, RowsKept, NEW c \in Workers, NEW w \in Requests \union {None},
         request' = [request EXCEPT ![c] = w], LoadOK(w)
  PROVE  LoadedOK' /\ request' \in [Workers -> Requests \union {None}]
<1>1. request \in [Workers -> Requests \union {None}]
  BY DEF AdmissionInv, TypeOK
<1>2. ASSUME NEW u, LoadOK(u) PROVE LoadOK(u)'
  BY <1>2 DEF LoadOK, RowsKept, Imported
<1>3. ASSUME NEW d \in Workers PROVE LoadOK(request[d])'
  <2>1. CASE d = c
    <3>1. request'[d] = w
      BY <1>1, <2>1
    <3> QED
      BY <1>2, <3>1
  <2>2. CASE d # c
    <3>1. request'[d] = request[d] /\ LoadOK(request[d])
      BY <1>1, <2>2 DEF AdmissionInv, LoadedOK
    <3>2. ASSUME NEW u, u = request[d] PROVE LoadOK(u)'
      BY <1>2, <3>1, <3>2
    <3> QED
      BY <3>1, <3>2
  <2> QED
    BY <2>1, <2>2
<1> QED
  BY <1>1, <1>3 DEF LoadedOK

(* A step that writes no request. *)
LEMMA NoRequestStep ==
  ASSUME AdmissionInv, RowsKept, UNCHANGED request
  PROVE  LoadedOK' /\ request' \in [Workers -> Requests \union {None}]
BY DEF AdmissionInv, TypeOK, LoadedOK, LoadOK, RowsKept, Imported

LEMMA NoRowStep ==
  ASSUME AdmissionInv, UNCHANGED row
  PROVE  RowsKept
BY DEF AdmissionInv, TypeOK, RowsKept, Resolved, ImportedOK, Imported

(* What has been listed is imported, and stays so. *)
LEMMA NoListingStep ==
  ASSUME AdmissionInv, RowsKept, UNCHANGED importer
  PROVE  ImportedOK' /\ importer' \in [Importers -> Listings \union {None}]
BY DEF AdmissionInv, TypeOK, RowsKept, ImportedOK

(* The parts of the invariant that a step has to show one by one. *)
LEMMA Together ==
  ASSUME AdmissionInv, RowsKept, OnlyUnrivalled, ImportedOK', LoadedOK', EvidenceOnce',
         importer' \in [Importers -> Listings \union {None}],
         request' \in [Workers -> Requests \union {None}],
         listed' \subseteq Symbols, today' \in 0 .. MaxDay, cases' \in 0 .. MaxCases,
         evidence' \subseteq [case : CaseIds, item : Items]
  PROVE  AdmissionInv'
<1>1. TypeOK'
  BY DEF TypeOK, RowsKept
<1> QED
  BY <1>1, RivalsStep DEF AdmissionInv

LEMMA ImportedRow ==
  ASSUME TypeOK, NEW o \in Imported
  PROVE  o \in Observations /\ row[o] \in Rows
BY DEF TypeOK, Imported

-----------------------------------------------------------------------------
(* Imports *)

LEMMA ImportStep ==
  ASSUME AdmissionOK, AdmissionInv, NEW i \in Importers, NEW r \in Runs, Import(i, r)
  PROVE  AdmissionInv'
<1>1. PICK n : n = [status |-> "pending", instrument |-> None, admission |-> None]
  OBVIOUS
<1>2. n \in Rows /\ n.status = "pending" /\ n.instrument = None /\ n # None
  BY <1>1 DEF Rows, Statuses, Decided, AdmissionOK
<1>3. /\ row' = [o \in Observations |-> IF o.run # r THEN row[o] ELSE n]
      /\ \A o \in Imported : o.run # r
      /\ UNCHANGED <<listed, today, cases, evidence, importer, request>>
  BY <1>1 DEF Import
<1>4. row' \in [Observations -> Rows \union {None}]
  BY <1>2, <1>3 DEF AdmissionInv, TypeOK
<1>5. \A o \in Imported : o \in Observations /\ row'[o] = row[o]
  BY <1>3 DEF Imported
<1>6. \A o \in Observations \ Imported : row'[o] \in {None, n}
  BY <1>3 DEF Imported
<1>7. RowsKept
  BY <1>2, <1>4, <1>5, <1>6 DEF RowsKept, Imported, Resolved, AdmissionInv, ImportedOK
<1>8. OnlyUnrivalled
  BY <1>2, <1>3, <1>5, <1>6
     DEF OnlyUnrivalled, Approved, Admitted, HasEvidence, Claims, Imported
<1>9. EvidenceOnce'
  BY <1>3 DEF EvidenceOnce, AdmissionInv
<1> QED
  BY <1>3, <1>7, <1>8, <1>9, NoListingStep, NoRequestStep, Together DEF AdmissionInv, TypeOK

LEMMA ListRunStep ==
  ASSUME AdmissionOK, AdmissionInv, NEW i \in Importers, NEW r \in Runs, ListRun(i, r)
  PROVE  AdmissionInv'
<1>1. PICK l : l = [run |-> r, seen |-> [o \in Unresolved(r) |-> row[o].admission]]
  OBVIOUS
<1>2. importer' = [importer EXCEPT ![i] = l] /\ UNCHANGED <<row, listed, today, cases, evidence, request>>
  BY <1>1 DEF ListRun
<1>3. l \in Listings
  <2>1. Unresolved(r) \in SUBSET Observations
    BY DEF Unresolved, Imported
  <2>2. l.seen \in [Unresolved(r) -> Audits \union {None}]
    BY <1>1, ImportedRow DEF Unresolved, Rows, AdmissionInv
  <2>3. l.seen \in UNION {[S -> Audits \union {None}] : S \in SUBSET Observations}
    BY <2>1, <2>2
  <2> QED
    BY <1>1, <2>3 DEF Listings
<1>4. \A o \in DOMAIN l.seen : o \in Imported /\ o.run = l.run
  BY <1>1 DEF Unresolved
<1>5. importer' \in [Importers -> Listings \union {None}]
  BY <1>2, <1>3 DEF AdmissionInv, TypeOK
<1>6. RowsKept
  BY <1>2, NoRowStep
<1>7. ImportedOK'
  <2>1. ASSUME NEW j \in Importers, importer'[j] # None, NEW o \in DOMAIN importer'[j].seen
        PROVE  o \in Imported /\ o.run = importer'[j].run
    BY <1>2, <1>4, <2>1 DEF AdmissionInv, ImportedOK, TypeOK
  <2> QED
    BY <1>2, <2>1 DEF ImportedOK, AdmissionInv, Imported
<1>8. OnlyUnrivalled
  BY <1>2 DEF OnlyUnrivalled, Approved, Admitted, HasEvidence, Claims
<1>9. EvidenceOnce'
  BY <1>2 DEF EvidenceOnce, AdmissionInv
<1> QED
  BY <1>2, <1>5, <1>6, <1>7, <1>8, <1>9, NoRequestStep, Together DEF AdmissionInv, TypeOK

LEMMA SaveResolutionStep ==
  ASSUME AdmissionOK, AdmissionInv, NEW i \in Importers, SaveResolution(i)
  PROVE  AdmissionInv'
<1>1. PICK seen : seen = importer[i].seen
  OBVIOUS
<1>2. /\ row' = [o \in Observations |->
             IF o \in DOMAIN seen /\ o.symbol \in listed
             THEN [row[o] EXCEPT !.instrument = o.symbol, !.admission = seen[o]]
             ELSE row[o]]
      /\ importer' = [importer EXCEPT ![i] = None]
      /\ UNCHANGED <<listed, today, cases, evidence, request>>
  BY <1>1 DEF SaveResolution
<1>3. \A o \in DOMAIN seen : o \in Imported /\ seen[o] \in Audits \union {None}
  <2>1. importer[i] \in Listings
    BY DEF SaveResolution, AdmissionInv, TypeOK
  <2>2. PICK S \in SUBSET Observations : seen \in [S -> Audits \union {None}]
    BY <1>1, <2>1 DEF Listings
  <2> QED
    BY <1>1, <2>2 DEF SaveResolution, AdmissionInv, ImportedOK
<1>4. ASSUME NEW o \in Observations
      PROVE  /\ row[o] = None => row'[o] = None
             /\ row[o] # None =>
                  /\ row'[o] \in Rows
                  /\ row'[o].instrument \in {row[o].instrument, o.symbol}
                  /\ row'[o].status = row[o].status
  <2>1. CASE o \in DOMAIN seen /\ o.symbol \in listed
    <3>1. row[o] \in Rows /\ o.symbol \in Symbols /\ row[o] # None
      BY <1>3, <2>1, ImportedRow DEF AdmissionInv, TypeOK, Imported
    <3>2. row'[o] = [row[o] EXCEPT !.instrument = o.symbol, !.admission = seen[o]]
      BY <1>2, <2>1
    <3> QED
      BY <1>3, <2>1, <3>1, <3>2 DEF Rows
  <2>2. CASE ~(o \in DOMAIN seen /\ o.symbol \in listed)
    <3>1. row'[o] = row[o]
      BY <1>2, <2>2
    <3> QED
      BY <3>1 DEF AdmissionInv, TypeOK
  <2> QED
    BY <2>1, <2>2
<1>5. row' \in [Observations -> Rows \union {None}]
  <2>1. DOMAIN row' = Observations /\ row' = [o \in Observations |-> row'[o]]
    BY <1>2
  <2> QED
    BY <1>4, <2>1
<1>6. RowsKept
  BY <1>4, <1>5 DEF RowsKept, Imported, Resolved, AdmissionInv, ImportedOK, AdmissionOK
<1>7. OnlyUnrivalled
  BY <1>2, <1>4 DEF OnlyUnrivalled, Approved, Admitted, HasEvidence, Claims
<1>8. importer' \in [Importers -> Listings \union {None}] /\ ImportedOK'
  BY <1>2, <1>6 DEF RowsKept, ImportedOK, AdmissionInv, TypeOK
<1>9. EvidenceOnce'
  BY <1>2 DEF EvidenceOnce, AdmissionInv
<1> QED
  BY <1>2, <1>6, <1>7, <1>8, <1>9, NoRequestStep, Together DEF AdmissionInv, TypeOK

-----------------------------------------------------------------------------
(* Decisions *)

(* A step of one request that leaves the tables alone. *)
LEMMA QuietRequest ==
  ASSUME AdmissionInv, NEW c \in Workers, NEW w \in Requests \union {None},
         request' = [request EXCEPT ![c] = w], LoadOK(w),
         \A o \in Observations : Claims(w, o) => Approved(o) \/ Unrivalled(o),
         UNCHANGED <<row, listed, today, cases, evidence, importer>>
  PROVE  AdmissionInv'
<1>1. RowsKept
  BY NoRowStep
<1>2. OnlyUnrivalled
  <2> SUFFICES ASSUME NEW o \in Observations, Approved(o)'
               PROVE  Approved(o) \/ Unrivalled(o)
    BY DEF OnlyUnrivalled
  <2>1. CASE Admitted(o)' \/ HasEvidence(o)'
    BY <2>1 DEF Approved, Admitted, HasEvidence
  <2>2. ASSUME NEW d \in Workers, Claims(request[d], o)'
        PROVE  Approved(o) \/ Unrivalled(o)
    <3>1. CASE d = c
      <4>1. request'[d] = w
        BY <3>1 DEF AdmissionInv, TypeOK
      <4> QED
        BY <2>2, <4>1 DEF Claims
    <3>2. CASE d # c
      <4>1. request'[d] = request[d]
        BY <3>2 DEF AdmissionInv, TypeOK
      <4> QED
        BY <2>2, <4>1 DEF Claims, Approved
    <3> QED
      BY <3>1, <3>2
  <2> QED
    BY <2>1, <2>2 DEF Approved
<1>3. EvidenceOnce'
  BY DEF EvidenceOnce, AdmissionInv
<1> QED
  BY <1>1, <1>2, <1>3, RequestStep, NoListingStep, Together DEF AdmissionInv, TypeOK

LEMMA LoadStep ==
  ASSUME AdmissionOK, AdmissionInv, NEW c \in Workers, NEW o \in Observations, NEW k \in Keys,
         Load(c, o, k)
  PROVE  AdmissionInv'
<1>1. PICK w : w = [todo |-> "decide", of |-> o, key |-> k, was |-> row[o]]
  OBVIOUS
<1>2. o \in Imported /\ row[o] \in Rows
  BY DEF Load, Imported, AdmissionInv, TypeOK
<1>3. w \in Requests
  BY <1>1, <1>2 DEF Requests
<1>4. LoadOK(w)
  BY <1>1, <1>2 DEF LoadOK, Resolved, AdmissionInv, ImportedOK, Imported
<1>5. \A p : ~Claims(w, p)
  BY <1>1 DEF Claims
<1>6. /\ request' = [request EXCEPT ![c] = w]
      /\ UNCHANGED <<row, listed, today, cases, evidence, importer>>
  BY <1>1 DEF Load
<1> QED
  BY <1>3, <1>4, <1>5, <1>6, QuietRequest

(* An observation is found admissible only when none of those that have    *)
(* an instrument contradicts it.                                           *)
LEMMA AdmissibleIsUnrivalled ==
  ASSUME NEW o \in Observations, Resolved(o), NEW was, was.instrument = o.symbol,
         Verdict(o, was) = "admitted"
  PROVE  Unrivalled(o)
<1>1. \A p \in Peers(o, was.instrument) : p.payload = o.payload
  BY DEF Verdict
<1>2. ASSUME NEW p \in Recent, Contradict(o, p), Resolved(p)
      PROVE  FALSE
  <2>1. p \in Peers(o, was.instrument)
    BY <1>2 DEF Peers, Contradict, Resolved, Imported
  <2> QED
    BY <1>1, <1>2, <2>1 DEF Contradict
<1> QED
  BY <1>2 DEF Unrivalled

LEMMA DecideStep ==
  ASSUME AdmissionOK, AdmissionInv, NEW c \in Workers, Decide(c)
  PROVE  AdmissionInv'
<1>1. PICK u : u = request[c]
  OBVIOUS
<1>2. PICK v : v = Verdict(u.of, u.was)
  OBVIOUS
<1>3. PICK w : w = [todo |-> "save", of |-> u.of, key |-> u.key, was |-> u.was, decision |-> v]
  OBVIOUS
<1>4. u # None /\ u.todo = "decide" /\ LoadOK(u)
  BY <1>1 DEF Decide, Owes, AdmissionInv, LoadedOK
<1>5. u \in [todo : {"decide"}, of : Observations, key : Keys, was : Rows]
  BY <1>1, <1>4 DEF AdmissionInv, TypeOK, Requests
<1>6. v \in Decided
  BY <1>2 DEF Verdict, Decided
<1>7. w \in Requests
  BY <1>3, <1>5, <1>6 DEF Requests
<1>8. v = "admitted" => u.was.instrument # None
  BY <1>2 DEF Verdict
<1>9. LoadOK(w)
  BY <1>3, <1>4, <1>8 DEF LoadOK
<1>10. ASSUME NEW o \in Observations, Claims(w, o) PROVE Unrivalled(o)
  <2>1. o = u.of /\ v = "admitted"
    BY <1>3, <1>10 DEF Claims
  <2>2. Resolved(o)
    BY <1>4, <1>8, <2>1 DEF LoadOK
  <2>3. u.was.instrument = o.symbol
    BY <1>4, <1>8, <2>1 DEF LoadOK
  <2> QED
    BY <1>2, <2>1, <2>2, <2>3, AdmissibleIsUnrivalled
<1>11. /\ request' = [request EXCEPT ![c] = w]
       /\ UNCHANGED <<row, listed, today, cases, evidence, importer>>
  BY <1>1, <1>2, <1>3 DEF Decide
<1> QED
  BY <1>7, <1>9, <1>10, <1>11, QuietRequest

(* What SaveAdmission writes: the decision over the row as it is now. *)
LEMMA SavedRow ==
  ASSUME AdmissionOK, AdmissionInv, NEW c \in Workers, SaveAdmission(c),
         NEW u, u = request[c]
  PROVE  /\ u # None /\ u.todo = "save" /\ LoadOK(u)
         /\ u.of \in Observations /\ u.of \in Imported
         /\ \E s \in Rows :
              /\ row' = [row EXCEPT ![u.of] = s]
              /\ s.instrument = row[u.of].instrument
              /\ s.status = u.decision
              /\ s.admission # None /\ s.admission.status = u.decision
<1>1. u # None /\ u.todo = "save" /\ LoadOK(u)
  BY DEF SaveAdmission, Owes, AdmissionInv, LoadedOK
<1>2. u \in [todo : {"save"}, of : Observations, key : Keys, was : Rows, decision : Decided]
  BY <1>1 DEF AdmissionInv, TypeOK, Requests
<1>3. u.of \in Imported /\ row[u.of] \in Rows
  BY <1>1, ImportedRow DEF LoadOK, AdmissionInv
<1>4. PICK o : o = u.of
  OBVIOUS
<1>5. PICK m : m = [key |-> u.key, status |-> u.decision]
  OBVIOUS
<1>6. PICK s : s = [row[o] EXCEPT !.status = u.decision, !.admission = m]
  OBVIOUS
<1>7. m \in Audits /\ m # None /\ m.status = u.decision
  BY <1>2, <1>5 DEF Audits, AdmissionOK
<1>8. /\ s \in Rows /\ s.instrument = row[o].instrument
      /\ s.status = u.decision /\ s.admission = m
  BY <1>2, <1>3, <1>4, <1>6, <1>7 DEF Rows, Statuses
<1>9. row' = [row EXCEPT ![o].status = u.decision, ![o].admission = m]
  BY <1>4, <1>5 DEF SaveAdmission
<1>10. row' = [row EXCEPT ![o] = s]
  BY <1>3, <1>4, <1>6, <1>9 DEF AdmissionInv, TypeOK, Imported
<1> QED
  BY <1>1, <1>2, <1>3, <1>4, <1>7, <1>8, <1>10

LEMMA SaveAdmissionStep ==
  ASSUME AdmissionOK, AdmissionInv, NEW c \in Workers, SaveAdmission(c)
  PROVE  AdmissionInv'
<1>1. PICK u : u = request[c]
  OBVIOUS
<1>2. PICK s \in Rows :
        /\ row' = [row EXCEPT ![u.of] = s]
        /\ s.instrument = row[u.of].instrument
        /\ s.status = u.decision
  BY <1>1, SavedRow
<1>3. u # None /\ u.todo = "save" /\ u.of \in Imported /\ u.of \in Observations
  BY <1>1, SavedRow
<1>4. PICK w : w = None
  OBVIOUS
<1>5. /\ request' = [request EXCEPT ![c] = w]
      /\ UNCHANGED <<listed, today, cases, evidence, importer>>
  BY <1>4 DEF SaveAdmission
<1>6. s # None
  BY <1>2 DEF AdmissionOK
<1>7. row' \in [Observations -> Rows \union {None}]
  BY <1>2 DEF AdmissionInv, TypeOK
<1>8. \A o \in Observations : o # u.of => row'[o] = row[o]
  BY <1>2 DEF AdmissionInv, TypeOK
<1>9. row'[u.of] = s
  BY <1>2, <1>3 DEF AdmissionInv, TypeOK
<1>10. RowsKept
  BY <1>2, <1>3, <1>6, <1>7, <1>8, <1>9 DEF RowsKept, Imported, Resolved, AdmissionInv, ImportedOK
<1>11. OnlyUnrivalled
  <2> SUFFICES ASSUME NEW o \in Observations, Approved(o)'
               PROVE  Approved(o)
    BY DEF OnlyUnrivalled
  <2>1. CASE Admitted(o)'
    <3>1. CASE o = u.of
      <4>1. u.decision = "admitted"
        BY <1>2, <1>9, <2>1, <3>1 DEF Admitted
      <4>2. Claims(u, o)
        BY <1>3, <3>1, <4>1 DEF Claims
      <4> QED
        BY <1>1, <4>2 DEF Approved
    <3>2. CASE o # u.of
      BY <1>8, <2>1, <3>2 DEF Approved, Admitted
    <3> QED
      BY <3>1, <3>2
  <2>2. CASE HasEvidence(o)'
    BY <1>5, <2>2 DEF Approved, HasEvidence
  <2>3. ASSUME NEW d \in Workers, Claims(request[d], o)'
        PROVE  Approved(o)
    <3>1. d # c
      BY <1>4, <1>5, <2>3 DEF Claims, AdmissionInv, TypeOK
    <3>2. request'[d] = request[d]
      BY <1>5, <3>1 DEF AdmissionInv, TypeOK
    <3> QED
      BY <2>3, <3>2 DEF Claims, Approved
  <2> QED
    BY <2>1, <2>2, <2>3 DEF Approved
<1>12. LoadOK(w)
  BY <1>4 DEF LoadOK
<1>13. EvidenceOnce'
  BY <1>5 DEF EvidenceOnce, AdmissionInv
<1>14. w \in Requests \union {None}
  BY <1>4
<1> QED
  BY <1>5, <1>10, <1>11, <1>12, <1>13, <1>14, RequestStep, NoListingStep, Together
     DEF AdmissionInv, TypeOK

-----------------------------------------------------------------------------
(* Evidence *)

LEMMA HoldsStep ==
  ASSUME AdmissionOK, AdmissionInv, NEW c \in Workers, NEW o \in Observations,
         NEW case \in CaseIds \union {None}, Buildable(o), Holds(c, o, case),
         UNCHANGED <<row, listed, today, cases, evidence, importer>>
  PROVE  AdmissionInv'
<1>1. PICK item : item = [observation |-> o, admission |-> row[o].admission]
  OBVIOUS
<1>2. PICK w : w = [todo |-> "insert", case |-> case, item |-> item]
  OBVIOUS
<1>3. row[o] \in Rows
  BY DEF Buildable, AdmissionInv, TypeOK
<1>4. item \in Items
  BY <1>1, <1>3 DEF Items, Rows, Buildable
<1>5. w \in Requests
  BY <1>2, <1>4 DEF Requests
<1>6. LoadOK(w)
  BY <1>2 DEF LoadOK
<1>7. \A p : Claims(w, p) => p = o
  BY <1>1, <1>2 DEF Claims
<1>8. Approved(o)
  BY DEF Approved, Admitted, Buildable
<1>9. request' = [request EXCEPT ![c] = w]
  BY <1>1, <1>2 DEF Holds
<1> QED
  BY <1>5, <1>6, <1>7, <1>8, <1>9, QuietRequest

LEMMA OpenCaseStep ==
  ASSUME AdmissionOK, AdmissionInv, NEW c \in Workers, NEW o \in Observations, OpenCase(c, o)
  PROVE  AdmissionInv'
BY HoldsStep DEF OpenCase

LEMMA LinkStep ==
  ASSUME AdmissionOK, AdmissionInv, NEW c \in Workers, NEW o \in Observations,
         NEW case \in DOMAIN Cases, Link(c, o, case)
  PROVE  AdmissionInv'
BY HoldsStep DEF Link, CaseIds

LEMMA InsertEvidenceStep ==
  ASSUME AdmissionOK, AdmissionInv, NEW c \in Workers, InsertEvidence(c)
  PROVE  AdmissionInv'
<1>1. PICK u : u = request[c]
  OBVIOUS
<1>2. PICK w : w = None
  OBVIOUS
<1>3. PICK id : id = IF u.case = None THEN cases + 1 ELSE u.case
  OBVIOUS
<1>4. PICK v : v = [case |-> id, item |-> u.item]
  OBVIOUS
<1>5. u # None /\ u.todo = "insert"
  BY <1>1 DEF InsertEvidence, Owes
<1>6. u \in [todo : {"insert"}, item : Items, case : CaseIds \union {None}]
  BY <1>1, <1>5 DEF AdmissionInv, TypeOK, Requests
<1>7. request' = [request EXCEPT ![c] = w] /\ UNCHANGED <<row, listed, today, importer>>
  BY <1>2 DEF InsertEvidence
<1>8. \/ UNCHANGED <<cases, evidence>>
      \/ /\ ~Taken(u.item)
         /\ evidence' = evidence \union {v}
         /\ \/ u.case # None /\ cases' = cases
            \/ u.case = None /\ cases' = cases + 1 /\ cases < MaxCases
  BY <1>1, <1>3, <1>4 DEF InsertEvidence
<1>9. v.case = id /\ v.item = u.item
  BY <1>4
<1>10. cases \in Nat /\ MaxCases \in Nat /\ cases \in 0 .. MaxCases
  BY DEF AdmissionInv, TypeOK, AdmissionOK
<1>11. cases' \in 0 .. MaxCases
  BY <1>8, <1>10
<1>12. evidence' \subseteq [case : CaseIds, item : Items]
  <2>1. CASE UNCHANGED <<cases, evidence>>
    BY <2>1 DEF AdmissionInv, TypeOK
  <2>2. CASE /\ evidence' = evidence \union {v}
             /\ \/ u.case # None
                \/ u.case = None /\ cases < MaxCases
    <3>1. id \in CaseIds
      BY <1>3, <1>6, <1>10, <2>2 DEF CaseIds
    <3>2. v \in [case : CaseIds, item : Items]
      BY <1>4, <1>6, <3>1
    <3> QED
      BY <2>2, <3>2 DEF AdmissionInv, TypeOK
  <2> QED
    BY <1>8, <2>1, <2>2
<1>13. EvidenceOnce'
  <2>1. CASE UNCHANGED <<cases, evidence>>
    BY <2>1 DEF AdmissionInv, EvidenceOnce
  <2>2. CASE /\ ~Taken(u.item)
             /\ evidence' = evidence \union {v}
             /\ \/ u.case # None /\ cases' = cases
                \/ u.case = None /\ cases' = cases + 1
    <3>1. \A x, y \in evidence' : x.item = y.item => x.case = y.case
      BY <1>9, <2>2 DEF AdmissionInv, EvidenceOnce, Taken
    <3>2. \A n \in 1 .. cases' : \E x \in evidence' : x.case = n
      BY <1>3, <1>9, <1>10, <2>2 DEF AdmissionInv, EvidenceOnce
    <3> QED
      BY <3>1, <3>2 DEF EvidenceOnce
  <2> QED
    BY <1>8, <2>1, <2>2
<1>14. RowsKept
  BY <1>7, NoRowStep
<1>15. OnlyUnrivalled
  <2> SUFFICES ASSUME NEW o \in Observations, Approved(o)'
               PROVE  Approved(o)
    BY DEF OnlyUnrivalled
  <2>1. CASE Admitted(o)'
    BY <1>7, <2>1 DEF Admitted, Approved
  <2>2. CASE HasEvidence(o)'
    <3>1. Claims(u, o) \/ HasEvidence(o)
      BY <1>5, <1>8, <1>9, <2>2 DEF HasEvidence, Claims
    <3> QED
      BY <1>1, <3>1 DEF Approved
  <2>3. ASSUME NEW d \in Workers, Claims(request[d], o)'
        PROVE  Approved(o)
    <3>1. d # c
      BY <1>2, <1>7, <2>3 DEF Claims, AdmissionInv, TypeOK
    <3>2. request'[d] = request[d]
      BY <1>7, <3>1 DEF AdmissionInv, TypeOK
    <3> QED
      BY <2>3, <3>2 DEF Claims, Approved
  <2> QED
    BY <2>1, <2>2, <2>3 DEF Approved
<1>16. LoadOK(w) /\ w \in Requests \union {None}
  BY <1>2 DEF LoadOK
<1> QED
  BY <1>7, <1>11, <1>12, <1>13, <1>14, <1>15, <1>16, RequestStep, NoListingStep, Together
     DEF AdmissionInv, TypeOK

-----------------------------------------------------------------------------
(* The whole of it *)

LEMMA AdmissionInit ==
  ASSUME AdmissionOK, Init
  PROVE  AdmissionInv
<1>1. TypeOK
  BY DEF Init, TypeOK, AdmissionOK
<1>2. ImportedOK /\ LoadedOK /\ \A o \in Observations : ~Approved(o)
  BY DEF Init, ImportedOK, Imported, LoadedOK, LoadOK, Approved, Admitted, HasEvidence, Claims
<1>3. EvidenceOnce
  BY DEF Init, EvidenceOnce
<1> QED
  BY <1>1, <1>2, <1>3 DEF AdmissionInv, ApprovedResolved, NoRivals, Recent, Imported

LEMMA OutsideStep ==
  ASSUME AdmissionOK, AdmissionInv, listed' \subseteq Symbols, today' \in 0 .. MaxDay,
         UNCHANGED <<row, cases, evidence, importer, request>>
  PROVE  AdmissionInv'
<1>1. RowsKept
  BY NoRowStep
<1>2. OnlyUnrivalled
  BY DEF OnlyUnrivalled, Approved, Admitted, HasEvidence, Claims
<1>3. EvidenceOnce'
  BY DEF EvidenceOnce, AdmissionInv
<1> QED
  BY <1>1, <1>2, <1>3, NoListingStep, NoRequestStep, Together DEF AdmissionInv, TypeOK

LEMMA AdmissionStep ==
  ASSUME AdmissionOK, AdmissionInv, [Next]_vars
  PROVE  AdmissionInv'
<1>1. CASE UNCHANGED vars
  BY <1>1, OutsideStep DEF vars, AdmissionInv, TypeOK
<1>2. ASSUME NEW sy \in Symbols, ListInstrument(sy) PROVE AdmissionInv'
  BY <1>2, OutsideStep DEF ListInstrument, AdmissionInv, TypeOK
<1>3. CASE NextDay
  BY <1>3, OutsideStep DEF NextDay, AdmissionInv, TypeOK, AdmissionOK
<1> QED
  BY <1>1, <1>2, <1>3, ImportStep, ListRunStep, SaveResolutionStep, LoadStep, DecideStep,
     SaveAdmissionStep, OpenCaseStep, LinkStep, InsertEvidenceStep DEF Next

(* The inductive invariant holds in every reachable state. *)
THEOREM AdmissionAlways == Spec => []AdmissionInv
<1>1. Init => AdmissionInv
  BY AdmissionOK, AdmissionInit
<1>2. AdmissionInv /\ [Next]_vars => AdmissionInv'
  BY AdmissionOK, AdmissionStep
<1> QED
  BY <1>1, <1>2, PTL DEF Spec

(* Rows, listings, requests and evidence have the shape the code gives     *)
(* them; the number of cases stays below its bound.                        *)
THEOREM AdmissionTypeCorrect == Spec => []TypeOK
BY AdmissionAlways, PTL DEF AdmissionInv

(* Of two observations on the page of list_recent that contradict each     *)
(* other, at most one was ever admitted and at most one made evidence,     *)
(* however many requests and imports overlap and however small the page.   *)
THEOREM AdmissionNoContradiction == Spec => []NoContradiction
<1>1. AdmissionInv => NoContradiction
  BY DEF AdmissionInv, NoRivals, Approved, NoContradiction, NeverBoth, Recent, Imported
<1> QED
  BY <1>1, AdmissionAlways, PTL

(* One decision gives evidence to one case only, and every case opened for *)
(* an observation has evidence.                                            *)
THEOREM AdmissionEvidenceOnce == Spec => []EvidenceOnce
BY AdmissionAlways, PTL DEF AdmissionInv

-----------------------------------------------------------------------------
(* Audits, when the imports of a run come one after the other *)

(* A step that writes no row: new listings, new items and new evidence are *)
(* in order.                                                               *)
LEMMA AuditNoRow ==
  ASSUME AuditInv, UNCHANGED row, ListedUnresolved',
         \A v \in evidence' : v.item.admission.status = "admitted",
         \A c \in Workers : Owes(c, "insert")' => request'[c].item.admission.status = "admitted"
  PROVE  AuditInv'
BY DEF AuditInv, AdmissionKeepsAudit, Admitted

LEMMA AuditRequest ==
  ASSUME AdmissionInv, AuditInv, NEW c \in Workers, NEW w, request' = [request EXCEPT ![c] = w],
         w # None /\ w.todo = "insert" => w.item.admission.status = "admitted",
         UNCHANGED <<row, importer, evidence>>
  PROVE  AuditInv'
<1>1. ASSUME NEW d \in Workers, Owes(d, "insert")'
      PROVE  request'[d].item.admission.status = "admitted"
  <2>1. CASE d = c
    <3>1. request'[d] = w
      BY <2>1 DEF AdmissionInv, TypeOK
    <3> QED
      BY <1>1, <3>1 DEF Owes
  <2>2. CASE d # c
    <3>1. request'[d] = request[d]
      BY <2>2 DEF AdmissionInv, TypeOK
    <3> QED
      BY <1>1, <3>1 DEF Owes, AuditInv
  <2> QED
    BY <2>1, <2>2
<1>2. ListedUnresolved'
  BY DEF ListedUnresolved, AuditInv
<1> QED
  BY <1>1, <1>2, AuditNoRow DEF AuditInv, AdmissionKeepsAudit

LEMMA AuditOpen ==
  ASSUME AdmissionInv, AuditInv, NEW c \in Workers, NEW o \in Observations, NEW case,
         Buildable(o), Holds(c, o, case), UNCHANGED <<row, importer, evidence>>
  PROVE  AuditInv'
<1>1. PICK w : w = [todo |-> "insert", case |-> case,
                    item |-> [observation |-> o, admission |-> row[o].admission]]
  OBVIOUS
<1>2. row[o].admission.status = "admitted"
  BY DEF Buildable, AuditInv, AdmissionKeepsAudit, Admitted
<1>3. w.item.admission.status = "admitted"
  BY <1>1, <1>2
<1>4. request' = [request EXCEPT ![c] = w]
  BY <1>1 DEF Holds
<1> QED
  BY <1>3, <1>4, AuditRequest

LEMMA AuditInsert ==
  ASSUME AdmissionInv, AuditInv, NEW c \in Workers, InsertEvidence(c)
  PROVE  AuditInv'
<1>1. request[c].item.admission.status = "admitted"
  BY DEF InsertEvidence, AuditInv
<1>2. \A v \in evidence' : v \in evidence \/ v.item = request[c].item
  BY DEF InsertEvidence
<1>3. \A d \in Workers : Owes(d, "insert")' => Owes(d, "insert") /\ request'[d] = request[d]
  BY DEF InsertEvidence, Owes, AdmissionInv, TypeOK
<1>4. UNCHANGED <<row, importer>>
  BY DEF InsertEvidence
<1> QED
  BY <1>1, <1>2, <1>3, <1>4, AuditNoRow
     DEF AuditInv, AdmissionKeepsAudit, ListedUnresolved

LEMMA AuditImport ==
  ASSUME AdmissionOK, AdmissionInv, AuditInv, NEW i \in Importers, NEW r \in Runs, Import(i, r)
  PROVE  AuditInv'
<1>1. \A o \in Imported : o \in Observations /\ row'[o] = row[o]
  BY DEF Import, Imported
<1>2. \A o \in Observations \ Imported : row'[o] = None \/ row'[o].status = "pending"
  BY DEF Import, Imported
<1>3. \A o \in Observations : Admitted(o)' => Admitted(o) /\ row'[o] = row[o]
  BY <1>1, <1>2 DEF Admitted
<1>4. ListedUnresolved'
  BY <1>1 DEF Import, ListedUnresolved, AuditInv, AdmissionInv, ImportedOK
<1> QED
  BY <1>3, <1>4 DEF Import, AuditInv, AdmissionKeepsAudit, Owes

LEMMA AuditListRun ==
  ASSUME AdmissionInv, AuditInv, NEW i \in Importers, NEW r \in Runs, ListRun(i, r)
  PROVE  AuditInv'
<1>1. PICK l : l = [run |-> r, seen |-> [o \in Unresolved(r) |-> row[o].admission]]
  OBVIOUS
<1>2. importer' = [importer EXCEPT ![i] = l] /\ UNCHANGED <<row, evidence, request>>
  BY <1>1 DEF ListRun
<1>3. \A o \in DOMAIN l.seen : row[o].instrument = None
  BY <1>1 DEF Unresolved
<1>4. ListedUnresolved'
  <2>1. ASSUME NEW j \in Importers, importer'[j] # None, NEW o \in DOMAIN importer'[j].seen
        PROVE  row[o].instrument = None
    BY <1>2, <1>3, <2>1 DEF AdmissionInv, TypeOK, AuditInv, ListedUnresolved
  <2> QED
    BY <1>2, <2>1 DEF ListedUnresolved
<1> QED
  BY <1>2, <1>4, AuditNoRow DEF AuditInv, AdmissionKeepsAudit, Owes

(* The metadata that a re-import writes back goes to observations that are *)
(* not admitted, and it resolves none that another import has listed.      *)
LEMMA AuditSaveResolution ==
  ASSUME AdmissionOK, AdmissionInv, AuditInv, RunsInTurn, NEW i \in Importers, SaveResolution(i)
  PROVE  AuditInv'
<1>1. PICK seen : seen = importer[i].seen
  OBVIOUS
<1>2. /\ row' = [o \in Observations |->
             IF o \in DOMAIN seen /\ o.symbol \in listed
             THEN [row[o] EXCEPT !.instrument = o.symbol, !.admission = seen[o]]
             ELSE row[o]]
      /\ importer' = [importer EXCEPT ![i] = None]
      /\ UNCHANGED <<listed, today, cases, evidence, request>>
      /\ importer[i] # None
  BY <1>1 DEF SaveResolution
<1>3. \A o \in DOMAIN seen : o \in Imported /\ o.run = importer[i].run /\ row[o].instrument = None
  BY <1>1, <1>2 DEF AdmissionInv, ImportedOK, AuditInv, ListedUnresolved
<1>4. \A o \in Observations : o \notin DOMAIN seen => row'[o] = row[o]
  BY <1>2
<1>5. ASSUME NEW o \in DOMAIN seen PROVE ~Admitted(o) /\ ~Admitted(o)'
  <2>1. o \in Imported /\ o \in Observations /\ row[o] \in Rows
    BY <1>3, ImportedRow DEF AdmissionInv
  <2>2. ~Resolved(o)
    BY <1>3, <2>1 DEF Resolved, AdmissionOK, Symbols
  <2>3. ~Admitted(o)
    BY <2>1, <2>2 DEF AdmissionInv, ApprovedResolved, Approved
  <2>4. row'[o].status = row[o].status
    BY <1>2, <2>1 DEF Rows
  <2> QED
    BY <2>1, <2>3, <2>4 DEF Admitted, Imported
<1>6. \A o \in Observations : Admitted(o)' => Admitted(o) /\ row'[o] = row[o]
  BY <1>4, <1>5 DEF Admitted
<1>7. ListedUnresolved'
  <2> SUFFICES ASSUME NEW j \in Importers, importer'[j] # None, NEW o \in DOMAIN importer'[j].seen
               PROVE  row'[o].instrument = None
    BY DEF ListedUnresolved
  <2>1. j # i /\ importer'[j] = importer[j]
    BY <1>2 DEF AdmissionInv, TypeOK
  <2>2. importer[j].run # importer[i].run
    BY <1>2, <2>1 DEF RunsInTurn
  <2>3. o \in Imported /\ o.run = importer[j].run /\ row[o].instrument = None
    BY <2>1 DEF AdmissionInv, ImportedOK, AuditInv, ListedUnresolved
  <2>4. o \notin DOMAIN seen /\ o \in Observations
    BY <1>3, <2>2, <2>3 DEF Imported
  <2> QED
    BY <1>4, <2>3, <2>4
<1> QED
  BY <1>2, <1>6, <1>7 DEF AuditInv, AdmissionKeepsAudit, Owes

LEMMA AuditSaveAdmission ==
  ASSUME AdmissionOK, AdmissionInv, AuditInv, NEW c \in Workers, SaveAdmission(c)
  PROVE  AuditInv'
<1>1. PICK u : u = request[c]
  OBVIOUS
<1>2. PICK s \in Rows :
        /\ row' = [row EXCEPT ![u.of] = s]
        /\ s.instrument = row[u.of].instrument
        /\ s.status = u.decision
        /\ s.admission # None /\ s.admission.status = u.decision
  BY <1>1, SavedRow
<1>3. u.of \in Imported /\ u.of \in Observations
  BY <1>1, SavedRow
<1>4. \A o \in Observations : o # u.of => row'[o] = row[o]
  BY <1>2 DEF AdmissionInv, TypeOK
<1>5. row'[u.of] = s
  BY <1>2, <1>3 DEF AdmissionInv, TypeOK
<1>6. \A o \in Observations : Admitted(o)' => row'[o].admission # None /\ row'[o].admission.status = "admitted"
  BY <1>2, <1>4, <1>5 DEF Admitted, AuditInv, AdmissionKeepsAudit
<1>7. UNCHANGED <<evidence, importer>>
  BY DEF SaveAdmission
<1>8. ListedUnresolved'
  BY <1>2, <1>3, <1>4, <1>5, <1>7
     DEF ListedUnresolved, AuditInv, AdmissionInv, ImportedOK, Imported
<1>9. \A d \in Workers : Owes(d, "insert")' => Owes(d, "insert") /\ request'[d] = request[d]
  BY DEF SaveAdmission, Owes, AdmissionInv, TypeOK
<1> QED
  BY <1>6, <1>7, <1>8, <1>9 DEF AuditInv, AdmissionKeepsAudit

LEMMA AuditStep ==
  ASSUME AdmissionOK, AdmissionInv, AuditInv, RunsInTurn, [Next]_vars
  PROVE  AuditInv'
<1>1. CASE UNCHANGED <<row, importer, evidence, request>>
  BY <1>1 DEF AuditInv, ListedUnresolved, AdmissionKeepsAudit, Admitted, Owes
<1>2. ASSUME NEW c \in Workers, NEW o \in Observations, NEW k \in Keys, Load(c, o, k)
      PROVE  AuditInv'
  <2>1. PICK w : w = [todo |-> "decide", of |-> o, key |-> k, was |-> row[o]]
    OBVIOUS
  <2>2. request' = [request EXCEPT ![c] = w] /\ w.todo # "insert"
    BY <1>2, <2>1 DEF Load
  <2> QED
    BY <1>2, <2>2, AuditRequest DEF Load
<1>3. ASSUME NEW c \in Workers, Decide(c)
      PROVE  AuditInv'
  <2>1. PICK u : u = request[c]
    OBVIOUS
  <2>2. PICK w : w = [todo |-> "save", of |-> u.of, key |-> u.key, was |-> u.was,
                      decision |-> Verdict(u.of, u.was)]
    OBVIOUS
  <2>3. request' = [request EXCEPT ![c] = w] /\ w.todo # "insert"
    BY <1>3, <2>1, <2>2 DEF Decide
  <2> QED
    BY <1>3, <2>3, AuditRequest DEF Decide
<1>4. ASSUME NEW c \in Workers, NEW o \in Observations,
             OpenCase(c, o) \/ \E case \in DOMAIN Cases : Link(c, o, case)
      PROVE  AuditInv'
  BY <1>4, AuditOpen DEF OpenCase, Link
<1>5. (\E sy \in Symbols : ListInstrument(sy)) \/ NextDay \/ UNCHANGED vars =>
        UNCHANGED <<row, importer, evidence, request>>
  BY DEF ListInstrument, NextDay, vars
<1> QED
  BY <1>1, <1>2, <1>3, <1>4, <1>5, AuditImport, AuditListRun, AuditSaveResolution,
     AuditSaveAdmission, AuditInsert DEF Next

(* An admitted observation and every piece of evidence keep the audit of   *)
(* the admission, if no run is imported twice at the same time.            *)
THEOREM AdmissionAuditKept == Spec /\ []RunsInTurn => []AdmissionKeepsAudit
<1>1. Init => AuditInv
  BY DEF Init, AuditInv, ListedUnresolved, AdmissionKeepsAudit, Admitted, Owes
<1>2. AdmissionInv /\ AuditInv /\ RunsInTurn /\ [Next]_vars => AuditInv'
  BY AdmissionOK, AuditStep
<1>3. AuditInv => AdmissionKeepsAudit
  BY DEF AuditInv
<1> QED
  BY <1>1, <1>2, <1>3, AdmissionAlways, PTL DEF Spec

(***************************************************************************)
(* The intake the rows of the observations come from, for any processes,   *)
(* packages and deaths.                                                    *)
(*                                                                         *)
(* IntakeInv: what was imported stays known and in the archive of its run; *)
(* a package that nothing can be claimed over (Undisturbed) has one        *)
(* handler, which holds its content; one delivered once is in one place.   *)
(***************************************************************************)

Passes == [phase : {"idle", "directories", "files", "read", "place", "look", "insert", "finish",
                    "compare", "discard", "move"},
           left : SUBSET Names, pkg : Names \union {Nothing},
           got : Contents \union {Malformed, Nothing}, dest : Folders \union {Nothing},
           session : SUBSET Contents, broken : BOOLEAN]

Working == {"read", "place", "look", "insert", "finish", "compare", "discard", "move"}

(* What is or was imported: only ever more. *)
Known == Stored \union lost

(* A once delivered package is in one place. *)
Single(n) ==
  /\ \A f, h \in Folders : at[f][n] # Nothing /\ at[h][n] # Nothing => f = h
  /\ (\E p \in due : p[1] = n) => \A f \in Folders : at[f][n] = Nothing

PlacesInv == \A n \in Names : DeliveredOnce(n) => Single(n)

ArchiveInv == \A r \in RunIds : kept[r] # Nothing => kept[r].run = r

Finishing(w) == w.phase \in {"finish", "compare", "discard", "move"}

(* What a pass relies on, given its state w. *)
PassOK(w) ==
  /\ w.phase = "idle" => w.session = {}
  /\ w.phase \in Working => w.pkg \in Names
  /\ w.phase \in {"place", "look", "insert"} => w.got \in Contents
  /\ w.phase \in {"look", "insert"} => Same(w.got)
  /\ Finishing(w) => w.dest \in {"archive", "failed", "conflict"}
  /\ Finishing(w) /\ w.dest = "archive" =>
       w.got \in Contents /\ Same(w.got) /\ w.got \in Known
  /\ w.phase \in Working /\ Undisturbed(w.pkg) =>
       /\ at["processing"][w.pkg] # Nothing
       /\ w.phase # "read" => w.got = at["processing"][w.pkg]

PassesOK == \A g \in Agents : PassOK(agent[g])

OneHandlerEach ==
  \A g, h \in Agents :
    /\ agent[g].phase \in Working /\ agent[h].phase \in Working
    /\ agent[g].pkg = agent[h].pkg /\ Undisturbed(agent[g].pkg)
    => g = h

IntakeInv == IntakeTypeOK /\ ArchiveInv /\ PlacesInv /\ PassesOK /\ OneHandlerEach /\ StoresAgree

-----------------------------------------------------------------------------
(* Names and places *)

LEMMA SmallestNumber ==
  ASSUME NEW T, T \subseteq Nat, T # {}
  PROVE  \E x \in T : \A y \in T : x <= y
<1> DEFINE R == {p \in Nat \X Nat : p[1] < p[2]}
<1>1. R = OpToRel(<, Nat)
  BY Zenon DEF OpToRel
<1>2. IsWellFoundedOn(R, Nat)
  BY <1>1, NatLessThanWellFounded, Zenon
<1>3. \E x \in T : \A y \in T : ~(<<y, x>> \in R)
  <2> HIDE DEF R
  <2> QED
    BY <1>2, WFMin, Zenon
<1>4. \A x, y \in T : x <= y \/ <<y, x>> \in R
  OBVIOUS
<1> QED
  BY <1>3, <1>4

LEMMA LeastIsLeft ==
  ASSUME IntakeOK, NEW S, S \subseteq Names, S # {}
  PROVE  Least(S) \in S
<1>1. \E n \in S : \A m \in S : n <= m
  BY SmallestNumber DEF IntakeOK
<1> QED
  BY <1>1 DEF Least

LEMMA DeliveredAtOnce ==
  ASSUME NEW n, DeliveredOnce(n), NEW p, NEW q, p[1] = n, q[1] = n
  PROVE  /\ p \in Waiting \union Later /\ q \in Waiting \union Later => p = q
         /\ ~(p \in Waiting /\ q \in Later)
BY DEF DeliveredOnce

(* Every step leaves the archive of a run and what is known of it.         *)
Kept ==
  /\ \A c \in Contents : Same(c) => Same(c)'
  /\ Known \subseteq Known'

(* The places of a package that nothing can be claimed over.               *)
Unmoved(n) == at'["processing"][n] = at["processing"][n]

LEMMA PassKept ==
  ASSUME IntakeInv, Kept, NEW w \in Passes, PassOK(w),
         w.phase \in Working /\ Undisturbed(w.pkg) => Unmoved(w.pkg)
  PROVE  PassOK(w)'
<1>1. w.phase \in {"look", "insert"} => Same(w.got)'
  BY DEF PassOK, Finishing, Kept
<1>2. Finishing(w) /\ w.dest = "archive" =>
        w.got \in Contents /\ Same(w.got)' /\ w.got \in Known'
  BY DEF PassOK, Finishing, Kept
<1>3. w.phase \in Working /\ Undisturbed(w.pkg) =>
        /\ at'["processing"][w.pkg] # Nothing
        /\ w.phase # "read" => w.got = at'["processing"][w.pkg]
  BY DEF PassOK, Finishing, Unmoved
<1>4. Undisturbed(w.pkg)' = Undisturbed(w.pkg)
  BY DEF Undisturbed, DeliveredOnce
<1> QED
  BY <1>1, <1>2, <1>3, <1>4 DEF PassOK, Finishing

(* A step of one pass. *)
LEMMA PassStep ==
  ASSUME IntakeInv, Kept, NEW g \in Agents, NEW u \in Passes, Become(g, u), PassOK(u)',
         \A h \in Agents \ {g} :
           agent[h].phase \in Working /\ Undisturbed(agent[h].pkg) =>
             Unmoved(agent[h].pkg) /\ (u.phase \in Working => u.pkg # agent[h].pkg)
  PROVE  PassesOK' /\ OneHandlerEach' /\ agent' \in [Agents -> Passes]
<1>1. agent \in [Agents -> Passes] /\ agent' = [agent EXCEPT ![g] = u]
  BY DEF IntakeInv, IntakeTypeOK, Passes, Become
<1>2. ASSUME NEW h \in Agents PROVE PassOK(agent[h])'
  <2>1. CASE h = g
    <3>1. agent'[h] = u
      BY <1>1, <2>1
    <3> QED
      BY <3>1
  <2>2. CASE h # g
    <3>1. PICK x \in Passes : x = agent[h]
      BY <1>1
    <3>2. agent'[h] = x
      BY <1>1, <2>2, <3>1
    <3>3. PassOK(x)
      BY <3>1 DEF IntakeInv, PassesOK
    <3>4. PassOK(x)'
      BY <2>2, <3>1, <3>3, PassKept
    <3> QED
      BY <3>2, <3>4
  <2> QED
    BY <2>1, <2>2
<1>3. OneHandlerEach'
  <2> SUFFICES ASSUME NEW h \in Agents, NEW k \in Agents,
                      agent'[h].phase \in Working, agent'[k].phase \in Working,
                      agent'[h].pkg = agent'[k].pkg, Undisturbed(agent'[h].pkg)
               PROVE  h = k
    BY DEF OneHandlerEach, Undisturbed, DeliveredOnce
  <2>1. CASE h # g /\ k # g
    BY <1>1, <2>1 DEF IntakeInv, OneHandlerEach
  <2>2. CASE h = g /\ k # g
    BY <1>1, <2>2
  <2>3. CASE h # g /\ k = g
    BY <1>1, <2>3
  <2> QED
    BY <2>1, <2>2, <2>3
<1> QED
  BY <1>1, <1>2, <1>3 DEF PassesOK

(* A step of one pass that moves no package and commits nothing. *)
LEMMA QuietStep ==
  ASSUME IntakeOK, IntakeInv, NEW g \in Agents, NEW w, w = agent[g],
         NEW u \in Passes, Become(g, u),
         UNCHANGED <<at, due, kept, rows>>,
         lost' \in SUBSET Contents, lost \subseteq lost', deaths' \in 0 .. MaxDeaths,
         w.session \subseteq u.session \union lost', \A c \in u.session : Same(c),
         u.phase \in Working => w.phase \in Working /\ u.pkg = w.pkg,
         PassOK(u) \/ PassOK(u)'
  PROVE  IntakeInv'
<1>1. agent \in [Agents -> Passes] /\ agent' = [agent EXCEPT ![g] = u]
  BY DEF IntakeInv, IntakeTypeOK, Passes, Become
<1>2. Kept
  <2>1. \A c : Same(c)' <=> Same(c)
    BY DEF Same
  <2>2. Known \subseteq Known'
    BY <1>1 DEF Known, Stored
  <2> QED
    BY <2>1, <2>2 DEF Kept
<1>3. PassOK(u)'
  BY <1>2, PassKept DEF Unmoved
<1>4. ASSUME NEW h \in Agents \ {g}, agent[h].phase \in Working, Undisturbed(agent[h].pkg)
      PROVE  Unmoved(agent[h].pkg) /\ (u.phase \in Working => u.pkg # agent[h].pkg)
  BY <1>4 DEF IntakeInv, OneHandlerEach, Unmoved
<1>5. PassesOK' /\ OneHandlerEach' /\ agent' \in [Agents -> Passes]
  BY <1>2, <1>3, <1>4, PassStep
<1>6. IntakeTypeOK'
  BY <1>5 DEF IntakeInv, IntakeTypeOK, Passes
<1>7. ArchiveInv' /\ PlacesInv'
  BY DEF IntakeInv, ArchiveInv, PlacesInv, Single, DeliveredOnce
<1>8. StoresAgree'
  <2>1. \A c \in Stored' : kept[c.run] = c
    BY <1>1 DEF IntakeInv, StoresAgree, Stored, Same
  <2>2. ASSUME NEW n \in Names, Undisturbed(n), at["archive"][n] # Nothing
        PROVE  Same(at["archive"][n]) /\ at["archive"][n] \in Known'
    BY <1>2, <2>2 DEF IntakeInv, StoresAgree, Kept, Known
  <2> QED
    BY <2>1, <2>2 DEF StoresAgree, Undisturbed, DeliveredOnce, Same, Known
<1> QED
  BY <1>5, <1>6, <1>7, <1>8 DEF IntakeInv

LEMMA IdlePass ==
  ASSUME NEW u, u = Idle
  PROVE  u \in Passes /\ u.phase = "idle" /\ u.session = {} /\ u.phase \notin Working /\ PassOK(u)
<1>1. u \in Passes /\ u.phase = "idle" /\ u.session = {}
  BY DEF Idle, Passes
<1> QED
  BY <1>1 DEF Working, PassOK, Finishing

LEMMA PassNow ==
  ASSUME IntakeInv, NEW g \in Agents, NEW w, w = agent[g]
  PROVE  w \in Passes /\ PassOK(w) /\ \A c \in w.session : Same(c)
BY DEF IntakeInv, IntakeTypeOK, Passes, PassesOK, StoresAgree, Stored, Same

LEMMA RollbackStep ==
  ASSUME IntakeOK, IntakeInv, NEW g \in Agents, Rollback(g), UNCHANGED <<at, due, kept, rows>>,
         deaths' \in 0 .. MaxDeaths
  PROVE  IntakeInv'
<1>1. PICK u : u = Idle
  OBVIOUS
<1>2. PICK w : w = agent[g]
  OBVIOUS
<1>3. lost' = lost \union w.session /\ Become(g, u)
  BY <1>1, <1>2 DEF Rollback
<1>4. lost' \in SUBSET Contents
  BY <1>2, <1>3, PassNow DEF IntakeInv, IntakeTypeOK, Passes
<1> QED
  BY <1>1, <1>2, <1>3, <1>4, IdlePass, QuietStep

LEMMA DieStep ==
  ASSUME IntakeOK, IntakeInv, NEW g \in Agents, Die(g)
  PROVE  IntakeInv'
<1>1. deaths' \in 0 .. MaxDeaths
  BY DEF Die, IntakeInv, IntakeTypeOK, IntakeOK
<1> QED
  BY <1>1, RollbackStep DEF Die

-----------------------------------------------------------------------------
(* The pass *)

LEMMA StartStep ==
  ASSUME IntakeOK, IntakeInv, NEW g \in Agents, Start(g)
  PROVE  IntakeInv'
<1>1. PICK w : w = agent[g]
  OBVIOUS
<1>2. PICK u : u = [Idle EXCEPT !.phase = "directories", !.left = Visible(Directories)]
  OBVIOUS
<1>3. u \in Passes /\ u.phase = "directories" /\ u.session = {}
  <2>1. Visible(Directories) \in SUBSET Names
    BY DEF Visible, Names
  <2> QED
    BY <1>2, <2>1 DEF Idle, Passes
<1>4. w.session = {}
  BY <1>1, PassNow DEF Start, Within, PassOK, Finishing
<1>5. PassOK(u) /\ u.phase \notin Working
  BY <1>3 DEF PassOK, Finishing, Working
<1>6. Become(g, u) /\ UNCHANGED <<at, due, kept, rows, lost, deaths>>
  BY <1>2 DEF Start
<1>7. lost \in SUBSET Contents /\ deaths \in 0 .. MaxDeaths
  BY DEF IntakeInv, IntakeTypeOK
<1> QED
  BY <1>1, <1>3, <1>4, <1>5, <1>6, <1>7, QuietStep

LEMMA ListFilesStep ==
  ASSUME IntakeOK, IntakeInv, NEW g \in Agents, ListFiles(g)
  PROVE  IntakeInv'
<1>1. PICK w : w = agent[g]
  OBVIOUS
<1>2. PICK u : u = [w EXCEPT !.phase = "files", !.left = Visible(Files)]
  OBVIOUS
<1>3. u \in Passes /\ u.phase = "files" /\ u.session = w.session
  <2>1. Visible(Files) \in SUBSET Names
    BY DEF Visible, Names
  <2>2. w \in Passes
    BY <1>1, PassNow
  <2> QED
    BY <1>2, <2>1, <2>2 DEF Passes
<1>4. PassOK(u) /\ u.phase \notin Working
  BY <1>3 DEF PassOK, Finishing, Working
<1>5. Become(g, u) /\ UNCHANGED <<at, due, kept, rows, lost, deaths>>
  BY <1>1, <1>2 DEF ListFiles
<1>6. lost \in SUBSET Contents /\ deaths \in 0 .. MaxDeaths
  BY DEF IntakeInv, IntakeTypeOK
<1> QED
  BY <1>1, <1>3, <1>4, <1>5, <1>6, PassNow, QuietStep

(* A pass goes on with the package it has. *)
LEMMA GoesOn ==
  ASSUME IntakeOK, IntakeInv, NEW g \in Agents, NEW w, w = agent[g], w.phase \in Working,
         NEW u \in Passes, Become(g, u), u.session = w.session, u.pkg = w.pkg,
         UNCHANGED <<at, due, kept, rows, lost, deaths>>, PassOK(u)
  PROVE  IntakeInv'
<1>1. lost \in SUBSET Contents /\ deaths \in 0 .. MaxDeaths
  BY DEF IntakeInv, IntakeTypeOK
<1> QED
  BY <1>1, PassNow, QuietStep

LEMMA FinishesShape ==
  ASSUME NEW w \in Passes, NEW f \in {"archive", "failed", "conflict"}, NEW u, u = Finishes(w, f)
  PROVE  /\ u \in Passes /\ u.phase = "finish" /\ u.dest = f /\ u.session = w.session
         /\ u.pkg = w.pkg /\ u.got = w.got
<1>1. f \in Folders
  BY DEF Folders
<1> QED
  BY <1>1 DEF Finishes, Passes

(* An error of the package. *)
LEMMA FailsStep ==
  ASSUME IntakeOK, IntakeInv, NEW g \in Agents, NEW w, w = agent[g], w.phase \in Working \ {"read"},
         NEW f \in {"failed", "conflict"}, Become(g, Finishes(w, f)),
         UNCHANGED <<at, due, kept, rows, lost, deaths>>
  PROVE  IntakeInv'
<1>1. PICK u : u = Finishes(w, f)
  OBVIOUS
<1>2. w \in Passes /\ PassOK(w)
  BY PassNow
<1>3. /\ u \in Passes /\ u.phase = "finish" /\ u.dest = f /\ u.session = w.session
      /\ u.pkg = w.pkg /\ u.got = w.got
  BY <1>1, <1>2, FinishesShape
<1>4. PassOK(u)
  BY <1>2, <1>3 DEF PassOK, Finishing, Working
<1> QED
  BY <1>1, <1>3, <1>4, GoesOn

LEMMA ReadStep ==
  ASSUME IntakeOK, IntakeInv, NEW g \in Agents, Read(g)
  PROVE  IntakeInv'
<1>1. PICK x : x = agent[g]
  OBVIOUS
<1>2. x \in Passes /\ PassOK(x) /\ x.phase = "read" /\ x.phase \in Working
  BY <1>1, PassNow DEF Read, Within, Working
<1>3. x.pkg \in Names
  BY <1>2 DEF PassOK, Finishing
<1>4. PICK c \in Contents \union {Malformed, Nothing} : c = at["processing"][x.pkg]
  BY <1>3 DEF IntakeInv, IntakeTypeOK, Folders
<1>5. PICK w : w = [x EXCEPT !.got = c]
  OBVIOUS
<1>6. w \in Passes /\ w.got = c /\ w.phase = "read" /\ w.session = x.session /\ w.pkg = x.pkg
  BY <1>2, <1>4, <1>5 DEF Passes
<1>7. Undisturbed(x.pkg) => at["processing"][x.pkg] # Nothing /\ c = at["processing"][x.pkg]
  BY <1>2, <1>4 DEF PassOK, Finishing
<1>8. UNCHANGED <<at, due, kept, rows, lost, deaths>>
  BY DEF Read
<1>9. ASSUME NEW f \in {"failed", "conflict"}, Become(g, Finishes(w, f)) PROVE IntakeInv'
  <2>1. PICK u : u = Finishes(w, f)
    OBVIOUS
  <2>2. /\ u \in Passes /\ u.phase = "finish" /\ u.dest = f /\ u.session = w.session
        /\ u.pkg = w.pkg /\ u.got = w.got
    BY <1>6, <2>1, FinishesShape
  <2>3. PassOK(u)
    BY <1>3, <1>6, <1>7, <2>2 DEF PassOK, Finishing
  <2> QED
    BY <1>1, <1>2, <1>6, <1>8, <1>9, <2>1, <2>2, <2>3, GoesOn
<1>10. ASSUME c \in Contents, NEW p \in {"place", "look"}, p = "look" => Same(c),
              Become(g, [w EXCEPT !.phase = p])
       PROVE  IntakeInv'
  <2>1. PICK u : u = [w EXCEPT !.phase = p]
    OBVIOUS
  <2>2. /\ u \in Passes /\ u.phase = p /\ u.session = w.session
        /\ u.pkg = w.pkg /\ u.got = w.got
    BY <1>6, <2>1 DEF Passes
  <2>3. PassOK(u)
    BY <1>3, <1>6, <1>7, <1>10, <2>2 DEF PassOK, Finishing
  <2> QED
    BY <1>1, <1>2, <1>6, <1>8, <1>10, <2>1, <2>2, <2>3, GoesOn
<1>11. CASE c \notin Contents
  <2>1. Become(g, Finishes(w, "failed"))
    BY <1>1, <1>4, <1>5, <1>11 DEF Read
  <2> QED
    BY <1>9, <2>1
<1>12. CASE c \in Contents
  <2>1. Become(g, CASE kept[c.run] = Nothing           -> [w EXCEPT !.phase = "place"]
                    [] Same(c)                      -> [w EXCEPT !.phase = "look"]
                    [] kept[c.run] \notin {Nothing, c} -> Finishes(w, "conflict"))
    BY <1>1, <1>4, <1>5, <1>12 DEF Read
  <2>2. c # Nothing
    BY <1>12 DEF IntakeOK
  <2>3. CASE kept[c.run] = Nothing
    <3>1. Become(g, [w EXCEPT !.phase = "place"])
      BY <2>1, <2>2, <2>3 DEF Same
    <3> QED
      BY <1>10, <1>12, <3>1
  <2>4. CASE Same(c)
    <3>1. Become(g, [w EXCEPT !.phase = "look"])
      BY <2>1, <2>2, <2>4 DEF Same
    <3> QED
      BY <1>10, <1>12, <2>4, <3>1
  <2>5. CASE kept[c.run] \notin {Nothing, c}
    <3>1. Become(g, Finishes(w, "conflict"))
      BY <2>1, <2>5 DEF Same
    <3> QED
      BY <1>9, <3>1
  <2> QED
    BY <2>3, <2>4, <2>5 DEF Same
<1> QED
  BY <1>11, <1>12

(* The first content of a run is archived, and never replaced. *)
LEMMA PlaceStep ==
  ASSUME IntakeOK, IntakeInv, NEW g \in Agents, Place(g)
  PROVE  IntakeInv'
<1>1. PICK w : w = agent[g]
  OBVIOUS
<1>2. w \in Passes /\ PassOK(w) /\ w.phase = "place" /\ w.phase \in Working \ {"read"}
  BY <1>1, PassNow DEF Place, Within, Working
<1>3. PICK c \in Contents : c = w.got
  BY <1>2 DEF PassOK, Finishing
<1>4. c.run \in RunIds
  BY DEF RunIds
<1>5. CASE kept[c.run] # Nothing
  <2>1. Become(g, Finishes(w, "failed")) /\ UNCHANGED <<at, due, kept, rows, lost, deaths>>
    BY <1>1, <1>3, <1>5 DEF Place
  <2> QED
    BY <1>1, <1>2, <2>1, FailsStep
<1>6. CASE kept[c.run] = Nothing
  <2>1. PICK u : u = [w EXCEPT !.phase = "look"]
    OBVIOUS
  <2>2. kept' = [kept EXCEPT ![c.run] = c] /\ Become(g, u)
        /\ UNCHANGED <<at, due, rows, lost, deaths>>
    BY <1>1, <1>3, <1>6, <2>1 DEF Place, GoTo
  <2>3. u \in Passes /\ u.phase = "look" /\ u.got = c /\ u.session = w.session /\ u.pkg = w.pkg
    BY <1>2, <1>3, <2>1 DEF Passes
  <2>4. kept \in [RunIds -> Contents \union {Nothing}] /\ agent \in [Agents -> Passes]
        /\ agent' = [agent EXCEPT ![g] = u]
    BY <2>2 DEF IntakeInv, IntakeTypeOK, Passes, Become
  <2>5. kept' \in [RunIds -> Contents \union {Nothing}] /\ kept'[c.run] = c
        /\ \A r \in RunIds \ {c.run} : kept'[r] = kept[r]
    BY <1>4, <2>2, <2>4
  <2>6. ASSUME NEW d \in Contents, Same(d) PROVE Same(d)'
    <3>1. d.run \in RunIds /\ d # Nothing
      BY DEF RunIds, IntakeOK
    <3>2. d.run # c.run
      BY <1>6, <2>6, <3>1 DEF Same
    <3> QED
      BY <2>5, <2>6, <3>1, <3>2 DEF Same
  <2>7. Kept
    <3>1. Known \subseteq Known'
      BY <1>1, <2>2, <2>3, <2>4 DEF Known, Stored
    <3> QED
      BY <2>6, <3>1 DEF Kept
  <2>8. PassOK(u)'
    <3>1. Same(c)'
      BY <2>5 DEF Same
    <3>2. Undisturbed(w.pkg)' = Undisturbed(w.pkg)
      BY DEF Undisturbed, DeliveredOnce
    <3> QED
      BY <1>2, <1>3, <2>2, <2>3, <3>1, <3>2 DEF PassOK, Finishing
  <2>9. ASSUME NEW h \in Agents \ {g}, agent[h].phase \in Working, Undisturbed(agent[h].pkg)
        PROVE  Unmoved(agent[h].pkg) /\ (u.phase \in Working => u.pkg # agent[h].pkg)
    BY <1>1, <1>2, <2>2, <2>3, <2>9 DEF IntakeInv, OneHandlerEach, Unmoved
  <2>10. PassesOK' /\ OneHandlerEach' /\ agent' \in [Agents -> Passes]
    BY <2>2, <2>3, <2>7, <2>8, <2>9, PassStep
  <2>11. IntakeTypeOK'
    BY <2>2, <2>5, <2>10 DEF IntakeInv, IntakeTypeOK, Passes
  <2>12. ArchiveInv'
    BY <2>5 DEF IntakeInv, ArchiveInv
  <2>13. PlacesInv'
    BY <2>2 DEF IntakeInv, PlacesInv, Single, DeliveredOnce
  <2>14. StoresAgree'
    <3>1. Stored' = Stored /\ Stored \subseteq Contents
      BY <1>1, <2>2, <2>3, <2>4 DEF Stored, IntakeInv, IntakeTypeOK, Passes
    <3>2. \A d \in Stored' : Same(d)'
      BY <2>6, <3>1 DEF IntakeInv, StoresAgree, Same
    <3>3. ASSUME NEW n \in Names, Undisturbed(n), at["archive"][n] # Nothing
          PROVE  Same(at["archive"][n])' /\ at["archive"][n] \in Stored' \union lost'
      <4>1. at["archive"][n] \in Stored \union lost /\ Same(at["archive"][n])
        BY <3>3 DEF IntakeInv, StoresAgree
      <4>2. at["archive"][n] \in Contents
        BY <3>1, <4>1 DEF IntakeInv, IntakeTypeOK
      <4>3. PICK d \in Contents : d = at["archive"][n]
        BY <4>2
      <4>4. Same(d)' /\ at' = at
        BY <2>2, <2>6, <4>1, <4>3
      <4> QED
        BY <2>2, <3>1, <4>1, <4>3, <4>4 DEF Same
    <3> QED
      BY <2>2, <3>2, <3>3 DEF StoresAgree, Undisturbed, DeliveredOnce, Same
  <2> QED
    BY <2>10, <2>11, <2>12, <2>13, <2>14 DEF IntakeInv
<1> QED
  BY <1>5, <1>6

(* A package whose run is stored already was imported from this content. *)
LEMMA LookStep ==
  ASSUME IntakeOK, IntakeInv, NEW g \in Agents, Look(g)
  PROVE  IntakeInv'
<1>1. PICK w : w = agent[g]
  OBVIOUS
<1>2. w \in Passes /\ PassOK(w) /\ w.phase = "look" /\ w.phase \in Working \ {"read"}
  BY <1>1, PassNow DEF Look, Within, Working
<1>3. w.got \in Contents /\ Same(w.got)
  BY <1>2 DEF PassOK, Finishing
<1>4. UNCHANGED <<at, due, kept, rows, lost, deaths>>
  BY DEF Look
<1>5. CASE w.broken
  <2>1. Become(g, Finishes(w, "failed"))
    BY <1>1, <1>5 DEF Look
  <2> QED
    BY <1>1, <1>2, <1>4, <2>1, FailsStep
<1>6. CASE ~w.broken /\ w.got.run \in Seen(g)
  <2>1. PICK u : u = Finishes(w, "archive")
    OBVIOUS
  <2>2. Become(g, u)
    BY <1>1, <1>6, <2>1 DEF Look
  <2>3. /\ u \in Passes /\ u.phase = "finish" /\ u.dest = "archive" /\ u.session = w.session
        /\ u.pkg = w.pkg /\ u.got = w.got
    BY <1>2, <2>1, FinishesShape
  <2>4. PICK c \in rows \union w.session : c.run = w.got.run
    BY <1>1, <1>6 DEF Seen
  <2>5. c \in Stored /\ kept[c.run] = c
    BY <1>1, <2>4 DEF Stored, IntakeInv, StoresAgree
  <2>6. w.got = c
    BY <1>3, <2>4, <2>5 DEF Same
  <2>7. PassOK(u)
    BY <1>2, <1>3, <2>3, <2>5, <2>6 DEF PassOK, Finishing, Known
  <2> QED
    BY <1>1, <1>2, <1>4, <2>2, <2>3, <2>7, GoesOn
<1>7. CASE ~w.broken /\ w.got.run \notin Seen(g)
  <2>1. PICK u : u = [w EXCEPT !.phase = "insert"]
    OBVIOUS
  <2>2. Become(g, u)
    BY <1>1, <1>7, <2>1 DEF Look
  <2>3. u \in Passes /\ u.phase = "insert" /\ u.session = w.session /\ u.pkg = w.pkg
        /\ u.got = w.got
    BY <1>2, <2>1 DEF Passes
  <2>4. PassOK(u)
    BY <1>2, <1>3, <2>3 DEF PassOK, Finishing, Working
  <2> QED
    BY <1>1, <1>2, <1>4, <2>2, <2>3, <2>4, GoesOn
<1> QED
  BY <1>5, <1>6, <1>7

LEMMA InsertStep ==
  ASSUME IntakeOK, IntakeInv, NEW g \in Agents, Insert(g)
  PROVE  IntakeInv'
<1>1. PICK w : w = agent[g]
  OBVIOUS
<1>2. w \in Passes /\ PassOK(w) /\ w.phase = "insert" /\ w.phase \in Working
      /\ w.session \subseteq Contents /\ lost \subseteq Contents
  BY <1>1, PassNow DEF Insert, Within, Working, Passes, IntakeInv, IntakeTypeOK
<1>3. w.got \in Contents /\ Same(w.got)
  BY <1>2 DEF PassOK, Finishing
<1>4. UNCHANGED <<at, due, kept, rows, deaths>> /\ deaths' \in 0 .. MaxDeaths
  BY DEF Insert, IntakeInv, IntakeTypeOK
<1>5. agent \in [Agents -> Passes]
  BY DEF IntakeInv, IntakeTypeOK, Passes
<1>6. lost' \in SUBSET Contents /\ lost \subseteq lost'
      /\ (agent'[g].broken => w.session \subseteq lost')
  BY <1>1, <1>2 DEF Insert
<1>7. PICK ok : ok = [w EXCEPT !.session = w.session \union {w.got}]
  OBVIOUS
<1>8. ok \in Passes /\ ok.session = w.session \union {w.got} /\ ok.pkg = w.pkg /\ ok.got = w.got
  BY <1>2, <1>3, <1>7 DEF Passes
<1>9. PICK bad : bad = [w EXCEPT !.session = {}, !.broken = TRUE]
  OBVIOUS
<1>10. bad \in Passes /\ bad.session = {} /\ bad.broken /\ bad.pkg = w.pkg /\ bad.got = w.got
  BY <1>2, <1>9 DEF Passes
<1>11. Become(g, Finishes(ok, "archive")) \/ Become(g, Finishes(bad, "failed"))
  BY <1>1, <1>3, <1>7, <1>9 DEF Insert, Same
<1>12. CASE Become(g, Finishes(ok, "archive"))
  <2>1. PICK u : u = Finishes(ok, "archive")
    OBVIOUS
  <2>2. /\ u \in Passes /\ u.phase = "finish" /\ u.dest = "archive" /\ u.session = ok.session
        /\ u.pkg = w.pkg /\ u.got = w.got
    BY <1>8, <2>1, FinishesShape
  <2>3. Become(g, u) /\ agent' = [agent EXCEPT ![g] = u]
    BY <1>12, <2>1 DEF Become
  <2>4. w.got \in Known' /\ Same(w.got)'
    <3>1. agent'[g] = u
      BY <1>5, <2>3
    <3>2. w.got \in Stored'
      BY <1>8, <2>2, <3>1 DEF Stored
    <3> QED
      BY <1>3, <1>4, <3>2 DEF Known, Same
  <2>5. PassOK(u)'
    <3>1. Undisturbed(w.pkg)' = Undisturbed(w.pkg)
      BY DEF Undisturbed, DeliveredOnce
    <3> QED
      BY <1>2, <1>3, <1>4, <2>2, <2>4, <3>1 DEF PassOK, Finishing
  <2>6. w.session \subseteq u.session \union lost' /\ \A c \in u.session : Same(c)
    BY <1>1, <1>3, <1>8, <2>2, PassNow
  <2> QED
    BY <1>1, <1>2, <1>4, <1>6, <2>2, <2>3, <2>5, <2>6, QuietStep
<1>13. CASE Become(g, Finishes(bad, "failed"))
  <2>1. PICK u : u = Finishes(bad, "failed")
    OBVIOUS
  <2>2. /\ u \in Passes /\ u.phase = "finish" /\ u.dest = "failed" /\ u.session = {}
        /\ u.pkg = w.pkg /\ u.got = w.got
    BY <1>10, <2>1, FinishesShape
  <2>3. Become(g, u) /\ agent' = [agent EXCEPT ![g] = u]
    BY <1>13, <2>1 DEF Become
  <2>4. w.session \subseteq lost'
    <3>1. agent'[g] = u
      BY <1>5, <2>3
    <3>2. agent'[g].broken
      BY <1>9, <2>1, <3>1 DEF Finishes
    <3> QED
      BY <1>6, <3>2
  <2>5. PassOK(u)
    BY <1>2, <2>2 DEF PassOK, Finishing, Working
  <2> QED
    BY <1>1, <1>2, <1>4, <1>6, <2>2, <2>3, <2>4, <2>5, QuietStep
<1> QED
  BY <1>11, <1>12, <1>13

-----------------------------------------------------------------------------
(* Packages that move *)

LEMMA MoveShape ==
  ASSUME IntakeTypeOK, NEW n \in Names, NEW f \in Folders, NEW h \in Folders, f # h, Move(n, f, h)
  PROVE  /\ at' \in [Folders -> [Names -> Contents \union {Malformed, Nothing}]]
         /\ at'[f][n] = Nothing /\ at'[h][n] = at[f][n]
         /\ \A k \in Folders, m \in Names : (m # n \/ k \notin {f, h}) => at'[k][m] = at[k][m]
<1>1. PICK b : b = [at EXCEPT ![f][n] = Nothing]
  OBVIOUS
<1>2. PICK c \in Contents \union {Malformed, Nothing} : c = at[f][n]
  BY DEF IntakeTypeOK
<1>3. /\ b \in [Folders -> [Names -> Contents \union {Malformed, Nothing}]]
      /\ b[f][n] = Nothing
      /\ \A k \in Folders, m \in Names : (m # n \/ k # f) => b[k][m] = at[k][m]
  BY <1>1 DEF IntakeTypeOK
<1>4. at' = [b EXCEPT ![h][n] = c]
  BY <1>1, <1>2 DEF Move
<1>5. /\ at' \in [Folders -> [Names -> Contents \union {Malformed, Nothing}]]
      /\ at'[h][n] = c
      /\ \A k \in Folders, m \in Names : (m # n \/ k # h) => at'[k][m] = b[k][m]
  BY <1>3, <1>4
<1> QED
  BY <1>2, <1>3, <1>5

(* A package that moves from its one place is in one place again. *)
LEMMA MoveKeepsPlaces ==
  ASSUME IntakeInv, NEW n \in Names, NEW f \in Folders, NEW h \in Folders, f # h,
         Move(n, f, h), at[f][n] # Nothing, due' = due
  PROVE  PlacesInv'
<1>1. /\ at'[f][n] = Nothing /\ at'[h][n] = at[f][n]
      /\ \A k \in Folders, m \in Names : (m # n \/ k \notin {f, h}) => at'[k][m] = at[k][m]
  BY MoveShape DEF IntakeInv
<1> SUFFICES ASSUME NEW m \in Names, DeliveredOnce(m) PROVE Single(m)'
  BY DEF PlacesInv, DeliveredOnce
<1>2. Single(m)
  BY DEF IntakeInv, PlacesInv
<1>3. CASE m # n
  BY <1>1, <1>2, <1>3 DEF Single
<1>4. CASE m = n
  <2>1. \A k \in Folders : at[k][n] # Nothing => k = f
    BY <1>2, <1>4 DEF Single
  <2>2. \A k \in Folders : at'[k][n] # Nothing => k = h
    BY <1>1, <2>1
  <2>3. ~ \E p \in due' : p[1] = n
    BY <1>2, <1>4 DEF Single
  <2> QED
    BY <1>4, <2>2, <2>3 DEF Single
<1> QED
  BY <1>3, <1>4

(* Who works on a package that cannot be claimed over keeps it alone. *)
LEMMA OthersElsewhere ==
  ASSUME IntakeInv, NEW g \in Agents, NEW h \in Agents \ {g},
         agent[h].phase \in Working, Undisturbed(agent[h].pkg),
         NEW n \in Names, NEW f \in Folders,
         \/ /\ f # "processing" /\ at[f][n] # Nothing
            /\ n \in Directories => at["processing"][n] = Nothing
         \/ agent[g].phase \in Working /\ n = agent[g].pkg
  PROVE  agent[h].pkg # n
<1> SUFFICES ASSUME agent[h].pkg = n PROVE FALSE
  OBVIOUS
<1>1. PassOK(agent[h])
  BY PassNow
<1>2. at["processing"][n] # Nothing
  BY <1>1 DEF PassOK, Finishing
<1>3. CASE agent[g].phase \in Working /\ n = agent[g].pkg
  BY <1>3 DEF IntakeInv, OneHandlerEach
<1>4. CASE /\ f # "processing" /\ at[f][n] # Nothing
           /\ n \in Directories => at["processing"][n] = Nothing
  <2>1. DeliveredOnce(n)
    BY <1>2, <1>4 DEF Undisturbed
  <2>2. Single(n)
    BY <2>1 DEF IntakeInv, PlacesInv
  <2> QED
    BY <1>2, <1>4, <2>2 DEF Single, Folders
<1> QED
  BY <1>3, <1>4

LEMMA ClaimStep ==
  ASSUME IntakeOK, IntakeInv, NEW g \in Agents, Claim(g)
  PROVE  IntakeInv'
<1>1. PICK x : x = agent[g]
  OBVIOUS
<1>2. x \in Passes /\ PassOK(x) /\ x.phase \in {"directories", "files"} /\ x.left # {}
      /\ \A c \in x.session : Same(c)
  BY <1>1, PassNow DEF Claim
<1>3. PICK n \in x.left : n = Least(x.left)
  BY <1>2, LeastIsLeft DEF Passes
<1>4. n \in Names
  BY <1>2, <1>3 DEF Passes
<1>5. PICK w : w = [x EXCEPT !.left = x.left \ {n}]
  OBVIOUS
<1>6. w \in Passes /\ w.phase = x.phase /\ w.session = x.session
  BY <1>2, <1>5 DEF Passes
<1>7. UNCHANGED <<due, kept, rows, deaths>> /\ deaths' \in 0 .. MaxDeaths
      /\ lost \subseteq Contents
  BY DEF Claim, IntakeInv, IntakeTypeOK
<1>8. CASE Become(g, w) /\ UNCHANGED <<at, lost>>
  <2>1. PassOK(w) /\ w.phase \notin Working
    BY <1>2, <1>6 DEF PassOK, Finishing, Working
  <2> QED
    BY <1>1, <1>2, <1>6, <1>7, <1>8, <2>1, QuietStep
<1>9. CASE Rollback(g) /\ UNCHANGED at
  BY <1>7, <1>9, RollbackStep
<1>10. CASE /\ at["results"][n] # Nothing
            /\ n \in Files \/ at["processing"][n] = Nothing
            /\ Move(n, "results", "processing")
            /\ Become(g, [w EXCEPT !.phase = "read", !.pkg = n])
            /\ UNCHANGED lost
  <2>1. PICK u : u = [w EXCEPT !.phase = "read", !.pkg = n]
    OBVIOUS
  <2>2. u \in Passes /\ u.phase = "read" /\ u.pkg = n /\ u.session = x.session
    BY <1>4, <1>6, <2>1 DEF Passes
  <2>3. "results" \in Folders /\ "processing" \in Folders /\ "archive" \in Folders
    BY DEF Folders
  <2>4. /\ at' \in [Folders -> [Names -> Contents \union {Malformed, Nothing}]]
        /\ at'["processing"][n] = at["results"][n]
        /\ \A k \in Folders, m \in Names :
             (m # n \/ k \notin {"results", "processing"}) => at'[k][m] = at[k][m]
    BY <1>4, <1>10, <2>3, MoveShape DEF IntakeInv
  <2>5. n \in Directories => at["processing"][n] = Nothing
    BY <1>10 DEF IntakeOK
  <2>6. ASSUME NEW h \in Agents \ {g}, agent[h].phase \in Working, Undisturbed(agent[h].pkg)
        PROVE  Unmoved(agent[h].pkg) /\ (u.phase \in Working => u.pkg # agent[h].pkg)
    <3>1. agent[h].pkg \in Names
      BY <2>6, PassNow DEF PassOK, Finishing
    <3>2. agent[h].pkg # n
      BY <1>4, <1>10, <2>3, <2>5, <2>6, OthersElsewhere
    <3> QED
      BY <2>2, <2>3, <2>4, <3>1, <3>2 DEF Unmoved
  <2>7. agent \in [Agents -> Passes] /\ Become(g, u) /\ agent' = [agent EXCEPT ![g] = u]
    BY <1>10, <2>1 DEF IntakeInv, IntakeTypeOK, Passes, Become
  <2>8. Stored' = Stored
    BY <1>1, <1>7, <2>2, <2>7 DEF Stored
  <2>9. Kept
    BY <1>7, <1>10, <2>8 DEF Kept, Known, Same
  <2>10. PassOK(u)'
    BY <1>4, <1>10, <2>2, <2>4 DEF PassOK, Finishing, Undisturbed, DeliveredOnce
  <2>11. PassesOK' /\ OneHandlerEach' /\ agent' \in [Agents -> Passes]
    BY <2>2, <2>6, <2>7, <2>9, <2>10, PassStep
  <2>12. IntakeTypeOK'
    BY <1>7, <1>10, <2>4, <2>11 DEF IntakeInv, IntakeTypeOK, Passes
  <2>13. PlacesInv'
    BY <1>4, <1>7, <1>10, <2>3, MoveKeepsPlaces
  <2>14. \A m \in Names : at'["archive"][m] = at["archive"][m]
    BY <2>3, <2>4
  <2>15. StoresAgree'
    BY <1>7, <1>10, <2>8, <2>14 DEF IntakeInv, StoresAgree, Same, Undisturbed, DeliveredOnce
  <2> QED
    BY <1>7, <2>11, <2>12, <2>13, <2>15 DEF IntakeInv, ArchiveInv
<1> QED
  BY <1>1, <1>3, <1>5, <1>8, <1>9, <1>10 DEF Claim

(* An error while a package is finished. *)
LEMMA FailsGoesOn ==
  ASSUME IntakeOK, IntakeInv, NEW g \in Agents, Finishing(agent[g]), Fails(g),
         UNCHANGED <<at, due, kept, rows, deaths>>
  PROVE  IntakeInv'
<1>1. PICK w : w = agent[g]
  OBVIOUS
<1>2. w.phase \in Working \ {"read"}
  BY <1>1 DEF Finishing, Working
<1>3. CASE Become(g, Finishes(w, "failed")) /\ UNCHANGED lost
  BY <1>1, <1>2, <1>3, FailsStep
<1>4. CASE Rollback(g)
  <2>1. deaths' \in 0 .. MaxDeaths
    BY DEF IntakeInv, IntakeTypeOK
  <2> QED
    BY <1>4, <2>1, RollbackStep
<1> QED
  BY <1>1, <1>3, <1>4 DEF Fails

(* A package is being finished: the pass takes the next step of it. *)
LEMMA FinishingGoesOn ==
  ASSUME IntakeOK, IntakeInv, NEW g \in Agents, Finishing(agent[g]),
         NEW p \in {"compare", "discard", "move"}, GoTo(g, p),
         UNCHANGED <<at, due, kept, rows, lost, deaths>>
  PROVE  IntakeInv'
<1>1. PICK w : w = agent[g]
  OBVIOUS
<1>2. w \in Passes /\ PassOK(w) /\ Finishing(w) /\ w.phase \in Working /\ w.phase # "read"
  BY <1>1, PassNow DEF Finishing, Working
<1>3. PICK u : u = [w EXCEPT !.phase = p]
  OBVIOUS
<1>4. /\ u \in Passes /\ u.phase = p /\ u.session = w.session /\ u.pkg = w.pkg
      /\ u.got = w.got /\ u.dest = w.dest
  BY <1>2, <1>3 DEF Passes
<1>5. PassOK(u)
  BY <1>2, <1>4 DEF PassOK, Finishing
<1>6. Become(g, u)
  BY <1>1, <1>3 DEF GoTo
<1> QED
  BY <1>1, <1>2, <1>4, <1>5, <1>6, GoesOn

LEMMA FinishStep ==
  ASSUME IntakeOK, IntakeInv, NEW g \in Agents, Finish(g)
  PROVE  IntakeInv'
<1>1. Finishing(agent[g])
  BY DEF Finish, Within, Finishing
<1>2. PICK p \in {"compare", "discard", "move"} : GoTo(g, p)
  BY DEF Finish
<1> QED
  BY <1>1, <1>2, FinishingGoesOn DEF Finish

LEMMA CompareStep ==
  ASSUME IntakeOK, IntakeInv, NEW g \in Agents, Compare(g)
  PROVE  IntakeInv'
<1>1. Finishing(agent[g])
  BY DEF Compare, Within, Finishing
<1>2. CASE GoTo(g, "discard") /\ UNCHANGED lost
  BY <1>1, <1>2, FinishingGoesOn DEF Compare
<1>3. CASE Fails(g)
  BY <1>1, <1>3, FailsGoesOn DEF Compare
<1> QED
  BY <1>2, <1>3 DEF Compare

(* The claimed package is deleted. *)
LEMMA DiscardStep ==
  ASSUME IntakeOK, IntakeInv, NEW g \in Agents, Discard(g)
  PROVE  IntakeInv'
<1>1. PICK w : w = agent[g]
  OBVIOUS
<1>2. w \in Passes /\ PassOK(w) /\ w.phase = "discard" /\ w.phase \in Working \ {"read"}
      /\ \A c \in w.session : Same(c)
  BY <1>1, PassNow DEF Discard, Within, Working
<1>3. PICK n \in Names : n = w.pkg
  BY <1>2 DEF PassOK, Finishing
<1>4. PICK f \in {"archive", "failed", "conflict"} : f = w.dest
  BY <1>2 DEF PassOK, Finishing
<1>5. f \in Folders /\ "processing" \in Folders /\ "archive" \in Folders /\ f # "processing"
  BY <1>4 DEF Folders
<1>6. UNCHANGED <<due, kept, rows, deaths>> /\ deaths' \in 0 .. MaxDeaths
      /\ lost \subseteq Contents
  BY DEF Discard, IntakeInv, IntakeTypeOK
<1>7. agent \in [Agents -> Passes]
  BY DEF IntakeInv, IntakeTypeOK, Passes
<1>8. PICK u : u = Resumed(w)
  OBVIOUS
<1>9. u \in Passes /\ u.phase \notin Working /\ u.session = w.session /\ PassOK(u)
  <2>1. u \in Passes /\ u.phase \in {"directories", "files"} /\ u.session = w.session
    BY <1>2, <1>8 DEF Resumed, Passes
  <2> QED
    BY <2>1 DEF PassOK, Finishing, Working
<1>10. ASSUME NEW h \in Agents \ {g}, agent[h].phase \in Working, Undisturbed(agent[h].pkg)
       PROVE  agent[h].pkg # n /\ agent[h].pkg \in Names
  <2>1. agent[h].pkg \in Names
    BY <1>10, PassNow DEF PassOK, Finishing
  <2> QED
    BY <1>1, <1>2, <1>3, <1>5, <1>10, <2>1, OthersElsewhere
<1>11. CASE Store(n, "processing", Nothing) /\ Become(g, u) /\ UNCHANGED lost
  <2>1. /\ at' \in [Folders -> [Names -> Contents \union {Malformed, Nothing}]]
        /\ at'["processing"][n] = Nothing
        /\ \A k \in Folders, m \in Names :
             (m # n \/ k # "processing") => at'[k][m] = at[k][m]
    BY <1>5, <1>11 DEF Store, IntakeInv, IntakeTypeOK
  <2>2. ASSUME NEW h \in Agents \ {g}, agent[h].phase \in Working, Undisturbed(agent[h].pkg)
        PROVE  Unmoved(agent[h].pkg) /\ (u.phase \in Working => u.pkg # agent[h].pkg)
    BY <1>5, <1>9, <1>10, <2>1, <2>2 DEF Unmoved
  <2>3. agent' = [agent EXCEPT ![g] = u]
    BY <1>11 DEF Become
  <2>4. Stored' = Stored
    BY <1>1, <1>6, <1>7, <1>9, <2>3 DEF Stored
  <2>5. Kept
    BY <1>6, <1>11, <2>4 DEF Kept, Known, Same
  <2>6. PassOK(u)'
    BY <1>9, <2>5, PassKept
  <2>7. PassesOK' /\ OneHandlerEach' /\ agent' \in [Agents -> Passes]
    BY <1>9, <1>11, <2>2, <2>5, <2>6, PassStep
  <2>8. IntakeTypeOK'
    BY <1>6, <1>11, <2>1, <2>7 DEF IntakeInv, IntakeTypeOK, Passes
  <2>9. PlacesInv'
    <3> SUFFICES ASSUME NEW m \in Names, DeliveredOnce(m) PROVE Single(m)'
      BY DEF PlacesInv, DeliveredOnce
    <3>1. Single(m)
      BY DEF IntakeInv, PlacesInv
    <3>2. \A k \in Folders : at'[k][m] # Nothing => at[k][m] # Nothing
      BY <2>1
    <3>3. (\E p \in due' : p[1] = m) => \A k \in Folders : at'[k][m] = Nothing
      BY <1>6, <3>1, <3>2 DEF Single
    <3> QED
      BY <3>1, <3>2, <3>3 DEF Single
  <2>10. \A m \in Names : at'["archive"][m] = at["archive"][m]
    BY <1>5, <2>1
  <2>11. StoresAgree'
    BY <1>6, <1>11, <2>4, <2>10 DEF IntakeInv, StoresAgree, Same, Undisturbed, DeliveredOnce
  <2> QED
    BY <1>6, <2>7, <2>8, <2>9, <2>11 DEF IntakeInv, ArchiveInv
<1>12. CASE Fails(g) /\ UNCHANGED at
  BY <1>1, <1>2, <1>6, <1>12, FailsGoesOn DEF Finishing
<1> QED
  BY <1>1, <1>3, <1>8, <1>11, <1>12 DEF Discard

(* What is moved to archive/ is what was read, if nothing can have been    *)
(* claimed over it.                                                        *)
LEMMA MoveAwayStep ==
  ASSUME IntakeOK, IntakeInv, NEW g \in Agents, MoveAway(g)
  PROVE  IntakeInv'
<1>1. PICK w : w = agent[g]
  OBVIOUS
<1>2. w \in Passes /\ PassOK(w) /\ w.phase = "move" /\ w.phase \in Working \ {"read"}
      /\ \A c \in w.session : Same(c)
  BY <1>1, PassNow DEF MoveAway, Within, Working
<1>3. PICK n \in Names : n = w.pkg
  BY <1>2 DEF PassOK, Finishing
<1>4. PICK f \in {"archive", "failed", "conflict"} : f = w.dest
  BY <1>2 DEF PassOK, Finishing
<1>5. f \in Folders /\ "processing" \in Folders /\ "archive" \in Folders /\ f # "processing"
  BY <1>4 DEF Folders
<1>6. UNCHANGED <<due, kept, rows, deaths>> /\ deaths' \in 0 .. MaxDeaths
      /\ lost \subseteq Contents
  BY DEF MoveAway, IntakeInv, IntakeTypeOK
<1>7. agent \in [Agents -> Passes]
  BY DEF IntakeInv, IntakeTypeOK, Passes
<1>8. PICK u : u = Resumed(w)
  OBVIOUS
<1>9. u \in Passes /\ u.phase \notin Working /\ u.session = w.session /\ PassOK(u)
  <2>1. u \in Passes /\ u.phase \in {"directories", "files"} /\ u.session = w.session
    BY <1>2, <1>8 DEF Resumed, Passes
  <2> QED
    BY <2>1 DEF PassOK, Finishing, Working
<1>10. ASSUME NEW h \in Agents \ {g}, agent[h].phase \in Working, Undisturbed(agent[h].pkg)
       PROVE  agent[h].pkg # n /\ agent[h].pkg \in Names
  <2>1. agent[h].pkg \in Names
    BY <1>10, PassNow DEF PassOK, Finishing
  <2> QED
    BY <1>1, <1>2, <1>3, <1>5, <1>10, <2>1, OthersElsewhere
<1>11. CASE /\ at["processing"][n] # Nothing /\ Move(n, "processing", f)
            /\ Become(g, u) /\ UNCHANGED lost
  <2>1. /\ at' \in [Folders -> [Names -> Contents \union {Malformed, Nothing}]]
        /\ at'[f][n] = at["processing"][n]
        /\ \A k \in Folders, m \in Names :
             (m # n \/ k \notin {"processing", f}) => at'[k][m] = at[k][m]
    BY <1>5, <1>11, MoveShape DEF IntakeInv
  <2>2. ASSUME NEW h \in Agents \ {g}, agent[h].phase \in Working, Undisturbed(agent[h].pkg)
        PROVE  Unmoved(agent[h].pkg) /\ (u.phase \in Working => u.pkg # agent[h].pkg)
    BY <1>5, <1>9, <1>10, <2>1, <2>2 DEF Unmoved
  <2>3. agent' = [agent EXCEPT ![g] = u]
    BY <1>11 DEF Become
  <2>4. Stored' = Stored
    BY <1>1, <1>6, <1>7, <1>9, <2>3 DEF Stored
  <2>5. Kept
    BY <1>6, <1>11, <2>4 DEF Kept, Known, Same
  <2>6. PassOK(u)'
    BY <1>9, <2>5, PassKept
  <2>7. PassesOK' /\ OneHandlerEach' /\ agent' \in [Agents -> Passes]
    BY <1>9, <1>11, <2>2, <2>5, <2>6, PassStep
  <2>8. IntakeTypeOK'
    BY <1>6, <1>11, <2>1, <2>7 DEF IntakeInv, IntakeTypeOK, Passes
  <2>9. PlacesInv'
    BY <1>5, <1>6, <1>11, MoveKeepsPlaces
  <2>10. ASSUME NEW m \in Names, Undisturbed(m), at'["archive"][m] # Nothing
         PROVE  /\ kept[at'["archive"][m].run] = at'["archive"][m]
                /\ at'["archive"][m] \in Stored \union lost
    <3>1. CASE m = n /\ f = "archive"
      <4>1. at'["archive"][m] = w.got
        BY <1>2, <1>3, <2>1, <2>10, <3>1 DEF PassOK, Finishing
      <4>2. Same(w.got) /\ w.got \in Known
        BY <1>2, <1>4, <3>1 DEF PassOK, Finishing
      <4> QED
        BY <4>1, <4>2 DEF Same, Known
    <3>2. CASE m # n \/ f # "archive"
      <4>1. at'["archive"][m] = at["archive"][m]
        BY <1>5, <2>1, <3>2
      <4> QED
        BY <2>10, <4>1 DEF IntakeInv, StoresAgree, Same
    <3> QED
      BY <3>1, <3>2
  <2>11. StoresAgree'
    BY <1>6, <1>11, <2>4, <2>10 DEF IntakeInv, StoresAgree, Same, Undisturbed, DeliveredOnce
  <2> QED
    BY <1>6, <2>7, <2>8, <2>9, <2>11 DEF IntakeInv, ArchiveInv
<1>12. CASE Fails(g) /\ UNCHANGED at
  BY <1>1, <1>2, <1>6, <1>12, FailsGoesOn DEF Finishing
<1> QED
  BY <1>1, <1>3, <1>4, <1>8, <1>11, <1>12 DEF MoveAway

(* The rows of a pass are committed: they only change hands. *)
LEMMA CommitStep ==
  ASSUME IntakeOK, IntakeInv, NEW g \in Agents, Commit(g)
  PROVE  IntakeInv'
<1>1. PICK u : u = Idle
  OBVIOUS
<1>2. u \in Passes /\ u.session = {} /\ u.phase \notin Working /\ PassOK(u)
  BY <1>1, IdlePass
<1>3. rows' = rows \union agent[g].session /\ Become(g, u)
      /\ UNCHANGED <<at, due, kept, lost, deaths>>
  BY <1>1 DEF Commit
<1>4. agent \in [Agents -> Passes] /\ agent' = [agent EXCEPT ![g] = u]
  BY <1>3 DEF IntakeInv, IntakeTypeOK, Passes, Become
<1>5. Stored' = Stored
  BY <1>2, <1>3, <1>4 DEF Stored
<1>6. Kept
  BY <1>3, <1>5 DEF Kept, Known, Same
<1>7. PassOK(u)'
  BY <1>2, <1>6, PassKept
<1>8. PassesOK' /\ OneHandlerEach' /\ agent' \in [Agents -> Passes]
  BY <1>2, <1>3, <1>6, <1>7, PassStep DEF Unmoved
<1>9. IntakeTypeOK'
  BY <1>3, <1>4, <1>8 DEF IntakeInv, IntakeTypeOK, Passes
<1>10. ArchiveInv' /\ PlacesInv'
  BY <1>3 DEF IntakeInv, ArchiveInv, PlacesInv, Single, DeliveredOnce
<1>11. StoresAgree'
  BY <1>3, <1>5 DEF IntakeInv, StoresAgree, Same, Undisturbed, DeliveredOnce
<1> QED
  BY <1>8, <1>9, <1>10, <1>11 DEF IntakeInv

LEMMA DeliverStep ==
  ASSUME IntakeOK, IntakeInv, NEW n \in Names, NEW c \in Contents \union {Malformed},
         Deliver(n, c)
  PROVE  IntakeInv'
<1>1. PICK p : p = <<n, c>>
  OBVIOUS
<1>2. p[1] = n /\ p \in due /\ p \in Later /\ due \subseteq Later /\ at["results"][n] = Nothing
      /\ due' = due \ {p} /\ UNCHANGED <<kept, rows, lost, deaths, agent>>
  BY <1>1 DEF Deliver, IntakeInv, IntakeTypeOK
<1>3. /\ at' \in [Folders -> [Names -> Contents \union {Malformed, Nothing}]]
      /\ \A k \in Folders, m \in Names :
           (m # n \/ k # "results") => at'[k][m] = at[k][m]
  <2>1. "results" \in Folders
    BY DEF Folders
  <2> QED
    BY <2>1 DEF Deliver, Store, IntakeInv, IntakeTypeOK
<1>4. "processing" \in Folders /\ "archive" \in Folders
  BY DEF Folders
<1>5. agent \in [Agents -> Passes]
  BY DEF IntakeInv, IntakeTypeOK, Passes
<1>6. Kept /\ Stored' = Stored
  BY <1>2 DEF Kept, Known, Stored, Same
<1>7. PassesOK'
  <2> SUFFICES ASSUME NEW h \in Agents PROVE PassOK(agent[h])'
    BY DEF PassesOK
  <2>1. PICK x \in Passes : x = agent[h]
    BY <1>5
  <2>2. PassOK(x)
    BY <2>1, PassNow
  <2>3. x.phase \in Working /\ Undisturbed(x.pkg) => Unmoved(x.pkg)
    BY <1>3, <1>4, <2>2 DEF PassOK, Finishing, Unmoved
  <2>4. PassOK(x)'
    BY <1>6, <2>2, <2>3, PassKept
  <2>5. agent'[h] = x
    BY <1>2, <2>1
  <2> QED
    BY <2>4, <2>5
<1>8. OneHandlerEach'
  BY <1>2 DEF IntakeInv, OneHandlerEach, Undisturbed, DeliveredOnce
<1>9. IntakeTypeOK'
  BY <1>2, <1>3 DEF IntakeInv, IntakeTypeOK
<1>10. PlacesInv'
  <2> SUFFICES ASSUME NEW m \in Names, DeliveredOnce(m) PROVE Single(m)'
    BY DEF PlacesInv, DeliveredOnce
  <2>1. Single(m)
    BY DEF IntakeInv, PlacesInv
  <2>2. CASE m # n
    BY <1>2, <1>3, <2>1, <2>2 DEF Single
  <2>3. CASE m = n
    <3>1. \A k \in Folders : at[k][m] = Nothing
      BY <1>2, <2>1, <2>3 DEF Single
    <3>2. \A k \in Folders : at'[k][m] # Nothing => k = "results"
      BY <1>3, <2>3, <3>1
    <3>3. ~ \E q \in due' : q[1] = m
      BY <1>2, <2>3, DeliveredAtOnce
    <3> QED
      BY <3>2, <3>3 DEF Single
  <2> QED
    BY <2>2, <2>3
<1>11. StoresAgree'
  <2>1. \A m \in Names : at'["archive"][m] = at["archive"][m]
    BY <1>3, <1>4
  <2> QED
    BY <1>2, <1>6, <2>1 DEF IntakeInv, StoresAgree, Same, Undisturbed, DeliveredOnce
<1> QED
  BY <1>2, <1>7, <1>8, <1>9, <1>10, <1>11 DEF IntakeInv, ArchiveInv

-----------------------------------------------------------------------------
(* The invariant *)

LEMMA IntakeStart == ASSUME IntakeOK, IntakeInit PROVE IntakeInv
<1>1. \A g \in Agents : agent[g] = Idle
  BY DEF IntakeInit
<1>2. ASSUME NEW n \in Names, NEW p \in Waiting, p[1] = n
      PROVE  (CHOOSE q \in Waiting : q[1] = n)[2] \in Contents \union {Malformed}
  <2>1. (CHOOSE q \in Waiting : q[1] = n) \in Waiting
    BY <1>2
  <2> QED
    BY <2>1 DEF IntakeOK
<1>3. /\ at \in [Folders -> [Names -> Contents \union {Malformed, Nothing}]]
      /\ \A f \in Folders, n \in Names :
           at[f][n] # Nothing => f = "results" /\ \E p \in Waiting : p[1] = n
  BY <1>2 DEF IntakeInit
<1>4. IntakeTypeOK
  <2>1. agent \in [Agents -> Passes]
    BY IdlePass DEF IntakeInit
  <2>2. 0 \in 0 .. MaxDeaths
    BY DEF IntakeOK
  <2> QED
    BY <1>3, <2>1, <2>2 DEF IntakeInit, IntakeTypeOK, Passes
<1>5. PassesOK /\ OneHandlerEach
  BY <1>1, IdlePass DEF PassesOK, OneHandlerEach
<1>6. PlacesInv
  <2> SUFFICES ASSUME NEW n \in Names, DeliveredOnce(n) PROVE Single(n)
    BY DEF PlacesInv
  <2>1. (\E p \in due : p[1] = n) => \A f \in Folders : at[f][n] = Nothing
    BY <1>3, DeliveredAtOnce DEF IntakeInit
  <2> QED
    BY <1>3, <2>1 DEF Single
<1>7. StoresAgree
  <2>1. Stored = {}
    BY <1>1, IdlePass DEF Stored, IntakeInit
  <2>2. \A n \in Names : at["archive"][n] = Nothing
    BY <1>3 DEF Folders
  <2> QED
    BY <2>1, <2>2 DEF StoresAgree
<1> QED
  BY <1>4, <1>5, <1>6, <1>7 DEF IntakeInv, ArchiveInv, IntakeInit

LEMMA IntakeGoesOn ==
  ASSUME IntakeOK, IntakeInv, IntakeNext
  PROVE  IntakeInv'
<1>1. ASSUME NEW n \in Names, NEW c \in Contents \union {Malformed}, Deliver(n, c)
      PROVE  IntakeInv'
  BY <1>1, DeliverStep
<1>2. ASSUME NEW g \in Agents, Start(g) PROVE IntakeInv'
  BY <1>2, StartStep
<1>3. ASSUME NEW g \in Agents, ListFiles(g) PROVE IntakeInv'
  BY <1>3, ListFilesStep
<1>4. ASSUME NEW g \in Agents, Claim(g) PROVE IntakeInv'
  BY <1>4, ClaimStep
<1>5. ASSUME NEW g \in Agents, Read(g) PROVE IntakeInv'
  BY <1>5, ReadStep
<1>6. ASSUME NEW g \in Agents, Place(g) PROVE IntakeInv'
  BY <1>6, PlaceStep
<1>7. ASSUME NEW g \in Agents, Look(g) PROVE IntakeInv'
  BY <1>7, LookStep
<1>8. ASSUME NEW g \in Agents, Insert(g) PROVE IntakeInv'
  BY <1>8, InsertStep
<1>9. ASSUME NEW g \in Agents, Finish(g) PROVE IntakeInv'
  BY <1>9, FinishStep
<1>10. ASSUME NEW g \in Agents, Commit(g) PROVE IntakeInv'
  BY <1>10, CommitStep
<1>11. ASSUME NEW g \in Agents, Die(g) PROVE IntakeInv'
  BY <1>11, DieStep
<1>12. ASSUME NEW g \in Agents, Compare(g) PROVE IntakeInv'
  BY <1>12, CompareStep
<1>13. ASSUME NEW g \in Agents, Discard(g) PROVE IntakeInv'
  BY <1>13, DiscardStep
<1>14. ASSUME NEW g \in Agents, MoveAway(g) PROVE IntakeInv'
  BY <1>14, MoveAwayStep
<1> HIDE DEF Deliver, Start, ListFiles, Claim, Read, Place, Look, Insert, Finish, Compare,
             Discard, MoveAway, Commit, Die
<1> QED
  BY <1>1, <1>2, <1>3, <1>4, <1>5, <1>6, <1>7, <1>8, <1>9, <1>10, <1>11, <1>12, <1>13, <1>14,
     Zenon DEF IntakeNext, Step

LEMMA IntakeStutter ==
  ASSUME IntakeInv, UNCHANGED intakeVars
  PROVE  IntakeInv'
<1>1. UNCHANGED <<at, due, kept, rows, lost, deaths, agent>>
  BY DEF intakeVars
<1>2. IntakeTypeOK' /\ ArchiveInv' /\ Stored' = Stored
  BY <1>1 DEF IntakeInv, IntakeTypeOK, ArchiveInv, Stored
<1>3. PlacesInv' /\ OneHandlerEach'
  BY <1>1 DEF IntakeInv, PlacesInv, Single, OneHandlerEach, Undisturbed, DeliveredOnce
<1>4. StoresAgree'
  BY <1>1, <1>2 DEF IntakeInv, StoresAgree, Same, Undisturbed, DeliveredOnce
<1>5. PassesOK'
  BY <1>1, <1>2 DEF IntakeInv, PassesOK, PassOK, Finishing, Known, Same, Undisturbed, DeliveredOnce
<1> QED
  BY <1>2, <1>3, <1>4, <1>5 DEF IntakeInv

(* The invariant holds, for any number of processes, packages and deaths.  *)
THEOREM IntakeAlways == IntakeSpec => []IntakeInv
<1>1. IntakeInit => IntakeInv
  BY IntakeOK, IntakeStart
<1>2. IntakeInv /\ [IntakeNext]_intakeVars => IntakeInv'
  BY IntakeOK, IntakeGoesOn, IntakeStutter
<1> QED
  BY <1>1, <1>2, PTL DEF IntakeSpec

(* Every variable has its type. *)
THEOREM IntakeTypeCorrect == IntakeSpec => []IntakeTypeOK
<1>1. IntakeInv => IntakeTypeOK
  BY DEF IntakeInv
<1> QED
  BY <1>1, IntakeAlways, PTL

(* The rows tell what the archive of the run holds, and what is in         *)
(* archive/ was imported, unless its rows were rolled back.                *)
THEOREM IntakeStoresAgree == IntakeSpec => []StoresAgree
<1>1. IntakeInv => StoresAgree
  BY DEF IntakeInv
<1> QED
  BY <1>1, IntakeAlways, PTL

(***************************************************************************)
(* What is under a name.  A directory cannot be claimed over, so what was  *)
(* compared is what is deleted.  Of a file that is delivered at most twice *)
(* there are at most two; while a pass has one of them, it has it alone in *)
(* processing/ or no other comes (Handles): so a pass that is about to     *)
(* delete has what it compared, and one that is about to move finds the    *)
(* final folder as it saw it, or nothing to move.                          *)
(***************************************************************************)

On(g, n) == agent[g].phase \in Working /\ agent[g].pkg = n

NoMore(n) == at["results"][n] = Nothing /\ \A p \in due : p[1] # n

Lonely(n) == \A f, h \in Folders : at[f][n] # Nothing /\ at[h][n] # Nothing => f = h

Over(n) == NoMore(n) /\ Lonely(n)

FewPlaces(n) ==
  /\ \A f, h, k \in Folders :
       at[f][n] # Nothing /\ at[h][n] # Nothing /\ at[k][n] # Nothing => f = h \/ h = k \/ f = k
  /\ (\E p \in due : p[1] = n) => Lonely(n)

Handles(w, n) ==
  /\ at["processing"][n] # Nothing \/ Over(n)
  /\ w.phase = "discard" => NoMore(n) /\ at["processing"][n] \in {Nothing, at[w.dest][n]}
  /\ w.phase = "move" /\ at[w.dest][n] # Nothing => NoMore(n) /\ at["processing"][n] = Nothing

FileKept(n) ==
  /\ FewPlaces(n)
  /\ \A g \in Agents : On(g, n) => Handles(agent[g], n)
  /\ \A g, h \in Agents : On(g, n) /\ On(h, n) => g = h \/ Over(n)

DirectoryKept(n) ==
  \A g \in Agents : On(g, n) /\ agent[g].phase = "discard" => Matches(n, agent[g].dest)

KeepInv ==
  /\ \A n \in Files : SeldomDelivered(n) => FileKept(n)
  /\ \A n \in Directories : DirectoryKept(n)

(* What a step does to what is under a name. *)
StaysPut(n) ==
  /\ \A f \in Folders : at'[f][n] = at[f][n]
  /\ \A p \in Later : p[1] = n => (p \in due' <=> p \in due)

Arrives(n) ==
  /\ \A f \in Folders \ {"results"} : at'[f][n] = at[f][n]
  /\ at["results"][n] = Nothing /\ at'["results"][n] # Nothing
  /\ (\E p \in due : p[1] = n) /\ due' \subseteq due /\ \A p \in due' : p[1] # n

Shifts(n, f, h) ==
  /\ f \in Folders /\ h \in Folders /\ f # h /\ at[f][n] # Nothing
  /\ at'[f][n] = Nothing /\ at'[h][n] = at[f][n]
  /\ \A k \in Folders \ {f, h} : at'[k][n] = at[k][n]
  /\ due' = due

Drops(n) ==
  /\ at'["processing"][n] = Nothing
  /\ \A k \in Folders \ {"processing"} : at'[k][n] = at[k][n]
  /\ due' = due

Finals == {"archive", "failed", "conflict"}

Changes(n) ==
  \/ StaysPut(n)
  \/ Arrives(n)
  \/ Shifts(n, "results", "processing")
  \/ \E f \in Finals : Shifts(n, "processing", f)
  \/ Drops(n)

LEMMA OverStays ==
  ASSUME IntakeInv, IntakeInv', NEW n \in Names, Changes(n), Over(n)
  PROVE  Over(n)'
<1> USE DEF Over, NoMore, Lonely, Folders, Finals
<1>1. due \subseteq Later /\ due' \subseteq Later
  BY DEF IntakeInv, IntakeTypeOK
<1>2. CASE StaysPut(n)
  BY <1>1, <1>2 DEF StaysPut
<1>3. CASE \E f \in Finals : Shifts(n, "processing", f)
  BY <1>3 DEF Shifts
<1>4. CASE Drops(n)
  BY <1>4 DEF Drops
<1> QED
  BY <1>2, <1>3, <1>4 DEF Changes, Arrives, Shifts

LEMMA FewStay ==
  ASSUME IntakeInv, IntakeInv', NEW n \in Names, Changes(n), FewPlaces(n)
  PROVE  FewPlaces(n)'
<1> USE DEF FewPlaces, Lonely, Folders, Finals
<1>1. due \subseteq Later /\ due' \subseteq Later
  BY DEF IntakeInv, IntakeTypeOK
<1>2. CASE StaysPut(n)
  BY <1>1, <1>2 DEF StaysPut
<1>3. CASE Arrives(n)
  BY <1>3 DEF Arrives
<1>4. CASE Shifts(n, "results", "processing")
  BY <1>4 DEF Shifts
<1>5. CASE \E f \in Finals : Shifts(n, "processing", f)
  BY <1>5 DEF Shifts
<1>6. CASE Drops(n)
  BY <1>6 DEF Drops
<1> QED
  BY <1>2, <1>3, <1>4, <1>5, <1>6 DEF Changes

(* What another pass relies on: this one works on n too, unless n stays    *)
(* where it is, arrives or is claimed.                                     *)
LEMMA HandlesStays ==
  ASSUME IntakeInv, IntakeInv', NEW n \in Names, Changes(n), FewPlaces(n),
         NEW w, Handles(w, n), w.phase \in {"discard", "move"} => w.dest \in Finals,
         StaysPut(n) \/ Arrives(n) \/ Shifts(n, "results", "processing") \/ Over(n)
  PROVE  Handles(w, n)'
<1> USE DEF Folders, Finals
<1>1. due \subseteq Later /\ due' \subseteq Later
  BY DEF IntakeInv, IntakeTypeOK
<1>2. Over(n) => Over(n)'
  BY OverStays
<1>3. CASE StaysPut(n)
  <2>1. NoMore(n) => NoMore(n)'
    BY <1>1, <1>3 DEF StaysPut, NoMore
  <2> QED
    BY <1>2, <1>3, <2>1 DEF Handles, StaysPut
<1>4. CASE Arrives(n)
  BY <1>4 DEF Handles, Arrives, NoMore, Over
<1>5. CASE Shifts(n, "results", "processing")
  BY <1>5 DEF Handles, Shifts, NoMore, Over
<1>6. CASE Over(n) /\ \E f \in Finals : Shifts(n, "processing", f)
  <2>1. w.phase # "discard"
    BY <1>6 DEF Handles, Shifts, Over, Lonely
  <2>2. NoMore(n)' /\ at'["processing"][n] = Nothing
    BY <1>2, <1>6 DEF Shifts, Over
  <2> QED
    BY <1>2, <1>6, <2>1, <2>2 DEF Handles
<1>7. CASE Over(n) /\ Drops(n)
  BY <1>2, <1>7 DEF Handles, Drops, Over
<1> QED
  BY <1>3, <1>4, <1>5, <1>6, <1>7 DEF Changes

(* A claimed file is alone in processing/ or no other comes. *)
LEMMA ClaimedAlone ==
  ASSUME NEW n \in Names, Shifts(n, "results", "processing"), FewPlaces(n),
         NEW w, Handles(w, n)
  PROVE  Over(n)'
BY DEF Shifts, FewPlaces, Handles, Over, NoMore, Lonely, Folders

(* A step of pass g, and what it does to what is under n. *)
LEMMA FileStays ==
  ASSUME IntakeOK, IntakeInv, IntakeInv', NEW n \in Files, FileKept(n), Changes(n),
         NEW g \in Agents, \A h \in Agents \ {g} : agent'[h] = agent[h],
         StaysPut(n) \/ Arrives(n) \/ Shifts(n, "results", "processing") \/ On(g, n),
         On(g, n)' => Handles(agent[g], n)' /\ (On(g, n) \/ Shifts(n, "results", "processing"))
  PROVE  FileKept(n)'
<1> n \in Names
  BY DEF Names
<1>1. FewPlaces(n)'
  BY FewStay DEF FileKept
<1>2. Over(n) => Over(n)'
  BY OverStays
<1>3. ASSUME NEW h \in Agents \ {g}, On(h, n)' PROVE Handles(agent[h], n)'
  <2>1. On(h, n) /\ agent'[h] = agent[h]
    BY <1>3 DEF On
  <2>2. Handles(agent[h], n) /\ (On(g, n) => Over(n)) /\ FewPlaces(n)
    BY <2>1 DEF FileKept
  <2>3. agent[h].phase \in {"discard", "move"} => agent[h].dest \in Finals
    BY PassNow DEF PassOK, Finishing, Finals
  <2>4. PICK w : w = agent[h]
    OBVIOUS
  <2>5. Handles(w, n)'
    BY <2>2, <2>3, <2>4, HandlesStays
  <2> QED
    BY <2>1, <2>4, <2>5
<1>4. ASSUME NEW h \in Agents \ {g}, On(h, n)', On(g, n)' PROVE Over(n)'
  <2>1. On(h, n)
    BY <1>4 DEF On
  <2>2. CASE On(g, n)
    BY <1>2, <2>1, <2>2 DEF FileKept
  <2>3. CASE Shifts(n, "results", "processing")
    BY <2>1, <2>3, ClaimedAlone DEF FileKept
  <2> QED
    BY <1>4, <2>2, <2>3
<1>5. ASSUME NEW h \in Agents \ {g}, NEW k \in Agents \ {g}, h # k, On(h, n)', On(k, n)'
      PROVE  Over(n)'
  BY <1>2, <1>5 DEF On, FileKept
<1>6. \A h \in Agents : On(h, n)' => Handles(agent[h], n)'
  BY <1>3
<1>7. \A h, k \in Agents : On(h, n)' /\ On(k, n)' => h = k \/ Over(n)'
  BY <1>4, <1>5
<1> QED
  BY <1>1, <1>6, <1>7 DEF FileKept

(* A pass that works on a directory has it alone, as it read it. *)
LEMMA DirectoryStays ==
  ASSUME IntakeOK, IntakeInv, IntakeInv', NEW n \in Directories, DirectoryKept(n),
         NEW g \in Agents, \A h \in Agents \ {g} : agent'[h] = agent[h],
         StaysPut(n) \/ Arrives(n) \/ On(g, n)
           \/ (Shifts(n, "results", "processing") /\ at["processing"][n] = Nothing),
         On(g, n)' /\ agent'[g].phase = "discard" =>
           at'[agent'[g].dest][n] = at'["processing"][n]
  PROVE  DirectoryKept(n)'
<1> n \in Names /\ Undisturbed(n)
  BY DEF Names, Undisturbed
<1> SUFFICES ASSUME NEW h \in Agents \ {g}, On(h, n)', agent'[h].phase = "discard"
             PROVE  at'[agent'[h].dest][n] = at'["processing"][n]
  BY DEF DirectoryKept, Matches
<1>1. On(h, n) /\ agent'[h] = agent[h] /\ agent[h].phase = "discard"
  BY DEF On
<1>2. at[agent[h].dest][n] = at["processing"][n]
  BY <1>1 DEF DirectoryKept, Matches
<1>3. ~On(g, n)
  BY <1>1 DEF On, IntakeInv, OneHandlerEach
<1>4. agent[h].dest \in Finals /\ at["processing"][n] # Nothing
  BY <1>1, PassNow DEF PassOK, Finishing, Finals, On
<1>5. \A f \in Folders \ {"results"} : at'[f][n] = at[f][n]
  BY <1>3, <1>4 DEF StaysPut, Arrives
<1>6. agent[h].dest \in Folders \ {"results"} /\ "processing" \in Folders \ {"results"}
  BY <1>4 DEF Folders, Finals
<1> QED
  BY <1>1, <1>2, <1>5, <1>6

-----------------------------------------------------------------------------
(* The steps *)

(* A step of one pass that moves nothing. *)
LEMMA KeepQuiet ==
  ASSUME IntakeOK, IntakeInv, IntakeInv', KeepInv, NEW g \in Agents,
         \A h \in Agents \ {g} : agent'[h] = agent[h], UNCHANGED <<at, due>>,
         NEW u, u = agent'[g],
         u.phase \in Working => agent[g].phase \in Working /\ u.pkg = agent[g].pkg,
         u.phase = "discard" => Matches(u.pkg, u.dest),
         u.phase = "move" => at[u.dest][u.pkg] = Nothing
  PROVE  KeepInv'
<1>1. \A n \in Names : StaysPut(n)
  BY DEF StaysPut
<1>2. ASSUME NEW n \in Files, SeldomDelivered(n) PROVE FileKept(n)'
  <2>1. FileKept(n)
    BY <1>2 DEF KeepInv
  <2>2. n \in Names /\ StaysPut(n) /\ Changes(n)
    BY <1>1 DEF Names, Changes
  <2>3. ASSUME On(g, n)' PROVE Handles(agent[g], n)' /\ On(g, n)
    <3>1. u.phase \in Working /\ u.pkg = n /\ On(g, n)
      BY <2>3 DEF On
    <3>2. Handles(agent[g], n) /\ FewPlaces(n)
      BY <2>1, <3>1 DEF FileKept
    <3>3. Over(n)' = Over(n) /\ NoMore(n)' = NoMore(n)
      BY DEF Over, NoMore, Lonely
    <3>4. u.phase = "discard" => NoMore(n) /\ at["processing"][n] \in {Nothing, at[u.dest][n]}
      <4>1. u.phase = "discard" => u.dest \in Finals
        <5>1. PassOK(agent[g])'
          BY DEF IntakeInv, PassesOK
        <5> QED
          BY <5>1 DEF PassOK, Finishing, Finals
      <4> QED
        BY <3>1, <3>2, <4>1
        DEF Matches, Handles, Over, NoMore, FewPlaces, Lonely, Folders, Finals
    <3>5. Handles(u, n)'
      BY <3>1, <3>2, <3>3, <3>4 DEF Handles
    <3> QED
      BY <3>1, <3>5
  <2> QED
    BY <2>1, <2>2, <2>3, FileStays
<1>3. ASSUME NEW n \in Directories PROVE DirectoryKept(n)'
  <2>1. DirectoryKept(n) /\ n \in Names
    BY DEF KeepInv, Names
  <2>2. On(g, n)' /\ agent'[g].phase = "discard" =>
          at'[agent'[g].dest][n] = at'["processing"][n]
    BY DEF On, Matches
  <2> QED
    BY <1>1, <2>1, <2>2, DirectoryStays
<1> QED
  BY <1>2, <1>3 DEF KeepInv, SeldomDelivered

(* A step of one pass that moves what is under m. *)
LEMMA KeepOther ==
  ASSUME IntakeOK, IntakeInv, IntakeInv', KeepInv, NEW g \in Agents, NEW m \in Names,
         \A h \in Agents \ {g} : agent'[h] = agent[h], UNCHANGED due,
         \A n \in Names \ {m} : StaysPut(n),
         \/ Shifts(m, "results", "processing") /\ (m \in Directories => at["processing"][m] = Nothing)
         \/ On(g, m) /\ ((\E f \in Finals : Shifts(m, "processing", f)) \/ Drops(m)),
         agent'[g].phase \in Working =>
           /\ agent'[g].phase = "read" /\ agent'[g].pkg = m
           /\ Shifts(m, "results", "processing")
  PROVE  KeepInv'
<1>1. \A n \in Names : Changes(n)
  BY DEF Changes
<1>2. ASSUME NEW n \in Files, SeldomDelivered(n) PROVE FileKept(n)'
  <2>1. FileKept(n) /\ n \in Names /\ Changes(n)
    BY <1>1, <1>2 DEF KeepInv, Names
  <2>2. StaysPut(n) \/ Arrives(n) \/ Shifts(n, "results", "processing") \/ On(g, n)
    BY <2>1
  <2>3. ASSUME On(g, n)'
        PROVE  Handles(agent[g], n)' /\ (On(g, n) \/ Shifts(n, "results", "processing"))
    <3>1. n = m /\ Shifts(m, "results", "processing") /\ agent'[g].phase = "read"
      BY <2>3 DEF On
    <3> QED
      BY <3>1 DEF Handles, Shifts
  <2> QED
    BY <2>1, <2>2, <2>3, FileStays
<1>3. ASSUME NEW n \in Directories PROVE DirectoryKept(n)'
  <2>1. DirectoryKept(n) /\ n \in Names
    BY DEF KeepInv, Names
  <2>2. ~(On(g, n)' /\ agent'[g].phase = "discard")
    BY DEF On
  <2>3. StaysPut(n) \/ Arrives(n) \/ On(g, n)
           \/ (Shifts(n, "results", "processing") /\ at["processing"][n] = Nothing)
    BY <2>1
  <2> QED
    BY <2>1, <2>2, <2>3, DirectoryStays
<1> QED
  BY <1>2, <1>3 DEF KeepInv, SeldomDelivered

(* No step removes or replaces what is under a name, unless it is claimed  *)
(* over.                                                                   *)
Survives(n) ==
  \A c \in Contents \union {Malformed} : Somewhere(n, c) => Somewhere(n, c)' \/ Overwritten(n)

LEMMA StillThere ==
  ASSUME IntakeOK, IntakeInv, NEW n \in Names,
         \/ StaysPut(n) \/ Arrives(n)
         \/ Shifts(n, "results", "processing")
         \/ \E f \in Finals : Shifts(n, "processing", f) /\ at[f][n] = Nothing
         \/ \E f \in Finals : Drops(n) /\ at["processing"][n] \in {Nothing, at[f][n]}
  PROVE  Survives(n)
<1> SUFFICES ASSUME NEW c \in Contents \union {Malformed}, NEW k \in Folders, at[k][n] = c
             PROVE  Somewhere(n, c)' \/ Overwritten(n)
  BY DEF Survives, Somewhere
<1>1. c # Nothing
  BY DEF IntakeOK
<1>2. CASE StaysPut(n)
  BY <1>2 DEF StaysPut, Somewhere
<1>3. CASE Arrives(n)
  BY <1>1, <1>3 DEF Arrives, Somewhere
<1>4. CASE Shifts(n, "results", "processing")
  BY <1>1, <1>4 DEF Shifts, Somewhere, Overwritten
<1>5. CASE \E f \in Finals : Shifts(n, "processing", f) /\ at[f][n] = Nothing
  BY <1>1, <1>5 DEF Shifts, Somewhere
<1>6. CASE \E f \in Finals : Drops(n) /\ at["processing"][n] \in {Nothing, at[f][n]}
  <2>1. PICK f \in Finals : Drops(n) /\ at["processing"][n] \in {Nothing, at[f][n]}
    BY <1>6
  <2>2. f \in Folders \ {"processing"} /\ at'[f][n] = at[f][n]
    BY <2>1 DEF Drops, Finals, Folders
  <2>3. CASE k = "processing"
    BY <1>1, <2>1, <2>2, <2>3 DEF Somewhere
  <2>4. CASE k # "processing"
    BY <2>1, <2>4 DEF Drops, Somewhere
  <2> QED
    BY <2>3, <2>4
<1> QED
  BY <1>2, <1>3, <1>4, <1>5, <1>6

(* What a step of the intake does: the invariant goes on, and what is      *)
(* under a name survives.                                                  *)
Careful(n) == n \in Directories \/ SeldomDelivered(n)

KeepsAll == KeepInv' /\ \A n \in Names : Careful(n) => Survives(n)

LEMMA QuietKeeps ==
  ASSUME IntakeOK, IntakeInv, IntakeInv', KeepInv, NEW g \in Agents,
         \A h \in Agents \ {g} : agent'[h] = agent[h], UNCHANGED <<at, due>>,
         NEW u, u = agent'[g],
         u.phase \in Working => agent[g].phase \in Working /\ u.pkg = agent[g].pkg,
         u.phase = "discard" => Matches(u.pkg, u.dest),
         u.phase = "move" => at[u.dest][u.pkg] = Nothing
  PROVE  KeepsAll
<1>1. \A n \in Names : StaysPut(n)
  BY DEF StaysPut
<1>2. KeepInv'
  BY KeepQuiet
<1> QED
  BY <1>1, <1>2, StillThere DEF KeepsAll

LEMMA AgentShape ==
  ASSUME IntakeInv, NEW g \in Agents, NEW u, Become(g, u)
  PROVE  agent'[g] = u /\ \A h \in Agents \ {g} : agent'[h] = agent[h]
BY DEF IntakeInv, IntakeTypeOK, Become

LEMMA RollbackKeeps ==
  ASSUME IntakeOK, IntakeInv, IntakeInv', KeepInv, NEW g \in Agents,
         Rollback(g), UNCHANGED <<at, due>>
  PROVE  KeepsAll
<1>1. PICK u : u = Idle
  OBVIOUS
<1>2. Become(g, u) /\ u.phase = "idle" /\ u.phase \notin Working
  BY <1>1, IdlePass DEF Rollback
<1>3. u = agent'[g] /\ \A h \in Agents \ {g} : agent'[h] = agent[h]
  BY <1>2, AgentShape
<1> QED
  BY <1>2, <1>3, QuietKeeps

(* The pass changes its phase, to one before the last two. *)
LEMMA GoesOnKeeps ==
  ASSUME IntakeOK, IntakeInv, IntakeInv', KeepInv, NEW g \in Agents, NEW u, Become(g, u),
         UNCHANGED <<at, due>>, u.phase \notin {"discard", "move"},
         u.phase \in Working => agent[g].phase \in Working /\ u.pkg = agent[g].pkg
  PROVE  KeepsAll
<1>1. u = agent'[g] /\ \A h \in Agents \ {g} : agent'[h] = agent[h]
  BY AgentShape
<1> QED
  BY <1>1, QuietKeeps

LEMMA FailsKeeps ==
  ASSUME IntakeOK, IntakeInv, IntakeInv', KeepInv, NEW g \in Agents, Finishing(agent[g]),
         Fails(g), UNCHANGED <<at, due>>
  PROVE  KeepsAll
<1>1. CASE Rollback(g)
  BY <1>1, RollbackKeeps
<1>2. CASE Become(g, Finishes(agent[g], "failed"))
  <2>1. PICK u : u = Finishes(agent[g], "failed")
    OBVIOUS
  <2>2. u.phase = "finish" /\ u.pkg = agent[g].pkg
    BY <2>1, PassNow, FinishesShape
  <2>3. agent[g].phase \in Working
    BY DEF Finishing, Working
  <2> QED
    BY <1>2, <2>1, <2>2, <2>3, GoesOnKeeps
<1> QED
  BY <1>1, <1>2 DEF Fails

LEMMA ClaimKeeps ==
  ASSUME IntakeOK, IntakeInv, IntakeInv', KeepInv, NEW g \in Agents, Claim(g)
  PROVE  KeepsAll
<1>1. PICK x : x = agent[g]
  OBVIOUS
<1>2. x \in Passes /\ x.phase \in {"directories", "files"} /\ x.left # {}
  BY <1>1, PassNow DEF Claim
<1>3. PICK n \in x.left : n = Least(x.left)
  BY <1>2, LeastIsLeft DEF Passes
<1>4. n \in Names
  BY <1>2, <1>3 DEF Passes
<1>5. PICK w : w = [x EXCEPT !.left = x.left \ {n}]
  OBVIOUS
<1>6. w \in Passes /\ w.phase = x.phase
  BY <1>2, <1>5 DEF Passes
<1>7. UNCHANGED due
  BY DEF Claim
<1>8. CASE Become(g, w) /\ UNCHANGED at
  <2>1. w.phase \notin Working
    BY <1>2, <1>6 DEF Working
  <2> QED
    BY <1>2, <1>6, <1>7, <1>8, <2>1, GoesOnKeeps
<1>9. CASE Rollback(g) /\ UNCHANGED at
  BY <1>7, <1>9, RollbackKeeps
<1>10. CASE /\ at["results"][n] # Nothing
            /\ n \in Files \/ at["processing"][n] = Nothing
            /\ Move(n, "results", "processing")
            /\ Become(g, [w EXCEPT !.phase = "read", !.pkg = n])
  <2>1. PICK u : u = [w EXCEPT !.phase = "read", !.pkg = n]
    OBVIOUS
  <2>2. u.phase = "read" /\ u.pkg = n
    BY <1>4, <1>6, <2>1 DEF Passes
  <2>3. agent'[g] = u /\ \A h \in Agents \ {g} : agent'[h] = agent[h]
    BY <1>10, <2>1, AgentShape
  <2>4. "results" \in Folders /\ "processing" \in Folders
    BY DEF Folders
  <2>5. Shifts(n, "results", "processing") /\ \A m \in Names \ {n} : StaysPut(m)
    BY <1>4, <1>7, <1>10, <2>4, MoveShape DEF IntakeInv, Shifts, StaysPut
  <2>6. n \in Directories => at["processing"][n] = Nothing
    BY <1>10 DEF IntakeOK
  <2>7. KeepInv'
    BY <1>4, <1>7, <2>2, <2>3, <2>5, <2>6, KeepOther
  <2> QED
    BY <2>5, <2>7, StillThere DEF KeepsAll
<1> QED
  BY <1>1, <1>3, <1>5, <1>8, <1>9, <1>10 DEF Claim

(* The pass is about to delete or move what it compared or looked for. *)
LEMMA LastLook ==
  ASSUME IntakeOK, IntakeInv, NEW g \in Agents, Finishing(agent[g])
  PROVE  /\ agent[g].phase \in Working
         /\ agent[g].pkg \in Names /\ agent[g].dest \in Finals
         /\ On(g, agent[g].pkg)
         /\ Resumed(agent[g]).phase \notin Working
<1>1. agent[g].phase \in Working
  BY DEF Finishing, Working
<1>2. agent[g].pkg \in Names /\ agent[g].dest \in Finals
  BY <1>1, PassNow DEF PassOK, Finishing, Finals
<1>3. Resumed(agent[g]).phase \in {"directories", "files"}
  BY PassNow DEF Passes, Resumed
<1> QED
  BY <1>1, <1>2, <1>3 DEF On, Working

LEMMA FinishKeeps ==
  ASSUME IntakeOK, IntakeInv, IntakeInv', KeepInv, NEW g \in Agents,
         Finish(g) \/ (Compare(g) /\ ~Fails(g))
  PROVE  KeepsAll
<1>1. PICK w : w = agent[g]
  OBVIOUS
<1>2. w \in Passes /\ w.phase \in Working /\ UNCHANGED <<at, due>>
  BY <1>1, PassNow DEF Finish, Compare, Within, Working
<1>3. PICK p \in {"compare", "discard", "move"} :
        /\ GoTo(g, p)
        /\ p = "discard" => Matches(w.pkg, w.dest)
        /\ p = "move" => at[w.dest][w.pkg] = Nothing
  BY <1>1 DEF Finish, Compare
<1>4. PICK u : u = [w EXCEPT !.phase = p]
  OBVIOUS
<1>5. u.phase = p /\ u.pkg = w.pkg /\ u.dest = w.dest
  BY <1>2, <1>4 DEF Passes
<1>6. u = agent'[g] /\ \A h \in Agents \ {g} : agent'[h] = agent[h]
  BY <1>1, <1>3, <1>4, AgentShape DEF GoTo
<1> QED
  BY <1>1, <1>2, <1>3, <1>5, <1>6, QuietKeeps

LEMMA DiscardKeeps ==
  ASSUME IntakeOK, IntakeInv, IntakeInv', KeepInv, NEW g \in Agents, Discard(g)
  PROVE  KeepsAll
<1>1. Finishing(agent[g]) /\ agent[g].phase = "discard" /\ UNCHANGED due
  BY DEF Discard, Within, Finishing
<1>2. CASE Fails(g) /\ UNCHANGED at
  BY <1>1, <1>2, FailsKeeps
<1>3. CASE Store(agent[g].pkg, "processing", Nothing) /\ Become(g, Resumed(agent[g]))
  <2>1. PICK n \in Names, f \in Finals : n = agent[g].pkg /\ f = agent[g].dest
    BY <1>1, LastLook
  <2>2. "processing" \in Folders
    BY DEF Folders
  <2>3. Drops(n) /\ \A m \in Names \ {n} : StaysPut(m)
    BY <1>1, <1>3, <2>1, <2>2 DEF Store, Drops, StaysPut, IntakeInv, IntakeTypeOK
  <2>4. On(g, n) /\ Resumed(agent[g]).phase \notin Working
    BY <1>1, <2>1, LastLook
  <2>5. agent'[g].phase \notin Working /\ \A h \in Agents \ {g} : agent'[h] = agent[h]
    BY <1>3, <2>4, AgentShape
  <2>6. KeepInv'
    BY <1>1, <2>3, <2>4, <2>5, KeepOther
  <2>7. Careful(n) => at["processing"][n] \in {Nothing, at[f][n]}
    <3>1. CASE n \in Directories
      BY <1>1, <2>1, <2>4, <3>1 DEF KeepInv, DirectoryKept, Matches
    <3>2. CASE n \in Files /\ SeldomDelivered(n)
      BY <1>1, <2>1, <2>4, <3>2 DEF KeepInv, FileKept, Handles
    <3> QED
      BY <3>1, <3>2 DEF Careful, Names
  <2> QED
    BY <2>3, <2>6, <2>7, StillThere DEF KeepsAll
<1> QED
  BY <1>2, <1>3 DEF Discard

LEMMA MoveAwayKeeps ==
  ASSUME IntakeOK, IntakeInv, IntakeInv', KeepInv, NEW g \in Agents, MoveAway(g)
  PROVE  KeepsAll
<1>1. Finishing(agent[g]) /\ agent[g].phase = "move" /\ UNCHANGED due
  BY DEF MoveAway, Within, Finishing
<1>2. CASE Fails(g) /\ UNCHANGED at
  BY <1>1, <1>2, FailsKeeps
<1>3. PICK n \in Names, f \in Finals : n = agent[g].pkg /\ f = agent[g].dest
  BY <1>1, LastLook
<1>4. CASE /\ at["processing"][n] # Nothing /\ (n \in Files \/ at[f][n] = Nothing)
           /\ Move(n, "processing", f) /\ Become(g, Resumed(agent[g]))
  <2>1. "processing" \in Folders /\ f \in Folders /\ f # "processing"
    BY <1>3 DEF Folders, Finals
  <2>2. Shifts(n, "processing", f) /\ \A m \in Names \ {n} : StaysPut(m)
    BY <1>1, <1>4, <2>1, MoveShape DEF IntakeInv, Shifts, StaysPut
  <2>3. On(g, n) /\ Resumed(agent[g]).phase \notin Working
    BY <1>1, <1>3, LastLook
  <2>4. agent'[g].phase \notin Working /\ \A h \in Agents \ {g} : agent'[h] = agent[h]
    BY <1>4, <2>3, AgentShape
  <2>5. KeepInv'
    BY <1>1, <2>2, <2>3, <2>4, KeepOther
  <2>6. Careful(n) => at[f][n] = Nothing
    <3>1. CASE n \in Directories
      BY <1>4, <3>1 DEF IntakeOK
    <3>2. CASE n \in Files /\ SeldomDelivered(n)
      BY <1>1, <1>3, <1>4, <2>3, <3>2 DEF KeepInv, FileKept, Handles
    <3> QED
      BY <3>1, <3>2 DEF Careful, Names
  <2> QED
    BY <2>2, <2>5, <2>6, StillThere DEF KeepsAll
<1> QED
  BY <1>2, <1>3, <1>4 DEF MoveAway

LEMMA DeliverKeeps ==
  ASSUME IntakeOK, IntakeInv, IntakeInv', KeepInv,
         NEW m \in Names, NEW d \in Contents \union {Malformed}, Deliver(m, d)
  PROVE  KeepsAll
<1>1. PICK p \in due : p = <<m, d>> /\ due' = due \ {p} /\ due \subseteq Later
  BY DEF Deliver, IntakeInv, IntakeTypeOK
<1>2. "results" \in Folders /\ d # Nothing
  BY DEF Folders, IntakeOK
<1>3. /\ at["results"][m] = Nothing /\ at'["results"][m] = d
      /\ \A k \in Folders, n \in Names : (n # m \/ k # "results") => at'[k][n] = at[k][n]
  BY <1>2 DEF Deliver, Store, IntakeInv, IntakeTypeOK
<1>4. p[1] = m
  BY <1>1
<1>5. \A n \in Names \ {m} : StaysPut(n)
  BY <1>1, <1>3, <1>4 DEF StaysPut
<1>6. SeldomDelivered(m) => Arrives(m)
  BY <1>1, <1>2, <1>3, <1>4 DEF SeldomDelivered, Arrives
<1>7. agent' = agent
  BY DEF Deliver
<1>8. \A n \in Names : n \in Directories => Survives(n)
  <2> SUFFICES ASSUME NEW n \in Names, NEW c \in Contents \union {Malformed},
                      NEW k \in Folders, at[k][n] = c
               PROVE  Somewhere(n, c)'
    BY DEF Survives, Somewhere
  <2>1. c # Nothing
    BY DEF IntakeOK
  <2> QED
    BY <1>3, <2>1 DEF Somewhere
<1>9. \A n \in Names : Careful(n) => Survives(n)
  BY <1>5, <1>6, <1>8, StillThere DEF Careful
<1>10. ASSUME NEW n \in Files, SeldomDelivered(n) PROVE FileKept(n)'
  <2>1. FileKept(n) /\ n \in Names /\ (StaysPut(n) \/ Arrives(n))
    BY <1>5, <1>6, <1>10 DEF KeepInv, Names
  <2>2. Changes(n)
    BY <2>1 DEF Changes
  <2>3. FewPlaces(n)'
    BY <2>1, <2>2, FewStay DEF FileKept
  <2>4. Over(n) => Over(n)'
    BY <2>1, <2>2, OverStays
  <2>5. ASSUME NEW h \in Agents, On(h, n)' PROVE Handles(agent[h], n)'
    <3>1. On(h, n) /\ Handles(agent[h], n) /\ FewPlaces(n)
      BY <1>7, <2>1, <2>5 DEF On, FileKept
    <3>2. PICK w : w = agent[h]
      OBVIOUS
    <3>3. w.phase \in {"discard", "move"} => w.dest \in Finals
      BY <3>2, PassNow DEF PassOK, Finishing, Finals
    <3>4. Handles(w, n)'
      BY <2>1, <2>2, <3>1, <3>2, <3>3, HandlesStays
    <3> QED
      BY <1>7, <3>2, <3>4
  <2> QED
    BY <1>7, <2>1, <2>3, <2>4, <2>5 DEF FileKept, On
<1>11. ASSUME NEW n \in Directories PROVE DirectoryKept(n)'
  <2>1. DirectoryKept(n) /\ n \in Names
    BY DEF KeepInv, Names
  <2>2. \A f \in Finals \union {"processing"} : at'[f][n] = at[f][n]
    BY <1>3, <2>1 DEF Finals, Folders
  <2>3. \A h \in Agents : agent[h].phase = "discard" => agent[h].dest \in Finals
    BY PassNow DEF PassOK, Finishing, Finals
  <2> QED
    BY <1>7, <2>1, <2>2, <2>3 DEF DirectoryKept, On, Matches
<1> QED
  BY <1>9, <1>10, <1>11 DEF KeepsAll, KeepInv, SeldomDelivered

LEMMA OtherKeeps ==
  ASSUME IntakeOK, IntakeInv, IntakeInv', KeepInv, NEW g \in Agents,
         \/ Start(g) \/ ListFiles(g) \/ Read(g) \/ Place(g) \/ Look(g) \/ Insert(g)
         \/ Commit(g) \/ Die(g)
  PROVE  KeepsAll
<1>1. PICK w \in Passes : w = agent[g]
  BY PassNow
<1>2. UNCHANGED <<at, due>>
  BY DEF Start, ListFiles, Read, Place, Look, Insert, Commit, Die
<1>3. CASE Die(g)
  BY <1>2, <1>3, RollbackKeeps DEF Die
<1>4. CASE Start(g) \/ ListFiles(g) \/ Commit(g)
  <2>1. CASE Start(g)
    <3>1. PICK u : u = [Idle EXCEPT !.phase = "directories", !.left = Visible(Directories)]
      OBVIOUS
    <3>2. Become(g, u) /\ u.phase = "directories"
      BY <2>1, <3>1 DEF Start, Idle
    <3> QED
      BY <1>2, <3>2, GoesOnKeeps DEF Working
  <2>2. CASE ListFiles(g)
    <3>1. PICK u : u = [w EXCEPT !.phase = "files", !.left = Visible(Files)]
      OBVIOUS
    <3>2. Become(g, u) /\ u.phase = "files"
      BY <1>1, <2>2, <3>1 DEF ListFiles, Passes
    <3> QED
      BY <1>2, <3>2, GoesOnKeeps DEF Working
  <2>3. CASE Commit(g)
    <3>1. PICK u : u = Idle
      OBVIOUS
    <3> QED
      BY <1>2, <2>3, <3>1, IdlePass, GoesOnKeeps DEF Commit
  <2> QED
    BY <1>4, <2>1, <2>2, <2>3
<1>5. CASE Read(g) \/ Place(g) \/ Look(g) \/ Insert(g)
  <2>1. w.phase \in Working
    BY <1>1, <1>5 DEF Read, Place, Look, Insert, Within, Working
  <2>2. ASSUME NEW u \in Passes, u.pkg = w.pkg, u.phase \in {"place", "look", "insert"},
               Become(g, u)
        PROVE  KeepsAll
    BY <1>1, <1>2, <2>1, <2>2, GoesOnKeeps
  <2>3. ASSUME NEW v \in Passes, v.pkg = w.pkg, NEW f, Become(g, Finishes(v, f))
        PROVE  KeepsAll
    <3>1. PICK u : u = Finishes(v, f)
      OBVIOUS
    <3>2. u.phase = "finish" /\ u.pkg = w.pkg
      BY <2>3, <3>1 DEF Finishes, Passes
    <3> QED
      BY <1>1, <1>2, <2>1, <2>3, <3>1, <3>2, GoesOnKeeps
  <2>4. ASSUME NEW p \in {"place", "look", "insert"}, NEW v \in Passes, v.pkg = w.pkg,
               Become(g, [v EXCEPT !.phase = p])
        PROVE  KeepsAll
    <3>1. PICK u : u = [v EXCEPT !.phase = p]
      OBVIOUS
    <3>2. u \in Passes /\ u.phase = p /\ u.pkg = w.pkg
      BY <2>4, <3>1 DEF Passes
    <3> QED
      BY <2>2, <2>4, <3>1, <3>2
  <2>5. CASE Read(g)
    <3>1. PICK c \in Contents \union {Malformed, Nothing} : c = at["processing"][w.pkg]
      <4>1. w.pkg \in Names
        BY <1>1, <2>1, PassNow DEF PassOK
      <4> QED
        BY <4>1 DEF IntakeInv, IntakeTypeOK, Folders
    <3>2. PICK v : v = [w EXCEPT !.got = c]
      OBVIOUS
    <3>3. v \in Passes /\ v.pkg = w.pkg
      BY <1>1, <3>1, <3>2 DEF Passes
    <3>4. \/ Become(g, Finishes(v, "failed")) \/ Become(g, Finishes(v, "conflict"))
          \/ Become(g, [v EXCEPT !.phase = "place"]) \/ Become(g, [v EXCEPT !.phase = "look"])
      <4>1. CASE c \notin Contents
        BY <1>1, <2>5, <3>1, <3>2, <4>1 DEF Read
      <4>2. CASE c \in Contents
        <5>1. Become(g, CASE kept[c.run] = Nothing           -> [v EXCEPT !.phase = "place"]
                          [] Same(c)                      -> [v EXCEPT !.phase = "look"]
                          [] kept[c.run] \notin {Nothing, c} -> Finishes(v, "conflict"))
          BY <1>1, <2>5, <3>1, <3>2, <4>2 DEF Read
        <5>2. c # Nothing
          BY <4>2 DEF IntakeOK
        <5> QED
          BY <5>1, <5>2 DEF Same
      <4> QED
        BY <4>1, <4>2
    <3> QED
      BY <2>3, <2>4, <3>3, <3>4
  <2>6. CASE Place(g)
    <3>1. Become(g, Finishes(w, "failed")) \/ Become(g, [w EXCEPT !.phase = "look"])
      BY <1>1, <2>6 DEF Place, GoTo
    <3> QED
      BY <1>1, <2>3, <2>4, <3>1
  <2>7. CASE Look(g)
    <3>1. \/ Become(g, Finishes(w, "failed")) \/ Become(g, Finishes(w, "archive"))
          \/ Become(g, [w EXCEPT !.phase = "insert"])
      BY <1>1, <2>7 DEF Look
    <3> QED
      BY <1>1, <2>3, <2>4, <3>1
  <2>8. CASE Insert(g)
    <3>1. w.got \in Contents /\ Same(w.got) /\ w.session \subseteq Contents
      BY <1>1, <2>8, PassNow DEF Insert, Within, PassOK, Passes
    <3>2. PICK ok, bad : /\ ok = [w EXCEPT !.session = w.session \union {w.got}]
                         /\ bad = [w EXCEPT !.session = {}, !.broken = TRUE]
      OBVIOUS
    <3>3. ok \in Passes /\ ok.pkg = w.pkg /\ bad \in Passes /\ bad.pkg = w.pkg
      BY <1>1, <3>1, <3>2 DEF Passes
    <3>4. Become(g, Finishes(ok, "archive")) \/ Become(g, Finishes(bad, "failed"))
      BY <1>1, <2>8, <3>1, <3>2 DEF Insert, Same
    <3> QED
      BY <2>3, <3>3, <3>4
  <2> QED
    BY <1>5, <2>5, <2>6, <2>7, <2>8
<1> QED
  BY <1>3, <1>4, <1>5

LEMMA StepKeeps ==
  ASSUME IntakeOK, IntakeInv, IntakeInv', KeepInv, IntakeNext
  PROVE  KeepsAll
<1>1. ASSUME NEW n \in Names, NEW c \in Contents \union {Malformed}, Deliver(n, c)
      PROVE  KeepsAll
  BY <1>1, DeliverKeeps
<1>2. ASSUME NEW g \in Agents,
             Start(g) \/ ListFiles(g) \/ Read(g) \/ Place(g) \/ Look(g) \/ Insert(g)
               \/ Commit(g) \/ Die(g)
      PROVE  KeepsAll
  BY <1>2, OtherKeeps
<1>3. ASSUME NEW g \in Agents, Claim(g) PROVE KeepsAll
  BY <1>3, ClaimKeeps
<1>4. ASSUME NEW g \in Agents, Finish(g) PROVE KeepsAll
  BY <1>4, FinishKeeps
<1>5. ASSUME NEW g \in Agents, Compare(g) PROVE KeepsAll
  <2>1. Finishing(agent[g]) /\ UNCHANGED <<at, due>>
    BY <1>5 DEF Compare, Within, Finishing
  <2> QED
    BY <1>5, <2>1, FailsKeeps, FinishKeeps
<1>6. ASSUME NEW g \in Agents, Discard(g) PROVE KeepsAll
  BY <1>6, DiscardKeeps
<1>7. ASSUME NEW g \in Agents, MoveAway(g) PROVE KeepsAll
  BY <1>7, MoveAwayKeeps
<1> HIDE DEF Deliver, Start, ListFiles, Claim, Read, Place, Look, Insert, Finish, Compare,
             Discard, MoveAway, Commit, Die, KeepsAll
<1> QED
  BY <1>1, <1>2, <1>3, <1>4, <1>5, <1>6, <1>7, Zenon DEF IntakeNext, Step

LEMMA StutterKeeps ==
  ASSUME IntakeOK, IntakeInv, KeepInv, UNCHANGED intakeVars
  PROVE  KeepsAll
<1>1. UNCHANGED <<at, due, agent>>
  BY DEF intakeVars
<1>2. \A n \in Names : Survives(n)
  BY <1>1, StillThere DEF StaysPut
<1>3. KeepInv'
  BY <1>1 DEF KeepInv, SeldomDelivered, FileKept, FewPlaces, Handles, Over, NoMore, Lonely, On,
              DirectoryKept, Matches
<1> QED
  BY <1>2, <1>3 DEF KeepsAll

LEMMA KeepStart == ASSUME IntakeOK, IntakeInit PROVE KeepInv
<1>1. \A g \in Agents : agent[g].phase \notin Working
  BY IdlePass DEF IntakeInit
<1>2. \A f \in Folders, n \in Names : at[f][n] # Nothing => f = "results"
  BY DEF IntakeInit
<1>3. \A n \in Names : FewPlaces(n)
  BY <1>2 DEF FewPlaces, Lonely
<1> QED
  BY <1>1, <1>3 DEF KeepInv, FileKept, DirectoryKept, On, Names

(* A delivered content stays somewhere in the folders under its name until *)
(* a claim overwrites it in processing/: always for a directory, for a     *)
(* file if at most one is delivered after the first.                       *)
THEOREM IntakeContentKept == IntakeSpec => ContentKept
<1>1. IntakeInit => KeepInv
  BY IntakeOK, KeepStart
<1>2. IntakeInv /\ IntakeInv' /\ KeepInv /\ [IntakeNext]_intakeVars => KeepsAll
  BY IntakeOK, StepKeeps, StutterKeeps
<1>3. KeepsAll => KeepInv' /\ \A n \in Names, c \in Contents \union {Malformed} :
                    n \in Directories \/ SeldomDelivered(n) =>
                      (Somewhere(n, c) => Somewhere(n, c)' \/ Overwritten(n))
  BY DEF KeepsAll, Careful, Survives
<1> QED
  BY <1>1, <1>2, <1>3, IntakeAlways, PTL DEF IntakeSpec, ContentKept

================================================================================
