-------------------------- MODULE ObservationAdmission --------------------------
(***************************************************************************)
(* What happens to the observations of an imported run: a re-import of the *)
(* run resolves their instruments, admission commands of the API decide    *)
(* them against their peers, and admitted ones become evidence of research *)
(* cases.  All of them work on the same rows, in READ COMMITTED            *)
(* transactions that read first and write columns of one row (a re-import: *)
(* of each row of its run) unconditionally at the end.  A write and its    *)
(* commit are one step: until then nobody sees the write, and the row lock *)
(* keeps every other write of the row away.                                *)
(*                                                                         *)
(* An observation stands for its identity and its immutable columns; the   *)
(* admission is the one part of its metadata that anybody reads; the rest  *)
(* (candidate_status and what the import wrote) is left out, and so are    *)
(* commands that only answer (a repeated key, a 404, a 409).               *)
(* The reader of peers sees the newest Page rows, whatever their symbol.   *)
(* observed_at is the clock of the import, read before its transaction     *)
(* commits: a row that is committed later may have the earlier one.        *)
(***************************************************************************)
EXTENDS Naturals, FiniteSets

CONSTANTS
  Observations,  \* records [run, symbol, day, payload, unit, observed, id]:
                 \* observed (observed_at) and id (observation_id) are numbers
  Keys,          \* idempotency keys
  Cases,         \* research cases that exist already: number -> symbol
  Importers,     \* processes: imports
  Workers,       \* processes: requests to the API
  Page,          \* the limit of list_recent
  FreshDays,     \* FRESHNESS_WINDOW_DAYS
  MaxDay,        \* bound: the business date
  MaxCases,      \* bound: cases created for an observation
  None

Runs    == {o.run : o \in Observations}
Symbols == {o.symbol : o \in Observations}

Decided  == {"corroborated", "conflict", "admitted", "rejected"}
Statuses == Decided \union {"pending"}

Audits   == [key : Keys, status : Decided]
Rows     == [status : Statuses, instrument : Symbols \union {None},
             admission : Audits \union {None}]
CaseIds  == (DOMAIN Cases) \union (1 .. MaxCases)
Items    == [observation : Observations, admission : Audits]
Listings == [run : Runs, seen : UNION {[S -> Audits \union {None}] : S \in SUBSET Observations}]
Requests == [todo : {"decide"}, of : Observations, key : Keys, was : Rows] \union
            [todo : {"save"}, of : Observations, key : Keys, was : Rows, decision : Decided] \union
            [todo : {"insert"}, item : Items, case : CaseIds \union {None}]

ASSUME AdmissionOK ==
  /\ FreshDays \in Nat /\ MaxDay \in Nat /\ MaxCases \in Nat
  /\ Page \in Nat \ {0}
  /\ IsFiniteSet(Observations)
  /\ \A o \in Observations :
       o.day \in Nat /\ o.unit \in BOOLEAN /\ o.observed \in Nat /\ o.id \in Nat
  /\ \A o, p \in Observations : o.id = p.id => o = p
  /\ (DOMAIN Cases) \intersect (1 .. MaxCases) = {}
  /\ None \notin Observations /\ None \notin Runs /\ None \notin Symbols
  /\ None \notin Audits /\ None \notin CaseIds
  /\ None \notin Rows /\ None \notin Listings /\ None \notin Requests

VARIABLES
  row,       \* integration.external_observations: observation -> row
  listed,    \* symbols with an active instrument
  today,     \* the business date
  cases,     \* number of research cases the evidence requests created
  evidence,  \* analytics.research_external_evidence
  importer, request  \* what each process holds, None in between

vars == <<row, listed, today, cases, evidence, importer, request>>

TypeOK ==
  /\ row \in [Observations -> Rows \union {None}]
  /\ listed \subseteq Symbols
  /\ today \in 0 .. MaxDay
  /\ cases \in 0 .. MaxCases
  /\ evidence \subseteq [case : CaseIds, item : Items]
  /\ importer \in [Importers -> Listings \union {None}]
  /\ request \in [Workers -> Requests \union {None}]

Init ==
  /\ row = [o \in Observations |-> None]
  /\ listed = {}
  /\ today = 0
  /\ cases = 0
  /\ evidence = {}
  /\ importer = [i \in Importers |-> None]
  /\ request = [c \in Workers |-> None]

-----------------------------------------------------------------------------
Imported == {o \in Observations : row[o] # None}

(* Mutant: a re-import writes every observation of the run. *)
AllOfRun(r) == {o \in Imported : o.run = r}

(* The first import adds every observation of a run, without an instrument *)
(* even when its symbol has one.                                           *)
Import(i, r) ==
  /\ importer[i] = None
  /\ \A o \in Imported : o.run # r
  /\ row' = [o \in Observations |->
       IF o.run # r THEN row[o]
       ELSE [status |-> "pending", instrument |-> None, admission |-> None]]
  /\ UNCHANGED <<listed, today, cases, evidence, importer, request>>

Unresolved(r) == {o \in Imported : o.run = r /\ row[o].instrument = None}

(* A later import of the same archive lists the observations; those that   *)
(* have an instrument are left alone, and when all have one nothing comes  *)
(* of it.                                                                  *)
ListRun(i, r) ==
  /\ importer[i] = None
  /\ Unresolved(r) # {}
  /\ importer' = [importer EXCEPT ![i] =
       [run |-> r, seen |-> [o \in Unresolved(r) |-> row[o].admission]]]
  /\ UNCHANGED <<row, listed, today, cases, evidence, request>>

(* Those whose symbol has an instrument by now get it, and the metadata    *)
(* back as it was listed.                                                  *)
SaveResolution(i) ==
  /\ importer[i] # None
  /\ LET seen == importer[i].seen
     IN  row' = [o \in Observations |->
           IF o \in DOMAIN seen /\ o.symbol \in listed
           THEN [row[o] EXCEPT !.instrument = o.symbol,
                               !.admission = seen[o]]
           ELSE row[o]]
  /\ importer' = [importer EXCEPT ![i] = None]
  /\ UNCHANGED <<listed, today, cases, evidence, request>>

-----------------------------------------------------------------------------
Owes(c, todo) == request[c] # None /\ request[c].todo = todo

DecidedUnder(o, k) ==
  \E s \in Statuses : row[o].admission = [key |-> k, status |-> s]

(* A command loads its observation; it goes on only with a pending one     *)
(* that was not decided under its own key.                                 *)
Load(c, o, k) ==
  /\ request[c] = None
  /\ row[o] # None
  /\ row[o].status = "pending"
  /\ ~DecidedUnder(o, k)
  /\ request' = [request EXCEPT ![c] =
       [todo |-> "decide", of |-> o, key |-> k, was |-> row[o]]]
  /\ UNCHANGED <<row, listed, today, cases, evidence, importer>>

Fresh(o) == o.day <= today /\ today - o.day <= FreshDays

(* The order of list_recent: observed_at descending, then observation_id. *)
Newer(q, o) == q.observed > o.observed \/ (q.observed = o.observed /\ q.id < o.id)

(* Its first page. *)
Recent == {o \in Imported : Cardinality({q \in Imported : Newer(q, o)}) < Page}

(* Observations of the same instrument, or of none, and the same day. *)
Peers(o, instrument) ==
  {p \in Recent \ {o} : row[p].instrument = instrument /\ p.day = o.day}

(* Mutant: only what is admitted already can contradict. *)
VerdictOnAdmitted(o, was) ==
  LET peers == Peers(o, was.instrument)
      contradicted == \E p \in peers : p.payload # o.payload /\ row[p].status = "admitted"
      sound == was.instrument # None /\ Fresh(o) /\ o.unit
  IN  IF contradicted THEN "conflict"
      ELSE IF ~sound THEN "rejected"
      ELSE IF peers = {} THEN "corroborated" ELSE "admitted"

(* evaluate_admission on the facts _build_verification derives. *)
Verdict(o, was) ==
  LET peers == Peers(o, was.instrument)
      contradicted == \E p \in peers : p.payload # o.payload
      sound == was.instrument # None /\ Fresh(o) /\ o.unit
  IN  IF contradicted THEN "conflict"
      ELSE IF ~sound THEN "rejected"
      ELSE IF peers = {} THEN "corroborated" ELSE "admitted"

Decide(c) ==
  /\ Owes(c, "decide")
  /\ LET w == request[c]
     IN  request' = [request EXCEPT ![c] =
           [todo |-> "save", of |-> w.of, key |-> w.key, was |-> w.was,
            decision |-> Verdict(w.of, w.was)]]
  /\ UNCHANGED <<row, listed, today, cases, evidence, importer>>

(* save_admission updates status and metadata by primary key: the metadata *)
(* as loaded, with the decision, over whatever was committed since.        *)
SaveAdmission(c) ==
  /\ Owes(c, "save")
  /\ LET w == request[c]
     IN  row' = [row EXCEPT
           ![w.of].status = w.decision,
           ![w.of].admission = [key |-> w.key, status |-> w.decision]]
  /\ request' = [request EXCEPT ![c] = None]
  /\ UNCHANGED <<listed, today, cases, evidence, importer>>

-----------------------------------------------------------------------------
HasEvidence(o) == \E v \in evidence : v.item.observation = o

(* _build_item: only an admitted observation with its audit makes an item. *)
Buildable(o) ==
  /\ row[o] # None
  /\ row[o].instrument # None
  /\ row[o].status = "admitted"
  /\ row[o].admission # None

Holds(c, o, case) ==
  request' = [request EXCEPT ![c] =
    [todo |-> "insert", case |-> case,
     item |-> [observation |-> o, admission |-> row[o].admission]]]

(* A request to open a case for an observation that has evidence returns   *)
(* the case it belongs to.                                                 *)
OpenCase(c, o) ==
  /\ request[c] = None
  /\ ~HasEvidence(o)
  /\ Buildable(o)
  /\ cases < MaxCases
  /\ Holds(c, o, None)
  /\ UNCHANGED <<row, listed, today, cases, evidence, importer>>

(* A request to link an observation to an existing case of its instrument. *)
Link(c, o, case) ==
  /\ request[c] = None
  /\ Buildable(o)
  /\ row[o].instrument = Cases[case]
  /\ Holds(c, o, case)
  /\ UNCHANGED <<row, listed, today, cases, evidence, importer>>

(* Mutant: evidence is unique within its case only. *)
NeverTaken(item) == FALSE

(* evidence_id is made of the observation and the item's content. *)
Taken(item) == \E v \in evidence : v.item = item

(* The evidence is inserted, with its new case in the same transaction.    *)
(* A row of this case and observation is returned or refused; a row of the *)
(* same evidence_id in another case fails the request, and its new case    *)
(* with it.                                                                *)
InsertEvidence(c) ==
  /\ Owes(c, "insert")
  /\ LET w == request[c]
         new == w.case = None
         id == IF new THEN cases + 1 ELSE w.case
         there == \/ Taken(w.item)
                  \/ \E v \in evidence : v.case = id /\ v.item.observation = w.item.observation
     IN  \/ /\ there
            /\ UNCHANGED <<cases, evidence>>
         \/ /\ ~there /\ (new => cases < MaxCases)
            /\ cases' = IF new THEN cases + 1 ELSE cases
            /\ evidence' = evidence \union {[case |-> id, item |-> w.item]}
  /\ request' = [request EXCEPT ![c] = None]
  /\ UNCHANGED <<row, listed, today, importer>>

-----------------------------------------------------------------------------
(* An instrument is registered (external to this part). *)
ListInstrument(s) ==
  /\ s \notin listed
  /\ listed' = listed \union {s}
  /\ UNCHANGED <<row, today, cases, evidence, importer, request>>

NextDay ==
  /\ today < MaxDay
  /\ today' = today + 1
  /\ UNCHANGED <<row, listed, cases, evidence, importer, request>>

Next ==
  \/ \E i \in Importers, r \in Runs : Import(i, r) \/ ListRun(i, r)
  \/ \E i \in Importers : SaveResolution(i)
  \/ \E c \in Workers, o \in Observations, k \in Keys : Load(c, o, k)
  \/ \E c \in Workers : Decide(c) \/ SaveAdmission(c)
  \/ \E c \in Workers, o \in Observations :
       OpenCase(c, o) \/ \E case \in DOMAIN Cases : Link(c, o, case)
  \/ \E c \in Workers : InsertEvidence(c)
  \/ \E s \in Symbols : ListInstrument(s)
  \/ NextDay

Spec == Init /\ [][Next]_vars
-----------------------------------------------------------------------------
Contradict(o, p) == o.symbol = p.symbol /\ o.day = p.day /\ o.payload # p.payload

Admitted(o) == row[o] # None /\ row[o].status = "admitted"

NeverBoth(o, p) ==
  /\ ~(Admitted(o) /\ Admitted(p))
  /\ ~(HasEvidence(o) /\ HasEvidence(p))

(* Of two observations that say different things about one instrument and  *)
(* day and are both on the page of list_recent, at most one was ever       *)
(* admitted or made evidence, however commands, imports and resolutions    *)
(* overlap: whichever was decided later had the other among its peers      *)
(* (_resolve_internal_check, admission.py:66-96), since what is on the     *)
(* page now was on it ever since it was imported.                          *)
NoContradiction ==
  \A o, p \in Recent : Contradict(o, p) => NeverBoth(o, p)

(* An admitted observation keeps the audit of its admission, and evidence  *)
(* carries one: a re-import does not write metadata it listed before the   *)
(* decision over it, because only a resolved observation can be admitted   *)
(* and a resolved one is not written (bridge_ingestor.py:113).  This needs *)
(* imports of one run to come one after the other.                         *)
AdmissionKeepsAudit ==
  /\ \A o \in Observations : Admitted(o) =>
       row[o].admission # None /\ row[o].admission.status = "admitted"
  /\ \A v \in evidence : v.item.admission.status = "admitted"

(* One decision gives evidence to one case only, and no case was opened    *)
(* for an observation without getting its evidence, though both requests   *)
(* look for evidence before they insert it                                 *)
(* (research_external_evidence.py:101, uq_..._evidence_id).                *)
EvidenceOnce ==
  /\ \A u, v \in evidence : u.item = v.item => u.case = v.case
  /\ \A n \in 1 .. cases : \E v \in evidence : v.case = n
=============================================================================
