----------------------------- MODULE ReportVerdict -----------------------------
(***************************************************************************)
(* What the governance validator says of one daily report of WorkBuddy.    *)
(*                                                                         *)
(* A report is a triplet of files.  "result" and "quality" hold what their *)
(* JSON says of the run (run, date, rules, strategy, schema: None when it  *)
(* is missing or has an unsafe form); the other fields are the facts of    *)
(* the result, and "says" is what the Markdown text mentions.  Sectors,    *)
(* runs and dates are numbers in the order of their strings.  Files that   *)
(* cannot be found or parsed are a report without a run.                   *)
(*                                                                         *)
(* Scores are what JSON and Python make of them: also NaN and infinities,  *)
(* and otherwise whole numbers of 1/Unit.  Every finite double is one, if  *)
(* Unit is large enough; that sums and quotients are rounded is left out.  *)
(* Weights are in a unit of their own.                                     *)
(***************************************************************************)
EXTENDS Integers, Sequences, FiniteSets, SequencesExt

CONSTANTS
  None,
  NaN, Infinity, NegInfinity,
  Unit,       \* 1.0
  Tolerance,  \* 0.01: of a declared score
  Tie         \* 1e-9: of a comparison of scores

NotFinite == {NaN, Infinity, NegInfinity}
Numbers   == Int \union NotFinite

ASSUME NumbersOK ==
  /\ {Unit, Tolerance} \subseteq Nat \ {0} /\ Tie \in Nat
  /\ None \notin Numbers
  /\ NotFinite \intersect Int = {}
  /\ NaN # Infinity /\ NaN # NegInfinity /\ Infinity # NegInfinity

ProducerStatuses ==
  {"succeeded", "failed_validation", "failed_execution", "needs_rule_confirmation"}
CompatibleRules == {"1.1.1", "1.1.2"}

(* What the fields of a report hold that JSON could be read for.           *)
Stages == [input : Seq(Nat), passed : Seq(Nat), rejected : Seq(Nat), missing : Seq(Nat)]

Readable(r) ==
  /\ {r.result.date, r.result.run, r.finished} \subseteq Nat \union {None}
  /\ r.stages \in Seq(Stages)
  /\ \A f \in {"scores", "ranking"} :
       /\ Len(r[f]) \in Nat
       /\ \A i \in 1 .. Len(r[f]) : r[f][i].sector \in Nat \union {None}
  /\ \A i \in 1 .. Len(r.scores) : r.scores[i].declared \in Numbers \union {None}

(* The files agree about the run, and it is of a version that is known.    *)
IdentityHolds(r) ==
  /\ \A f \in {"run", "date", "rules", "strategy"} : r.result[f] # None
  /\ r.result.producer \in ProducerStatuses
  /\ \A f \in {"run", "date"} : r.quality[f] # None
  /\ \A f \in {"run", "date", "rules", "strategy"} : r.quality[f] \in {None, r.result[f]}
  /\ \A file \in {r.result, r.quality} :
       /\ file.schema # None /\ file.schema < 2
       /\ file.rules \in CompatibleRules

-----------------------------------------------------------------------------
(* Stages: sequences of symbols that come in, pass, are rejected or lack data *)

StageHolds(s) ==
  /\ IsInjective(s.input)
  /\ Len(s.input) = Len(s.passed) + Len(s.rejected) + Len(s.missing)
  /\ ToSet(s.passed) \intersect ToSet(s.rejected) = {}
  /\ ToSet(s.passed) \intersect ToSet(s.missing) = {}
  /\ ToSet(s.rejected) \intersect ToSet(s.missing) = {}
  /\ ToSet(s.passed) \union ToSet(s.rejected) \union ToSet(s.missing) = ToSet(s.input)

StagesHold(r) ==
  /\ r.stages # <<>>
  /\ \A i \in 1 .. Len(r.stages) : StageHolds(r.stages[i])
  /\ \A i \in 1 .. Len(r.stages) - 1 :
       ToSet(r.stages[i].passed) = ToSet(r.stages[i + 1].input)

(* Every rule names sources, and each of them is one of the report's.      *)
RulesHold(r) == \A refs \in r.rules : refs # {} /\ refs \subseteq r.sources

-----------------------------------------------------------------------------
(* Comparisons, as doubles make them: all are false of NaN                 *)

Distance(x, y) == IF x > y THEN x - y ELSE y - x

(* x > y + by *)
Exceeds(x, y, by) ==
  IF {x, y} \subseteq Int THEN x > y + by
  ELSE NaN \notin {x, y} /\ x # y /\ (x = Infinity \/ y = NegInfinity)

Close(x, y) == {x, y} \subseteq Int /\ Distance(x, y) <= Tie

(* Not abs(x - y) > TOLERANCE: infinity minus infinity is NaN. *)
Agrees(x, y) ==
  IF {x, y} \subseteq Int THEN Distance(x, y) <= Tolerance ELSE NaN \in {x, y} \/ x = y

-----------------------------------------------------------------------------
(* Scores: [sector, declared, dims, weights, absent, odd], where dims and  *)
(* weights are functions of dimensions and absent is the set of dimensions *)
(* with status "missing".  scale is a function, too: [min, max] or None.   *)
(* odd is what the weighted mean comes to when a number in it is not       *)
(* finite, or the arithmetic overflows; it is None otherwise.              *)

(* A dimension score as the fraction num / den. *)
Normalized(raw, scale) ==
  CASE scale = None -> [num |-> raw, den |-> Unit]
    [] scale # None /\ scale.max = scale.min -> [num |-> 0, den |-> 1]
    [] scale # None /\ scale.max > scale.min -> [num |-> raw - scale.min, den |-> scale.max - scale.min]
    [] OTHER -> [num |-> scale.min - raw, den |-> scale.min - scale.max]

Computable(e) ==
  /\ \A d \in DOMAIN e.dims : e.dims[d] # None /\ d \in DOMAIN e.weights
  /\ SumFunctionOnSet(e.weights, DOMAIN e.dims) # 0

(* The weighted mean of the normalized dimension scores *)
Recomputed(e, scale) ==
  LET n      == [d \in DOMAIN e.dims |-> Normalized(e.dims[d], scale[d])]
      common == FoldFunction(LAMBDA x, y : x.den * y, 1, n)
      part   == [d \in DOMAIN n |-> n[d].num * (common \div n[d].den) * e.weights[d]]
  IN  [num |-> SumFunction(part), den |-> common * SumFunctionOnSet(e.weights, DOMAIN n)]

ScoreHolds(e, scale) ==
  /\ e.sector # None /\ e.declared # None
  /\ \/ e.odd # None /\ Agrees(e.declared, e.odd)
     \/ /\ e.odd = None /\ Computable(e)
        /\ \/ e.declared = NaN
           \/ /\ e.declared \in Int
              /\ LET c == Recomputed(e, scale)
                 IN  Distance(e.declared * c.den, Unit * c.num) <= Tolerance * Distance(c.den, 0)

ScoresHold(r) ==
  /\ r.scores # <<>>
  /\ \A i \in 1 .. Len(r.scores) : ScoreHolds(r.scores[i], r.scale)

(* The last entry of a sector wins. *)
ScoreOf(r) ==
  LET given(s) == {i \in 1 .. Len(r.scores) : r.scores[i].sector = s /\ r.scores[i].declared # None}
  IN  [s \in {r.scores[i].sector : i \in {j \in 1 .. Len(r.scores) : r.scores[j].declared # None}}
         |-> r.scores[CHOOSE i \in given(s) : \A j \in given(s) : j <= i].declared]

-----------------------------------------------------------------------------
(* Ranking and candidates: sequences of [sector, status] *)

(* Mutant: only the scores are compared. *)
MayFollowByScore(r, s, t) == ~Exceeds(ScoreOf(r)[t], ScoreOf(r)[s], Tie)

(* t may follow s: by score, then by identifier. *)
MayFollow(r, s, t) ==
  LET score == ScoreOf(r)
  IN  ~Exceeds(score[t], score[s], Tie) /\ ~(Close(score[s], score[t]) /\ t < s)

RankingHolds(r) ==
  /\ r.ranking # <<>>
  /\ \A i \in 1 .. Len(r.ranking) : r.ranking[i].sector \in DOMAIN ScoreOf(r)
  /\ \A i \in 1 .. Len(r.ranking) - 1 :
       MayFollow(r, r.ranking[i].sector, r.ranking[i + 1].sector)

(* Statuses are compared by position; a candidate's sector is not. *)
CandidatesHold(r) ==
  /\ Len(r.candidates) <= Len(r.ranking)
  /\ \A i \in 1 .. Len(r.candidates) : r.candidates[i].status = r.ranking[i].status

MissingNotUsed(r) ==
  r.missing \intersect ({r.scores[i].sector : i \in 1 .. Len(r.scores)}
                          \union {r.ranking[i].sector : i \in 1 .. Len(r.ranking)}) = {}

MarkdownHolds(r) ==
  /\ {r.result.run, r.result.date} \subseteq r.says.ids
  /\ \A i \in 1 .. Len(r.candidates) :
       LET c == r.candidates[i] IN
       c.sector # None =>
         /\ c.sector \in r.says.sectors
         /\ c.sector \in DOMAIN ScoreOf(r) => ScoreOf(r)[c.sector] \in r.says.scores
         /\ c.status \in r.says.statuses \union {None}

-----------------------------------------------------------------------------
FactsHold(r) ==
  /\ StagesHold(r)
  /\ RulesHold(r)
  /\ MissingNotUsed(r)
  /\ ScoresHold(r)
  /\ RankingHolds(r)
  /\ CandidatesHold(r)
  /\ MarkdownHolds(r)

Incomplete(r) == r.missing # {} \/ \E i \in 1 .. Len(r.scores) : r.scores[i].absent # {}

Verdict(r) ==
  IF ~IdentityHolds(r) \/ ~FactsHold(r) THEN "rejected"
  ELSE IF Incomplete(r) THEN "partial"
  ELSE "accepted"
=============================================================================
