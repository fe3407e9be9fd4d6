--------------------------- MODULE MCGovernedReports ---------------------------
(* Three reports of two runs, the second contradicting the first, imported *)
(* in any order; and, one at a time, reports that differ from a correct    *)
(* one in stages, scores, ranking, candidates, sources or text.            *)
EXTENDS GovernedReports, TLC

Stage(input, passed, rejected, missing) ==
  [input |-> input, passed |-> passed, rejected |-> rejected, missing |-> missing]

Score(sector, declared, x, y) ==
  [sector |-> sector, declared |-> declared, dims |-> [x |-> x * Unit, y |-> y * Unit],
   weights |-> [x |-> 1, y |-> 2], absent |-> {}, odd |-> None]

Place(sector, status) == [sector |-> sector, status |-> status]

Run(date, run) ==
  [run |-> run, date |-> date, rules |-> "1.1.2", strategy |-> "v2", schema |-> 1]

(* Scores of sectors 1, 2 and 3: (1/2 + 2 * y) / 3 for y = 1, 1 and 0.     *)
(* With Unit = 300 these are 250, 250 and 50.                              *)
Report(date, run, finished) ==
  [result |-> [producer |-> "succeeded"] @@ Run(date, run),
   quality |-> Run(date, run), finished |-> finished,
   stages |-> <<Stage(<<1, 2, 3, 4>>, <<1, 2, 3>>, <<4>>, <<>>), Stage(<<3, 1, 2>>, <<2, 1>>, <<3>>, <<>>)>>,
   sources |-> {"feed"}, rules |-> {{"feed"}},
   scale |-> [x |-> [min |-> 0, max |-> 2 * Unit], y |-> None],
   scores |-> <<Score(1, 249, 1, 1), Score(2, 252, 1, 1), Score(3, 50, 1, 0)>>,
   ranking |-> <<Place(2, "selected"), Place(1, "selected"), Place(3, "out")>>,
   candidates |-> <<Place(2, "selected")>>,
   missing |-> {},
   says |-> [ids |-> {date, run}, sectors |-> {2}, scores |-> {252}, statuses |-> {"selected"}]]

First == Report(1, 1, 2)

Rival == [First EXCEPT !.finished = 3, !.candidates = <<>>]

(* Every way to let two symbols pass, be rejected or lack data, and others *)
Some    == << <<>>, <<1>>, <<2>>, <<1, 2>>, <<1, 1>> >>
Fates(n) == Stage(<<1, 2>>, Some[(n \div 10) + 1], Some[(n % 5) + 1],
                  IF n % 10 < 5 THEN <<>> ELSE <<2>>)

(* Every ranking of two or three places over scores that are equal or not *)
Ranked(n, k, a, b) ==
  [First EXCEPT
     !.scores = <<Score(1, a, 1, 1), Score(2, b, 1, 1), Score(3, 50, 1, 0)>>,
     !.ranking = SubSeq(<<Place((n % 3) + 1, "selected"), Place(((n \div 3) % 3) + 1, "selected"),
                          Place((n \div 9) + 1, "out")>>, 1, k),
     !.candidates = <<>>]

(* Three scores that are far from each other, close, or not finite, in the *)
(* order in which the validator compares them                              *)
Values == <<250, 251, 252, NaN, Infinity>>

Odd(sector, v) == [Score(sector, v, 1, 1) EXCEPT !.odd = IF v \in NotFinite THEN v ELSE None]

Three(u, v, w) ==
  [First EXCEPT !.scores = <<Odd(1, u), Odd(2, v), Odd(3, w)>>,
                !.ranking = <<Place(1, "out"), Place(2, "out"), Place(3, "out")>>,
                !.candidates = <<>>]

(* Declared NaN over a score that is none, between a low and a high one    *)
Hidden ==
  [First EXCEPT !.scores[2].declared = NaN,
                !.ranking = <<Place(3, "out"), Place(2, "out"), Place(1, "out")>>,
                !.candidates = <<>>]

Other ==
  <<[First EXCEPT !.candidates = <<Place(2, "out")>>],
    [First EXCEPT !.rules = {{"feed"}, {}}],
    [First EXCEPT !.rules = {{"feed", "other"}}],
    [First EXCEPT !.missing = {3}],
    [First EXCEPT !.missing = {4}],
    [First EXCEPT !.scores[3].absent = {"y"}],
    [First EXCEPT !.quality.run = 2],
    [First EXCEPT !.result.date = None],
    [First EXCEPT !.result.producer = "failed_validation"],
    [First EXCEPT !.finished = None],
    [First EXCEPT !.says.scores = {}],
    [First EXCEPT !.scale.x = [min |-> 2 * Unit, max |-> 0]],
    [First EXCEPT !.scale.x = [min |-> Unit, max |-> Unit]],
    [First EXCEPT !.scores[1].declared = Infinity],
    [First EXCEPT !.scores[1].odd = NegInfinity],
    Hidden>>

Written ==
  [n \in 1 .. 323 |->
     CASE n = 1 -> First
       [] n = 2 -> Rival
       [] n = 3 -> Report(2, 2, 1)
       [] n \in 4 .. 53 -> [First EXCEPT !.stages = <<Fates(n - 4)>>]
       [] n \in 54 .. 103 -> [First EXCEPT !.stages[2] = Fates(n - 54)]
       [] n \in 104 .. 130 -> Ranked(n - 104, 3, 252, 249)
       [] n \in 131 .. 157 -> Ranked(n - 131, 3, 252, 252)
       [] n \in 158 .. 166 -> Ranked(n - 158, 2, 251, 252)
       [] n \in 167 .. 175 -> Ranked(n - 167, 2, 249, 249)
       [] n \in 176 .. 180 -> [First EXCEPT !.scores[1].declared = n + 70]
       [] n \in 181 .. 182 -> [First EXCEPT !.candidates = <<Place(n - 180, "selected")>>]
       [] n \in 183 .. 198 -> Other[n - 182]
       [] n \in 199 .. 323 ->
            LET m == n - 199
            IN  Three(Values[(m \div 25) + 1], Values[((m \div 5) % 5) + 1], Values[(m % 5) + 1])]

Imported == {1 .. 3} \union {{n} : n \in 4 .. 323}

ImporterSymmetry == Permutations(Importers)
=============================================================================
