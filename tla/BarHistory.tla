------------------------------ MODULE BarHistory ------------------------------
(***************************************************************************)
(* What ADR-0006 promises of core.daily_bars for one trade date: every     *)
(* instrument has a history that only grows, one revision at a time, and a *)
(* collection extends the histories of some instruments in one go.         *)
(***************************************************************************)
EXTENDS Naturals, Sequences

CONSTANTS Instruments, Contents

VARIABLE history

Init == history = [i \in Instruments |-> <<>>]

Collect(bars) ==
  \E S \in SUBSET Instruments :
    history' = [i \in Instruments |-> IF i \in S THEN Append(history[i], bars[i])
                                                 ELSE history[i]]

Next == \E bars \in [Instruments -> Contents] : Collect(bars)

Spec == Init /\ [][Next]_history
=============================================================================
