----------------------------- MODULE CountOnce -----------------------------
(****************************************************************************)
(* What a recursive search promises of its total, be it a sum of results as *)
(* in grepThwShandMQ (HW05/main.c) or a number of lines counted in a log as *)
(* in the others (HW02 to HW04): every file of the tree contributes exactly *)
(* once, with the number of matches in it or with ERROR, unless an error on *)
(* the way to it excuses it; and the answer is the sum of all the           *)
(* contributions, unless ^C cut the search short.                           *)
(****************************************************************************)
EXTENDS Integers

CONSTANTS Files, matches, NoResult

ERROR == -1

VARIABLES
  counted,      \* the files that have contributed
  excused,      \* the files nobody will search
  sum,          \* the sum of the contributions
  interrupted,  \* ^C was pressed
  answer        \* what was reported

vars == <<counted, excused, sum, interrupted, answer>>

Init ==
  /\ counted = {}
  /\ excused = {}
  /\ sum = 0
  /\ interrupted = FALSE
  /\ answer = NoResult

\* An answer given without an interrupt is final: no file contributes later.
Count(f) ==
  /\ f \notin counted \cup excused
  /\ answer = NoResult \/ interrupted
  /\ counted' = counted \cup {f}
  /\ \E n \in {matches[f], ERROR} : sum' = sum + n
  /\ UNCHANGED <<excused, interrupted, answer>>

Excuse(S) ==
  /\ S \cap counted = {}
  /\ excused' = excused \cup S
  /\ UNCHANGED <<counted, sum, interrupted, answer>>

Interrupt ==
  /\ interrupted' = TRUE
  /\ UNCHANGED <<counted, excused, sum, answer>>

Answer ==
  /\ answer = NoResult
  /\ interrupted \/ counted \cup excused = Files
  /\ answer' = sum
  /\ UNCHANGED <<counted, excused, sum, interrupted>>

\* The named directory itself could not be opened.
GiveUp ==
  /\ answer = NoResult
  /\ counted = {}
  /\ excused' = Files
  /\ answer' = ERROR
  /\ UNCHANGED <<counted, sum, interrupted>>

Next ==
  \/ \E f \in Files : Count(f)
  \/ \E S \in SUBSET Files : Excuse(S)
  \/ Interrupt \/ Answer \/ GiveUp

Spec == Init /\ [][Next]_vars
=============================================================================
