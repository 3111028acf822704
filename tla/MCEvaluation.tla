---------------------------- MODULE MCEvaluation ----------------------------
(***************************************************************************)
(* An instance of the evaluation model for TLC.                            *)
(***************************************************************************)
EXTENDS EvaluationRuns, TLC

CONSTANTS gate, search

\* One run of each type: the gate over the whole set, retrieval over a split.
Asked == (gate :> [type |-> "answerability", split |-> "all"])
      @@ (search :> [type |-> "retrieval", split |-> "test"])

Label(a, s, x) == [answerable |-> a, split |-> s, security |-> x]

\* Three validation cases and one other: a test case that can be answered, a
\* test case that cannot, a security case of the validation split, or none.
Datasets ==
  {[c \in Cases |-> CASE c = 1 -> Label(TRUE, "validation", FALSE)
                      [] c = 2 -> Label(FALSE, "validation", FALSE)
                      [] c = 3 -> Label(third, "validation", FALSE)
                      [] OTHER -> last] :
     third \in BOOLEAN,
     last \in {Label(TRUE, "test", FALSE), Label(FALSE, "test", FALSE),
               Label(FALSE, "validation", TRUE)}}
=============================================================================
