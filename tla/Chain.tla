-------------------------------- MODULE Chain --------------------------------
(* _chain of server.py: models asked one after the other, each over what the   *)
(* last ones said, under one timeout; Fable reconciles what there is when the  *)
(* last stage fails.                                                           *)
EXTENDS Panel

VARIABLES
  length,   \* the stages of the pipeline
  steps     \* what they have answered so far

chainVars == <<length, steps>>

ChainInit == length = 0 /\ steps = <<>>

Survivors(said) == {i \in DOMAIN said : Answered(said[i])}
LastOf(indices) == CHOOSE i \in indices : \A j \in indices : j <= i

\* Nobody was named, or the guard denies the question, or the stages begin.
ChainOpen ==
  /\ pc = "chain"
  /\ IF length = 0 THEN Return([tool |-> "chain", status |-> "error"], FALSE)
     ELSE \/ Return([tool |-> "chain", status |-> "refused"], FALSE)
          \/ Goto("stage")
  /\ UNCHANGED chainVars

\* The payload of a chain that answered: from the stage `at`, or from Fable (0).
Delivered(said, at, fellBack) ==
  Return([tool |-> "chain", status |-> "ok", at |-> at, fallback |-> fellBack,
          answered |-> Cardinality(Survivors(said))],
         ~fellBack /\ \A i \in DOMAIN said : ~CutOff(said[i]))

\* One stage.  After the last: it answered, or someone did, or nobody.
Stage ==
  /\ pc = "stage"
  /\ \E r \in Voices \cup Failures : steps' = Append(steps, r)
  /\ IF Len(steps') < length THEN UNCHANGED panelVars
     ELSE IF Answered(steps'[length]) THEN Delivered(steps', length, FALSE)
     ELSE IF Survivors(steps') # {} THEN Goto("rescue")
     ELSE Return([tool |-> "chain", status |-> IF Failed("refused") \in {steps'[i] : i \in 1..length}
                                               THEN "refused" ELSE "error"], FALSE)
  /\ UNCHANGED length

\* The timeout falls at a stage; nothing of the stages is kept but their names.
ChainTimesOut ==
  /\ pc = "stage"
  /\ Return([tool |-> "chain", status |-> "error"], FALSE)
  /\ UNCHANGED chainVars

\* Fable reconciles the survivors; disabled or failing, the last of them stands.
ChainRescue ==
  /\ pc = "rescue"
  /\ \E at \in {0, LastOf(Survivors(steps))} : Delivered(steps, at, TRUE)
  /\ UNCHANGED chainVars

ChainNext == ChainOpen \/ Stage \/ ChainTimesOut \/ ChainRescue
=============================================================================
