---------------------------- MODULE TurnLifecycle ----------------------------
(***************************************************************************)
(* What a turn promises to the session that started it, without samples,  *)
(* tools, effects or commands: it works, decides once how it ends,        *)
(* settles the workspace changes it holds the way that ending calls for,  *)
(* and only then ends.  TurnKernel is shown to implement this module.     *)
(***************************************************************************)
VARIABLES
  stage,     \* "running", "settling" or "ended"
  ending,    \* the decided ending: "none", "completed", "failed", "canceled"
  changes,   \* the turn's workspace changes, and what became of them
  answer     \* the published answer: "empty" or "text"

vars == <<stage, ending, changes, answer>>

Endings == {"completed", "failed", "canceled"}

TypeOK ==
  /\ stage \in {"running", "settling", "ended"}
  /\ ending \in Endings \union {"none"}
  /\ changes \in {"none", "held", "kept", "draft", "restored"}
  /\ answer \in {"empty", "text"}

Init ==
  /\ stage = "running" /\ ending = "none"
  /\ changes = "none" /\ answer = "empty"

\* A tool changed the workspace; the journal holds what it replaced.
Change ==
  /\ stage = "running"
  /\ changes = "none"
  /\ changes' = "held"
  /\ UNCHANGED <<stage, ending, answer>>

Decide(d) ==
  /\ stage = "running"
  /\ stage' = "settling"
  /\ ending' = d
  /\ UNCHANGED <<changes, answer>>

\* A completed turn keeps its changes; any other turn either leaves them as a
\* draft that a later turn can resume, or restores the files.
Fates(d) == IF d = "completed" THEN {"kept"} ELSE {"draft", "restored"}

Settle(fate) ==
  /\ stage = "settling"
  /\ changes \in {"none", "held"}
  /\ fate \in Fates(ending)
  /\ changes' = fate
  /\ UNCHANGED <<stage, ending, answer>>

\* The end publishes the answer of a completed turn, and of no other.
End ==
  /\ stage = "settling"
  /\ changes # "held"
  /\ stage' = "ended"
  /\ answer' = IF ending = "completed" THEN "text" ELSE "empty"
  /\ UNCHANGED <<ending, changes>>

Next ==
  \/ Change
  \/ \E d \in Endings : Decide(d)
  \/ \E fate \in {"kept", "draft", "restored"} : Settle(fate)
  \/ End

Spec == Init /\ [][Next]_vars

=============================================================================
