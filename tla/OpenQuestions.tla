---------------------------- MODULE OpenQuestions ----------------------------
(***************************************************************************)
(* What the queue of unknown domains promises: each domain is a question,  *)
(* open until one answer settles it; a verdict is never asked for again.   *)
(* A question that two runs take up at once is contended from then on, and *)
(* nothing is promised about it.                                           *)
(***************************************************************************)

CONSTANT Domains

VARIABLES question,   \* "absent", "open", "answered", "contended" or how it ended
          answer      \* the last answer about each domain

vars == <<question, answer>>

Init ==
  /\ question \in [Domains -> {"absent", "open"}]
  /\ answer = [d \in Domains |-> "nothing"]

(* Seen in a log: a verdict stays, what ended without one is open again.   *)
See(S) ==
  /\ question' = [d \in Domains |->
       IF d \in S /\ question[d] \in {"absent", "review"} THEN "open" ELSE question[d]]
  /\ UNCHANGED answer

Ask(d) ==
  /\ question[d] = "open" /\ question' = [question EXCEPT ![d] = "answered"]
  /\ \E a \in {"malicious", "evidence", "nothing"} : answer' = [answer EXCEPT ![d] = a]

Settle(d) ==
  /\ question[d] = "answered"
  /\ question' = [question EXCEPT ![d] =
       CASE answer[d] = "malicious" -> "malicious"
         [] answer[d] = "evidence"  -> "clean"
         [] answer[d] = "nothing"   -> "review"]
  /\ UNCHANGED answer

(* The answer is lost before it is stored. *)
Drop(d) ==
  /\ question[d] = "answered" /\ question' = [question EXCEPT ![d] = "open"]
  /\ UNCHANGED answer

Contend(S) ==
  /\ \A d \in S : question[d] = "open"
  /\ question' = [d \in Domains |-> IF d \in S THEN "contended" ELSE question[d]]
  /\ UNCHANGED answer

AskContended(d) ==
  /\ question[d] = "contended"
  /\ answer' \in [Domains -> {"malicious", "evidence", "nothing"}]
  /\ \A x \in Domains \ {d} : answer'[x] = answer[x]
  /\ UNCHANGED question

Next ==
  \/ \E S \in SUBSET Domains : See(S) \/ Contend(S)
  \/ \E d \in Domains : Ask(d) \/ Settle(d) \/ Drop(d) \/ AskContended(d)

Spec == Init /\ [][Next]_vars

-----------------------------------------------------------------------------

(* A verdict is the one of the answer that was last obtained. *)
Sound ==
  \A d \in Domains :
    /\ question[d] = "malicious" => answer[d] = "malicious"
    /\ question[d] = "clean" => answer[d] = "evidence"

=============================================================================
