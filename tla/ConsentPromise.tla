--------------------------- MODULE ConsentPromise ---------------------------
(***************************************************************************)
(* What the consent record promises a data subject, with no transactions:  *)
(* for each notice one current answer, which she replaces by answering     *)
(* again and narrows by withdrawing.  A withdrawal takes effect on the     *)
(* answer that stands when it is recorded, whatever else is in flight.     *)
(***************************************************************************)
CONSTANTS Subjects, Notices, Purposes, PurposesOf, Mandatory, Answered

VARIABLE answer   \* the current answer of each person to each notice

Answer == [given : BOOLEAN, granted : SUBSET Purposes]

Unanswered == [given |-> FALSE, granted |-> {}]
Given(grants) == [given |-> TRUE, granted |-> grants]

Init ==
  answer = [p \in Subjects \X Notices |->
              IF p \in Answered THEN Given(PurposesOf[p[2]]) ELSE Unanswered]

\* She answers every purpose of the notice and grants the mandatory ones.
GiveConsent(s, n) ==
  \E grants \in SUBSET PurposesOf[n] :
    /\ Mandatory[n] \subseteq grants
    /\ answer' = [answer EXCEPT ![<<s, n>>] = Given(grants)]

\* She withdraws some purposes from the answer that stands.
WithdrawConsent(s, n) ==
  /\ answer[<<s, n>>].given
  /\ \E targets \in SUBSET PurposesOf[n] :
       answer' = [answer EXCEPT ![<<s, n>>] =
                    Given(answer[<<s, n>>].granted \ targets)]

Next == \E s \in Subjects, n \in Notices : GiveConsent(s, n) \/ WithdrawConsent(s, n)

Spec == Init /\ [][Next]_answer
=============================================================================
