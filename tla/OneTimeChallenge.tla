-------------------------- MODULE OneTimeChallenge --------------------------
(***************************************************************************)
(* What challenge-response promises the application: a challenge is issued *)
(* once; the other side receives it any number of times, the medium        *)
(* repeating it, and gives at most one answer for each time; and of all    *)
(* the answers to a challenge at most one is accepted.  Nothing is said of *)
(* time, of the medium, or of how challenges are kept.                     *)
(***************************************************************************)
EXTENDS Naturals

CONSTANT Challenge

VARIABLES
  issued,    \* challenges sent out
  received,  \* how often the other side received each challenge,
  answered,  \* how many answers it gave to each,
  accepted   \* and how many of these were accepted

Never == [c \in Challenge |-> 0]

Init == issued = {} /\ received = Never /\ answered = Never /\ accepted = Never

Issue(c) ==
  /\ c \notin issued
  /\ issued' = issued \cup {c}
  /\ UNCHANGED <<received, answered, accepted>>

Receive(c) ==
  /\ c \in issued
  /\ received' = [received EXCEPT ![c] = @ + 1]
  /\ UNCHANGED <<issued, answered, accepted>>

Answer(c) ==
  /\ answered[c] < received[c]
  /\ answered' = [answered EXCEPT ![c] = @ + 1]
  /\ UNCHANGED <<issued, received, accepted>>

Accept(c) ==
  /\ answered[c] > 0
  /\ accepted[c] = 0
  /\ accepted' = [accepted EXCEPT ![c] = 1]
  /\ UNCHANGED <<issued, received, answered>>

Next == \E c \in Challenge : Issue(c) \/ Receive(c) \/ Answer(c) \/ Accept(c)

Spec == Init /\ [][Next]_<<issued, received, answered, accepted>>
=============================================================================
