---------------------------- MODULE ChangeLedger -----------------------------
(***************************************************************************)
(* What the update manager promises about the changes given to it, without *)
(* queue, threads and builds: a change waits, is opened in the order of    *)
(* arrival, whatever the changes opened before it are doing, and ends once *)
(* and for all.                                                            *)
(***************************************************************************)

VARIABLES
  waiting,  \* changes not opened yet
  before,   \* the order in which they arrived
  open,     \* changes in processing
  ended

ledgerVars == <<waiting, before, open, ended>>

Init ==
  /\ waiting = {}
  /\ before = {}
  /\ open = {}
  /\ ended = {}

\* R is a strict linear order of S.
Orders(R, S) ==
  /\ R \subseteq S \X S
  /\ \A c \in S : <<c, c>> \notin R
  /\ \A c, d \in S : c # d => <<c, d>> \in R \/ <<d, c>> \in R
  /\ \A c, d, e \in S : <<c, d>> \in R /\ <<d, e>> \in R => <<c, e>> \in R

\* One new change arrives, or several at once: after all that wait already.
Arrive ==
  /\ waiting \subseteq waiting'
  /\ LET new == waiting' \ waiting
     IN /\ new # {}
        /\ new \cap (open \cup ended) = {}
        /\ waiting \X new \subseteq before'
  /\ before' \cap (waiting \X waiting) = before
  /\ Orders(before', waiting')
  /\ UNCHANGED <<open, ended>>

\* The first of those that wait is opened.
Open ==
  /\ \E c \in waiting :
       /\ \A d \in waiting : <<d, c>> \notin before
       /\ waiting' = waiting \ {c}
       /\ open' = open \cup {c}
  /\ before' = before \cap (waiting' \X waiting')
  /\ UNCHANGED ended

End ==
  /\ \E c \in open :
       /\ open' = open \ {c}
       /\ ended' = ended \cup {c}
  /\ UNCHANGED <<waiting, before>>

Next == Arrive \/ Open \/ End

Spec == Init /\ [][Next]_ledgerVars
=============================================================================
