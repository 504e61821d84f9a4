------------------------------ MODULE CatchSpec ------------------------------
(***************************************************************************)
(* What CATCH and THROW promise, without a machine stack: a THROW ends the  *)
(* innermost active CATCH and no other, and gives back the source and the   *)
(* data stack depth that CATCH was entered with, n on top.  BREAK is a      *)
(* THROW raised at any moment, during another one too; an error CATCH       *)
(* cannot see ends every active CATCH.                                      *)
(***************************************************************************)
EXTENDS Naturals, SequencesExt

CONSTANTS Sources, Depths

VARIABLES
  acts,  \* the active CATCHes, innermost last: the source and depth to give back
  mode,  \* idle, run, raise (a THROW with no CATCH chosen yet), throw, report
  src,   \* the source being interpreted
  depth  \* the data stack's depth

vars == <<acts, mode, src, depth>>

Act == [src : Sources, depth : Depths]
Idle == [k |-> "idle"]
Run == [k |-> "run"]
Raise == [k |-> "raise"]
Report == [k |-> "report"]
To(a) == [k |-> "throw", to |-> a]

Init == acts = <<>> /\ mode = Idle /\ src \in Sources /\ depth = 0

Begin == \* a line is run
  mode = Idle /\ mode' = Run /\ src' \in Sources /\ UNCHANGED <<acts, depth>>

Work == \* words run, nested sources come and go
  mode = Run /\ src' \in Sources /\ depth' \in Depths /\ UNCHANGED <<acts, mode>>

Catch ==
  /\ mode = Run
  /\ acts' = Append(acts, [src |-> src, depth |-> depth])
  /\ UNCHANGED <<mode, src, depth>>

Return == \* xt returned in the source CATCH was entered in
  /\ mode = Run /\ acts # <<>>
  /\ src = Last(acts).src
  /\ acts' = Front(acts)
  /\ depth' = depth + 1
  /\ UNCHANGED <<mode, src>>

Raised == \* THROW, or BREAK -- at any moment
  mode' = Raise /\ UNCHANGED <<acts, src, depth>>

Taken ==
  /\ mode = Raise /\ acts # <<>>
  /\ mode' = To(Last(acts))
  /\ acts' = Front(acts)
  /\ UNCHANGED <<src, depth>>

Unwinding ==
  /\ mode.k = "throw"
  /\ src' \in Sources /\ depth' \in Depths
  /\ UNCHANGED <<acts, mode>>

Resumed ==
  /\ mode.k = "throw"
  /\ src' = mode.to.src
  /\ depth' = mode.to.depth + 1
  /\ mode' = Run
  /\ UNCHANGED acts

Uncaught == \* no CATCH is active: the stacks are emptied
  /\ mode = Raise /\ acts = <<>>
  /\ mode' = Report /\ depth' = 0
  /\ UNCHANGED <<acts, src>>

Failed == \* an error CATCH does not see
  /\ mode = Run /\ mode' = Report
  /\ depth' \in {0, depth} /\ src' \in Sources
  /\ UNCHANGED acts

Reported == mode = Report /\ mode' = Idle /\ acts' = <<>> /\ UNCHANGED <<src, depth>>

Finished == \* the line is done: no CATCH is left active
  mode = Run /\ acts = <<>> /\ mode' = Idle /\ UNCHANGED <<acts, src, depth>>

Next == \/ Begin \/ Work \/ Catch \/ Return \/ Raised \/ Taken \/ Unwinding
        \/ Resumed \/ Uncaught \/ Failed \/ Reported \/ Finished

Spec == Init /\ [][Next]_vars
=============================================================================
