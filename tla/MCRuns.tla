------------------------------- MODULE MCRuns --------------------------------
(* The host tools' runs that are concurrent or share a machine, each by itself: part says
   which one goes; the others stay where they begin.                                    *)
EXTENDS TapeRun, Pool, TolRun

VARIABLES part,
          machine, ran, checkResults

H == INSTANCE Harness WITH MaxTasks <- 3, results <- checkResults
ASSUME RunsAssumption == PoolParameters /\ H!HarnessParameters /\ TolRunParameters

MCCases == <<"1", "13">>
MCSetup == [c \in {"1", "13"} |-> IF c = "1" THEN 0 ELSE 2]
MCLead == [c \in {"1", "13"} |-> IF c = "1" THEN 16 ELSE 20]
MCHears == [n \in 1..3 |-> n # 2]

checkVars == <<machine, ran, checkResults>>
allVars == <<part, vars, poolVars, checkVars, tolVars>>

AllInit == part \in {"pool", "checks", "tapes", "tolerance"} /\ Init /\ PoolInit /\ H!Init /\ TolInit
AllNext ==
    \/ part = "pool" /\ PoolNext /\ UNCHANGED <<part, vars, checkVars, tolVars>>
    \/ part = "checks" /\ H!Next /\ UNCHANGED <<part, vars, poolVars, tolVars>>
    \/ part = "tapes" /\ Next /\ UNCHANGED <<part, poolVars, checkVars, tolVars>>
    \/ part = "tolerance" /\ TolNext /\ UNCHANGED <<part, vars, poolVars, checkVars>>
\* Every process and feeder is scheduled and the emulated time goes on; nothing makes a fault come.
Fairness ==
    /\ WF_allVars(part = "pool" /\ MainStep /\ UNCHANGED <<part, vars, checkVars, tolVars>>)
    /\ WF_allVars(part = "tapes" /\ Submit /\ UNCHANGED <<part, poolVars, checkVars, tolVars>>)
    /\ WF_allVars(part = "tolerance" /\ ParentStep /\ UNCHANGED <<part, vars, poolVars, checkVars>>)
    /\ \A n \in 1..2 :
         /\ WF_allVars(part = "pool" /\ WorkerStep(n) /\ UNCHANGED <<part, vars, checkVars, tolVars>>)
         /\ WF_allVars(part = "pool" /\ Flush(n) /\ UNCHANGED <<part, vars, checkVars, tolVars>>)
         /\ WF_allVars(part = "tapes" /\ Collect(MCCases[n]) /\ UNCHANGED <<part, poolVars, checkVars, tolVars>>)
         /\ WF_allVars(part = "tapes" /\ Step(MCCases[n]) /\ UNCHANGED <<part, poolVars, checkVars, tolVars>>)
         /\ WF_allVars(part = "tolerance" /\ TolStep(n) /\ UNCHANGED <<part, vars, poolVars, checkVars>>)
         /\ WF_allVars(part = "tolerance" /\ Feed(n) /\ UNCHANGED <<part, vars, poolVars, checkVars>>)
AllSpec == AllInit /\ [][AllNext]_allVars /\ Fairness

\* Harness's property (there with what it says of the code).
SameInEveryOrder == H!SameInEveryOrder

\* Whatever is killed, signalled, dropped or late, run_pool returns, tapetest's run_all reports every case asked for, and
\* tapetol's run ends with no emulator left but a killed worker's.
EveryRunEnds ==
    <>(CASE part = "pool" -> Ended
         [] part = "tapes" -> EveryCaseReported
         [] part = "tolerance" -> TolEnded
         [] OTHER -> TRUE)
=============================================================================
