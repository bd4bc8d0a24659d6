------------------------ MODULE RegistrationHistory ------------------------
(***************************************************************************)
(* The application with a history variable: the epoch in which each        *)
(* validator was registered, which the code does not record.               *)
(***************************************************************************)
EXTENDS MCApp

VARIABLE regEpoch

historyVars == <<vars, regEpoch>>

HistoryInit == Init /\ regEpoch = [a \in Addrs |-> 0]

HistoryNext ==
    /\ Next
    /\ regEpoch' = [a \in Addrs |->
                      IF a \notin Registered /\ a \in Registered'
                      THEN currentEpoch
                      ELSE regEpoch[a]]

HistorySpec == HistoryInit /\ [][HistoryNext]_historyVars

\* dai/implementation-plan.md:297 "After 4 consecutive epochs of serving
\* inactivity: quadratic drain begins": the drain takes nothing from a validator
\* that has not been registered for that many epochs.
DrainNeedsFourEpochs ==
    [][\A a \in Addrs :
          phase = "drain" /\ val'[a].Bond < val[a].Bond =>
             currentEpoch - regEpoch[a] > InactivityThresholdEpochs]_historyVars
=============================================================================
