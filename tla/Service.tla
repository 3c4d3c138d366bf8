---------------------------------- MODULE Service --------------------------------
(* The gateway with its access log: the step in which a request gets its log line is  *)
(* the step that inserts a row, and a restart of the process is one of both.          *)
EXTENDS Gateway, AccessLog

serviceVars == <<vars, logVars>>

ServiceInit == Init /\ LogInit

(* Does access_log.add raise in this step of a request?                               *)
LineRaises ==
    \E r \in Requests : \/ req'[r].rejudged > req[r].rejudged
                       \/ (req'[r].missed /\ ~req[r].missed)

(* access_log.add, called in the stretch of code that answers a request.              *)
LogLines ==
    LET line == \E r \in Requests : req'[r].logs > req[r].logs
    IN  CASE LineRaises /\ line  -> AddUncleaned
          [] LineRaises /\ ~line -> AddLost
          [] ~LineRaises /\ line -> \E keep \in Retains : Add(keep)
          [] OTHER               -> UNCHANGED logVars

Reopens == Restart \/ RestartBlind

Reopen == Reopens /\ Open

(* DELETE /api/logs.                                                                  *)
ClearLogs == Clear /\ UNCHANGED vars

(* A line for no request of Gateway's: tokens are estimated for want of an upstream   *)
(* that counts them, or the request to count them is refused.                         *)
CountLine == (\E keep \in Retains : Add(keep)) /\ UNCHANGED vars

CountLineRaises ==
    /\ "log_error" \in Faults
    /\ AddLost \/ AddUncleaned
    /\ UNCHANGED vars

ServiceNext ==
    \/ Serve /\ LogLines
    \/ Tick /\ LogLines
    \/ CountLine
    \/ CountLineRaises
    \/ Reopen
    \/ ClearLogs

ServiceSpec == ServiceInit /\ [][ServiceNext]_serviceVars

(* As Gateway's FairSpec.                                                             *)
FairService ==
    /\ ServiceSpec
    /\ WF_serviceVars(Tick /\ LogLines)
    /\ \A r \in Requests :
          /\ WF_serviceVars(Answer(r) /\ LogLines)
          /\ WF_serviceVars(LoopFree /\ Leave(r) /\ LogLines)
          /\ \A S \in Routes : SF_serviceVars(LoopFree /\ Arrive(r, S, FALSE, FALSE) /\ LogLines)
----------------------------------------------------------------------------------
ServiceTypeOK == TypeOK /\ LogTypeOK

(* The table's rows without those inserted since the last look.                       *)
WithinLimit == \E keep \in Retains : rows <= Limit(keep) + since

(* Retention: once the table is within the limit of some setting, only rows inserted  *)
(* since the last look can take it beyond it, so by fewer than Interval, whatever the *)
(* requests do and however the setting changes, as long as the process lives and      *)
(* SQLite raises in no insert or clean-up.                                            *)
Upset == Reopens \/ LineRaises \/ CountLineRaises

StaysTrimmed == [][WithinLimit => WithinLimit' \/ Upset]_serviceVars

==================================================================================
