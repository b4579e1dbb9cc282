-------------------------- MODULE AuditExportsProofs --------------------------
(***************************************************************************)
(* For every number of exports, passes and faults: a requester told that   *)
(* its export is ready can download it unless a step threw on it, and no   *)
(* file with Sensitive data is offered behind the back of the audit trail. *)
(***************************************************************************)
EXTENDS AuditExports, TLAPS

\* A synchronous export is never in a worker's hands, and no worker holds a row that
\* is not there.
AsyncOnly ==
    /\ \A e \in Exports : status[e] = "queued" => e \notin sync
    /\ \A e \in Exports : status[e] = "none" => e \notin sync /\ e \notin sensitive /\ request[e] = "idle"
    /\ \A p \in Passes : \A e \in due[p] : e \notin sync /\ status[e] # "none"
    /\ \A p \in Passes : row[p] # 0 => row[p] \notin sync /\ status[row[p]] # "none"

\* What a pass or a request has done to its row by the time it says "ready".
ToldInv ==
    /\ ToldIsReady
    /\ \A p \in Passes : pc[p] = "ready" => row[p] \in stored
    /\ \A p \in Passes : pc[p] \in {"tell", "log"} =>
         row[p] \in stored /\ (status[row[p]] = "ready" \/ row[p] \in struck)
    /\ \A p \in Passes : pc[p] = "fail" => row[p] \in struck
    /\ \A e \in Exports : request[e] = "ready" => e \in stored

\* A request that is past its events has written them or has died.
LoggedInv ==
    \A e \in sensitive \ logged :
        /\ request[e] \in {"log", "logSensitive"} \/ (request[e] = "over" /\ e \in struck)
        /\ e \in sync => status[e] # "ready"

-----------------------------------------------------------------------------
LEMMA TypeStep ==
  ASSUME ExportsAssumption, TypeOK, AsyncOnly, [Next]_vars
  PROVE  TypeOK'
<1>1. ASSUME NEW e \in Exports, Insert(e) PROVE TypeOK'
  <2>1. status' \in [Exports -> {"none", "queued", "generating"} \cup Finished]
    BY <1>1 DEF Insert, TypeOK
  <2>2. sync' \subseteq Exports /\ sensitive' \subseteq Exports
    BY <1>1 DEF Insert, TypeOK
  <2>3. \A d \in Exports : claim'[d] # "null" => status'[d] = "generating" /\ d \notin sync'
    BY <1>1 DEF Insert, rowVars, kindVars, TypeOK
  <2>4. QED
    BY <1>1, <2>1, <2>2, <2>3 DEF Insert, passVars, outVars, TypeOK
<1>2. ASSUME NEW e \in Exports, LogGenerated(e) PROVE TypeOK'
  BY <1>2 DEF LogGenerated, AfterLogs, rowVars, kindVars, passVars, outVars, vars, TypeOK, InTry, Finished, Exports, ExportsAssumption, AsyncOnly
<1>3. ASSUME NEW e \in Exports, LogSensitive(e) PROVE TypeOK'
  BY <1>3 DEF LogSensitive, AfterLogs, rowVars, kindVars, passVars, outVars, vars, TypeOK, InTry, Finished, Exports, ExportsAssumption, AsyncOnly
<1>4. ASSUME NEW e \in Exports, RequestPuts(e) PROVE TypeOK'
  BY <1>4 DEF RequestPuts, rowVars, kindVars, passVars, outVars, vars, TypeOK, InTry, Finished, Exports, ExportsAssumption, AsyncOnly
<1>5. ASSUME NEW e \in Exports, RequestReady(e) PROVE TypeOK'
  BY <1>5 DEF RequestReady, rowVars, kindVars, passVars, outVars, vars, TypeOK, InTry, Finished, Exports, ExportsAssumption, AsyncOnly
<1>6. ASSUME NEW e \in Exports, RequestDies(e) PROVE TypeOK'
  BY <1>6 DEF RequestDies, rowVars, kindVars, passVars, outVars, vars, TypeOK, InTry, Finished, Exports, ExportsAssumption, AsyncOnly
<1>7. ASSUME NEW p \in Passes, Reclaim(p) PROVE TypeOK'
  BY <1>7 DEF Reclaim, GoTo, rowVars, kindVars, passVars, outVars, vars, TypeOK, InTry, Finished, Exports, ExportsAssumption, AsyncOnly
<1>8. ASSUME NEW p \in Passes, Select(p) PROVE TypeOK'
  BY <1>8 DEF Select, rowVars, kindVars, passVars, outVars, vars, TypeOK, InTry, Finished, Exports, ExportsAssumption, AsyncOnly
<1>9. ASSUME NEW p \in Passes, Claim(p) PROVE TypeOK'
  BY <1>9 DEF Claim, Take, First, rowVars, kindVars, passVars, outVars, vars, TypeOK, InTry, Finished, Exports, ExportsAssumption, AsyncOnly
<1>10. ASSUME NEW p \in Passes, Skip(p) PROVE TypeOK'
  BY <1>10 DEF Skip, First, rowVars, kindVars, passVars, outVars, vars, TypeOK, InTry, Finished, Exports, ExportsAssumption, AsyncOnly
<1>11. ASSUME NEW p \in Passes, EndPass(p) PROVE TypeOK'
  BY <1>11 DEF EndPass, Leave, rowVars, kindVars, passVars, outVars, vars, TypeOK, InTry, Finished, Exports, ExportsAssumption, AsyncOnly
<1>12. ASSUME NEW p \in Passes, Put(p) PROVE TypeOK'
  <2>1. row[p] \in Exports
    BY <1>12 DEF Put, TypeOK, InTry
  <2>2. QED
    BY <1>12, <2>1 DEF Put, GoTo, rowVars, kindVars, passVars, outVars, TypeOK, InTry, Finished, ExportsAssumption
<1>13. ASSUME NEW p \in Passes, Ready(p) PROVE TypeOK'
  BY <1>13 DEF Ready, GoTo, rowVars, kindVars, passVars, outVars, vars, TypeOK, InTry, Finished, Exports, ExportsAssumption, AsyncOnly
<1>14. ASSUME NEW p \in Passes, Tell(p) PROVE TypeOK'
  <2>1. row[p] \in Exports
    BY <1>14 DEF Tell, TypeOK, InTry
  <2>2. QED
    BY <1>14, <2>1 DEF Tell, GoTo, rowVars, kindVars, passVars, outVars, TypeOK, InTry, Finished, ExportsAssumption
<1>15. ASSUME NEW p \in Passes, LogCompleted(p) PROVE TypeOK'
  BY <1>15 DEF LogCompleted, GoTo, rowVars, kindVars, passVars, outVars, vars, TypeOK, InTry, Finished, Exports, ExportsAssumption, AsyncOnly
<1>16. ASSUME NEW p \in Passes, Fail(p) PROVE TypeOK'
  BY <1>16 DEF Fail, GoTo, rowVars, kindVars, passVars, outVars, vars, TypeOK, InTry, Finished, Exports, ExportsAssumption, AsyncOnly
<1>17. ASSUME NEW p \in Passes, Throw(p) PROVE TypeOK'
  <2>1. row[p] \in Exports
    BY <1>17 DEF Throw, TypeOK, InTry
  <2>2. QED
    BY <1>17, <2>1 DEF Throw, GoTo, rowVars, kindVars, passVars, outVars, TypeOK, InTry, Finished, ExportsAssumption
<1>18. ASSUME NEW p \in Passes, PassDies(p) PROVE TypeOK'
  BY <1>18 DEF PassDies, Leave, rowVars, kindVars, passVars, outVars, vars, TypeOK, InTry, Finished, Exports, ExportsAssumption, AsyncOnly
<1>19. CASE StaleWindow
  BY <1>19 DEF StaleWindow, rowVars, kindVars, passVars, outVars, vars, TypeOK, InTry, Finished, Exports, ExportsAssumption, AsyncOnly
<1>20. CASE UNCHANGED vars
  BY <1>20 DEF rowVars, kindVars, passVars, outVars, vars, TypeOK, InTry, Finished, Exports, ExportsAssumption, AsyncOnly
<1>21. QED
  BY <1>1, <1>2, <1>3, <1>4, <1>5, <1>6, <1>7, <1>8, <1>9, <1>10, <1>11, <1>12, <1>13, <1>14, <1>15, <1>16, <1>17, <1>18, <1>19, <1>20 DEF Next, Request, Step

LEMMA AsyncStep ==
  ASSUME ExportsAssumption, TypeOK, AsyncOnly, [Next]_vars
  PROVE  AsyncOnly'
<1>1. ASSUME NEW e \in Exports, Insert(e) PROVE AsyncOnly'
  BY <1>1 DEF Insert, rowVars, kindVars, passVars, outVars, vars, TypeOK, InTry, Finished, Exports, AsyncOnly
<1>2. ASSUME NEW e \in Exports, LogGenerated(e) PROVE AsyncOnly'
  BY <1>2 DEF LogGenerated, AfterLogs, rowVars, kindVars, passVars, outVars, vars, TypeOK, InTry, Finished, Exports, AsyncOnly
<1>3. ASSUME NEW e \in Exports, LogSensitive(e) PROVE AsyncOnly'
  BY <1>3 DEF LogSensitive, AfterLogs, rowVars, kindVars, passVars, outVars, vars, TypeOK, InTry, Finished, Exports, AsyncOnly
<1>4. ASSUME NEW e \in Exports, RequestPuts(e) PROVE AsyncOnly'
  BY <1>4 DEF RequestPuts, rowVars, kindVars, passVars, outVars, vars, TypeOK, InTry, Finished, Exports, AsyncOnly
<1>5. ASSUME NEW e \in Exports, RequestReady(e) PROVE AsyncOnly'
  BY <1>5 DEF RequestReady, rowVars, kindVars, passVars, outVars, vars, TypeOK, InTry, Finished, Exports, AsyncOnly
<1>6. ASSUME NEW e \in Exports, RequestDies(e) PROVE AsyncOnly'
  BY <1>6 DEF RequestDies, rowVars, kindVars, passVars, outVars, vars, TypeOK, InTry, Finished, Exports, AsyncOnly
<1>7. ASSUME NEW p \in Passes, Reclaim(p) PROVE AsyncOnly'
  BY <1>7 DEF Reclaim, GoTo, rowVars, kindVars, passVars, outVars, vars, TypeOK, InTry, Finished, Exports, AsyncOnly
<1>8. ASSUME NEW p \in Passes, Select(p) PROVE AsyncOnly'
  BY <1>8 DEF Select, rowVars, kindVars, passVars, outVars, vars, TypeOK, InTry, Finished, Exports, AsyncOnly
<1>9. ASSUME NEW p \in Passes, Claim(p) PROVE AsyncOnly'
  BY <1>9 DEF Claim, Take, First, rowVars, kindVars, passVars, outVars, vars, TypeOK, InTry, Finished, Exports, AsyncOnly
<1>10. ASSUME NEW p \in Passes, Skip(p) PROVE AsyncOnly'
  BY <1>10 DEF Skip, First, rowVars, kindVars, passVars, outVars, vars, TypeOK, InTry, Finished, Exports, AsyncOnly
<1>11. ASSUME NEW p \in Passes, EndPass(p) PROVE AsyncOnly'
  BY <1>11 DEF EndPass, Leave, rowVars, kindVars, passVars, outVars, vars, TypeOK, InTry, Finished, Exports, AsyncOnly
<1>12. ASSUME NEW p \in Passes, Put(p) PROVE AsyncOnly'
  BY <1>12 DEF Put, GoTo, rowVars, kindVars, passVars, outVars, vars, TypeOK, InTry, Finished, Exports, AsyncOnly
<1>13. ASSUME NEW p \in Passes, Ready(p) PROVE AsyncOnly'
  BY <1>13 DEF Ready, GoTo, rowVars, kindVars, passVars, outVars, vars, TypeOK, InTry, Finished, Exports, AsyncOnly
<1>14. ASSUME NEW p \in Passes, Tell(p) PROVE AsyncOnly'
  BY <1>14 DEF Tell, GoTo, rowVars, kindVars, passVars, outVars, vars, TypeOK, InTry, Finished, Exports, AsyncOnly
<1>15. ASSUME NEW p \in Passes, LogCompleted(p) PROVE AsyncOnly'
  BY <1>15 DEF LogCompleted, GoTo, rowVars, kindVars, passVars, outVars, vars, TypeOK, InTry, Finished, Exports, AsyncOnly
<1>16. ASSUME NEW p \in Passes, Fail(p) PROVE AsyncOnly'
  BY <1>16 DEF Fail, GoTo, rowVars, kindVars, passVars, outVars, vars, TypeOK, InTry, Finished, Exports, AsyncOnly
<1>17. ASSUME NEW p \in Passes, Throw(p) PROVE AsyncOnly'
  BY <1>17 DEF Throw, GoTo, rowVars, kindVars, passVars, outVars, vars, TypeOK, InTry, Finished, Exports, AsyncOnly
<1>18. ASSUME NEW p \in Passes, PassDies(p) PROVE AsyncOnly'
  BY <1>18 DEF PassDies, Leave, rowVars, kindVars, passVars, outVars, vars, TypeOK, InTry, Finished, Exports, AsyncOnly
<1>19. CASE StaleWindow
  BY <1>19 DEF StaleWindow, rowVars, kindVars, passVars, outVars, vars, TypeOK, InTry, Finished, Exports, AsyncOnly
<1>20. CASE UNCHANGED vars
  BY <1>20 DEF rowVars, kindVars, passVars, outVars, vars, TypeOK, InTry, Finished, Exports, AsyncOnly
<1>21. QED
  BY <1>1, <1>2, <1>3, <1>4, <1>5, <1>6, <1>7, <1>8, <1>9, <1>10, <1>11, <1>12, <1>13, <1>14, <1>15, <1>16, <1>17, <1>18, <1>19, <1>20 DEF Next, Request, Step

LEMMA ToldStep ==
  ASSUME ExportsAssumption, TypeOK, ToldInv, [Next]_vars
  PROVE  ToldInv'
<1>1. ASSUME NEW e \in Exports, Insert(e) PROVE ToldInv'
  BY <1>1 DEF Insert, rowVars, kindVars, passVars, outVars, vars, TypeOK, InTry, Finished, Exports, ToldInv, ToldIsReady
<1>2. ASSUME NEW e \in Exports, LogGenerated(e) PROVE ToldInv'
  BY <1>2 DEF LogGenerated, AfterLogs, rowVars, kindVars, passVars, outVars, vars, TypeOK, InTry, Finished, Exports, ToldInv, ToldIsReady
<1>3. ASSUME NEW e \in Exports, LogSensitive(e) PROVE ToldInv'
  BY <1>3 DEF LogSensitive, AfterLogs, rowVars, kindVars, passVars, outVars, vars, TypeOK, InTry, Finished, Exports, ToldInv, ToldIsReady
<1>4. ASSUME NEW e \in Exports, RequestPuts(e) PROVE ToldInv'
  BY <1>4 DEF RequestPuts, rowVars, kindVars, passVars, outVars, vars, TypeOK, InTry, Finished, Exports, ToldInv, ToldIsReady
<1>5. ASSUME NEW e \in Exports, RequestReady(e) PROVE ToldInv'
  BY <1>5 DEF RequestReady, rowVars, kindVars, passVars, outVars, vars, TypeOK, InTry, Finished, Exports, ToldInv, ToldIsReady
<1>6. ASSUME NEW e \in Exports, RequestDies(e) PROVE ToldInv'
  BY <1>6 DEF RequestDies, rowVars, kindVars, passVars, outVars, vars, TypeOK, InTry, Finished, Exports, ToldInv, ToldIsReady
<1>7. ASSUME NEW p \in Passes, Reclaim(p) PROVE ToldInv'
  BY <1>7 DEF Reclaim, GoTo, rowVars, kindVars, passVars, outVars, vars, TypeOK, InTry, Finished, Exports, ToldInv, ToldIsReady
<1>8. ASSUME NEW p \in Passes, Select(p) PROVE ToldInv'
  BY <1>8 DEF Select, rowVars, kindVars, passVars, outVars, vars, TypeOK, InTry, Finished, Exports, ToldInv, ToldIsReady
<1>9. ASSUME NEW p \in Passes, Claim(p) PROVE ToldInv'
  BY <1>9 DEF Claim, Take, First, rowVars, kindVars, passVars, outVars, vars, TypeOK, InTry, Finished, Exports, ToldInv, ToldIsReady
<1>10. ASSUME NEW p \in Passes, Skip(p) PROVE ToldInv'
  BY <1>10 DEF Skip, First, rowVars, kindVars, passVars, outVars, vars, TypeOK, InTry, Finished, Exports, ToldInv, ToldIsReady
<1>11. ASSUME NEW p \in Passes, EndPass(p) PROVE ToldInv'
  BY <1>11 DEF EndPass, Leave, rowVars, kindVars, passVars, outVars, vars, TypeOK, InTry, Finished, Exports, ToldInv, ToldIsReady
<1>12. ASSUME NEW p \in Passes, Put(p) PROVE ToldInv'
  BY <1>12 DEF Put, GoTo, rowVars, kindVars, passVars, outVars, vars, TypeOK, InTry, Finished, Exports, ToldInv, ToldIsReady
<1>13. ASSUME NEW p \in Passes, Ready(p) PROVE ToldInv'
  BY <1>13 DEF Ready, GoTo, rowVars, kindVars, passVars, outVars, vars, TypeOK, InTry, Finished, Exports, ToldInv, ToldIsReady
<1>14. ASSUME NEW p \in Passes, Tell(p) PROVE ToldInv'
  BY <1>14 DEF Tell, GoTo, rowVars, kindVars, passVars, outVars, vars, TypeOK, InTry, Finished, Exports, ToldInv, ToldIsReady
<1>15. ASSUME NEW p \in Passes, LogCompleted(p) PROVE ToldInv'
  BY <1>15 DEF LogCompleted, GoTo, rowVars, kindVars, passVars, outVars, vars, TypeOK, InTry, Finished, Exports, ToldInv, ToldIsReady
<1>16. ASSUME NEW p \in Passes, Fail(p) PROVE ToldInv'
  BY <1>16 DEF Fail, GoTo, rowVars, kindVars, passVars, outVars, vars, TypeOK, InTry, Finished, Exports, ToldInv, ToldIsReady
<1>17. ASSUME NEW p \in Passes, Throw(p) PROVE ToldInv'
  BY <1>17 DEF Throw, GoTo, rowVars, kindVars, passVars, outVars, vars, TypeOK, InTry, Finished, Exports, ToldInv, ToldIsReady
<1>18. ASSUME NEW p \in Passes, PassDies(p) PROVE ToldInv'
  BY <1>18 DEF PassDies, Leave, rowVars, kindVars, passVars, outVars, vars, TypeOK, InTry, Finished, Exports, ToldInv, ToldIsReady
<1>19. CASE StaleWindow
  BY <1>19 DEF StaleWindow, rowVars, kindVars, passVars, outVars, vars, TypeOK, InTry, Finished, Exports, ToldInv, ToldIsReady
<1>20. CASE UNCHANGED vars
  BY <1>20 DEF rowVars, kindVars, passVars, outVars, vars, TypeOK, InTry, Finished, Exports, ToldInv, ToldIsReady
<1>21. QED
  BY <1>1, <1>2, <1>3, <1>4, <1>5, <1>6, <1>7, <1>8, <1>9, <1>10, <1>11, <1>12, <1>13, <1>14, <1>15, <1>16, <1>17, <1>18, <1>19, <1>20 DEF Next, Request, Step

LEMMA LoggedStep ==
  ASSUME ExportsAssumption, TypeOK, AsyncOnly, LoggedInv, [Next]_vars
  PROVE  LoggedInv'
<1>1. ASSUME NEW e \in Exports, Insert(e) PROVE LoggedInv'
  BY <1>1 DEF Insert, rowVars, kindVars, passVars, outVars, vars, TypeOK, InTry, Finished, Exports, AsyncOnly, LoggedInv
<1>2. ASSUME NEW e \in Exports, LogGenerated(e) PROVE LoggedInv'
  BY <1>2 DEF LogGenerated, AfterLogs, rowVars, kindVars, passVars, outVars, vars, TypeOK, InTry, Finished, Exports, AsyncOnly, LoggedInv
<1>3. ASSUME NEW e \in Exports, LogSensitive(e) PROVE LoggedInv'
  BY <1>3 DEF LogSensitive, AfterLogs, rowVars, kindVars, passVars, outVars, vars, TypeOK, InTry, Finished, Exports, AsyncOnly, LoggedInv
<1>4. ASSUME NEW e \in Exports, RequestPuts(e) PROVE LoggedInv'
  BY <1>4 DEF RequestPuts, rowVars, kindVars, passVars, outVars, vars, TypeOK, InTry, Finished, Exports, AsyncOnly, LoggedInv
<1>5. ASSUME NEW e \in Exports, RequestReady(e) PROVE LoggedInv'
  BY <1>5 DEF RequestReady, rowVars, kindVars, passVars, outVars, vars, TypeOK, InTry, Finished, Exports, AsyncOnly, LoggedInv
<1>6. ASSUME NEW e \in Exports, RequestDies(e) PROVE LoggedInv'
  BY <1>6 DEF RequestDies, rowVars, kindVars, passVars, outVars, vars, TypeOK, InTry, Finished, Exports, AsyncOnly, LoggedInv
<1>7. ASSUME NEW p \in Passes, Reclaim(p) PROVE LoggedInv'
  BY <1>7 DEF Reclaim, GoTo, rowVars, kindVars, passVars, outVars, vars, TypeOK, InTry, Finished, Exports, AsyncOnly, LoggedInv
<1>8. ASSUME NEW p \in Passes, Select(p) PROVE LoggedInv'
  BY <1>8 DEF Select, rowVars, kindVars, passVars, outVars, vars, TypeOK, InTry, Finished, Exports, AsyncOnly, LoggedInv
<1>9. ASSUME NEW p \in Passes, Claim(p) PROVE LoggedInv'
  <2>1. \A d \in Exports : status'[d] = "ready" => status[d] = "ready"
    BY <1>9 DEF Claim, First, TypeOK
  <2>2. QED
    BY <1>9, <2>1 DEF Claim, kindVars, outVars, TypeOK, LoggedInv
<1>10. ASSUME NEW p \in Passes, Skip(p) PROVE LoggedInv'
  BY <1>10 DEF Skip, First, rowVars, kindVars, passVars, outVars, vars, TypeOK, InTry, Finished, Exports, AsyncOnly, LoggedInv
<1>11. ASSUME NEW p \in Passes, EndPass(p) PROVE LoggedInv'
  BY <1>11 DEF EndPass, Leave, rowVars, kindVars, passVars, outVars, vars, TypeOK, InTry, Finished, Exports, AsyncOnly, LoggedInv
<1>12. ASSUME NEW p \in Passes, Put(p) PROVE LoggedInv'
  BY <1>12 DEF Put, GoTo, rowVars, kindVars, passVars, outVars, vars, TypeOK, InTry, Finished, Exports, AsyncOnly, LoggedInv
<1>13. ASSUME NEW p \in Passes, Ready(p) PROVE LoggedInv'
  BY <1>13 DEF Ready, GoTo, rowVars, kindVars, passVars, outVars, vars, TypeOK, InTry, Finished, Exports, AsyncOnly, LoggedInv
<1>14. ASSUME NEW p \in Passes, Tell(p) PROVE LoggedInv'
  BY <1>14 DEF Tell, GoTo, rowVars, kindVars, passVars, outVars, vars, TypeOK, InTry, Finished, Exports, AsyncOnly, LoggedInv
<1>15. ASSUME NEW p \in Passes, LogCompleted(p) PROVE LoggedInv'
  BY <1>15 DEF LogCompleted, GoTo, rowVars, kindVars, passVars, outVars, vars, TypeOK, InTry, Finished, Exports, AsyncOnly, LoggedInv
<1>16. ASSUME NEW p \in Passes, Fail(p) PROVE LoggedInv'
  BY <1>16 DEF Fail, GoTo, rowVars, kindVars, passVars, outVars, vars, TypeOK, InTry, Finished, Exports, AsyncOnly, LoggedInv
<1>17. ASSUME NEW p \in Passes, Throw(p) PROVE LoggedInv'
  BY <1>17 DEF Throw, GoTo, rowVars, kindVars, passVars, outVars, vars, TypeOK, InTry, Finished, Exports, AsyncOnly, LoggedInv
<1>18. ASSUME NEW p \in Passes, PassDies(p) PROVE LoggedInv'
  BY <1>18 DEF PassDies, Leave, rowVars, kindVars, passVars, outVars, vars, TypeOK, InTry, Finished, Exports, AsyncOnly, LoggedInv
<1>19. CASE StaleWindow
  BY <1>19 DEF StaleWindow, rowVars, kindVars, passVars, outVars, vars, TypeOK, InTry, Finished, Exports, AsyncOnly, LoggedInv
<1>20. CASE UNCHANGED vars
  BY <1>20 DEF rowVars, kindVars, passVars, outVars, vars, TypeOK, InTry, Finished, Exports, AsyncOnly, LoggedInv
<1>21. QED
  BY <1>1, <1>2, <1>3, <1>4, <1>5, <1>6, <1>7, <1>8, <1>9, <1>10, <1>11, <1>12, <1>13, <1>14, <1>15, <1>16, <1>17, <1>18, <1>19, <1>20 DEF Next, Request, Step

-----------------------------------------------------------------------------

IInv == TypeOK /\ AsyncOnly /\ ToldInv /\ LoggedInv

LEMMA Inductive ==
  ASSUME ExportsAssumption
  PROVE  Spec => []IInv
<1>1. Init => IInv
  BY DEF ExportsAssumption, Init, IInv, TypeOK, AsyncOnly, ToldInv, ToldIsReady, LoggedInv, InTry, Finished, Exports
<1>2. IInv /\ [Next]_vars => IInv'
  BY TypeStep, AsyncStep, ToldStep, LoggedStep DEF IInv
<1>3. QED
  BY <1>1, <1>2, PTL DEF Spec

\* The variables keep their types, and only what a pass is generating is claimed
\* (worker.ts:40-64).
THEOREM ExportTypes == Spec => []TypeOK
<1>1. IInv => TypeOK
  BY DEF IInv
<1>2. QED
  BY <1>1, Inductive, ExportsAssumption, PTL

\* Whoever was told "ready" can download, unless a step threw on the export
\* (worker.ts:66-93).
THEOREM ToldCanDownload == Spec => []ToldIsReady
<1>1. IInv => ToldIsReady
  BY DEF IInv, ToldInv
<1>2. QED
  BY <1>1, Inductive, ExportsAssumption, PTL

\* A file with Sensitive data is offered only with its event in the trail, unless the
\* export is asynchronous and its request still writes or died (audit-export.ts:81-99).
THEOREM SensitiveIsAudited == Spec => []SensitiveIsLogged
<1>1. IInv => SensitiveIsLogged
  BY DEF IInv, TypeOK, LoggedInv, SensitiveIsLogged
<1>2. QED
  BY <1>1, Inductive, ExportsAssumption, PTL

=============================================================================
