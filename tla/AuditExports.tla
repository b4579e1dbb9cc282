---------------------------- MODULE AuditExports ----------------------------
(***************************************************************************)
(* Audit exports: the request that records one and, for a small scope,     *)
(* generates it on the spot (src/lib/exports/audit-export.ts), and the     *)
(* passes of the export worker that generate the others                    *)
(* (src/lib/exports/worker.ts).  Every await is a step of its own, any of  *)
(* them may throw, and a pass or a request may die between two.            *)
(*                                                                         *)
(* Exports are numbered in the order of their rows.  Time is one event,    *)
(* StaleWindow: what was claimed before it is stale after it.              *)
(***************************************************************************)
EXTENDS Naturals, FiniteSets

CONSTANTS
    MaxExports, \* bound: rows of audit_exports
    Passes,     \* passes of the worker that may overlap
    MaxFaults   \* bound: statements that throw, passes and requests that die

ASSUME ExportsAssumption == MaxExports \in Nat /\ MaxFaults \in Nat

Exports == 1..MaxExports

VARIABLES
    status,    \* audit_exports.status ("none": no row)
    claim,     \* claimed_at: null, within the stale window, or past it
    sync,      \* exports of a small scope
    sensitive, \* exports with Sensitive data
    request,   \* per export: how far the call of POST /api/exports is
    pc,        \* per pass: how far it is
    due,       \* per pass: the rows it selected and has not come to
    row,       \* per pass: the row it is at (0: none)
    slow,      \* passes whose "now" is past the stale window
    stored,    \* exports whose file is in the blob store
    told,      \* exports whose requester was told that they are ready
    logged,    \* exports whose export.sensitive_included event is in the trail
    struck,    \* history: exports on which a step threw, or whose request died
    faults

rowVars == <<status, claim>>
kindVars == <<sync, sensitive>>
passVars == <<pc, due, row, slow>>
outVars == <<stored, told, logged>>
vars == <<rowVars, kindVars, request, passVars, outVars, struck, faults>>

InTry == {"put", "ready", "tell", "log"}
Finished == {"ready", "failed"}

TypeOK ==
    /\ status \in [Exports -> {"none", "queued", "generating"} \cup Finished]
    /\ claim \in [Exports -> {"null", "fresh", "stale"}]
    /\ sync \subseteq Exports /\ sensitive \subseteq Exports
    /\ request \in [Exports -> {"idle", "log", "logSensitive", "put", "ready", "over"}]
    /\ pc \in [Passes -> {"idle", "select", "claim", "fail"} \cup InTry]
    /\ due \in [Passes -> SUBSET Exports]
    /\ row \in [Passes -> Exports \cup {0}]
    /\ \A p \in Passes : pc[p] \in InTry \cup {"fail"} => row[p] # 0
    /\ slow \subseteq Passes
    /\ stored \subseteq Exports /\ told \subseteq Exports
    /\ logged \subseteq Exports /\ struck \subseteq Exports
    /\ faults \in 0..MaxFaults
    \* only a pass claims, and only what is being generated is claimed
    /\ \A e \in Exports : claim[e] # "null" => status[e] = "generating" /\ e \notin sync

Init ==
    /\ status = [e \in Exports |-> "none"] /\ claim = [e \in Exports |-> "null"]
    /\ sync = {} /\ sensitive = {}
    /\ request = [e \in Exports |-> "idle"]
    /\ pc = [p \in Passes |-> "idle"] /\ due = [p \in Passes |-> {}]
    /\ row = [p \in Passes |-> 0] /\ slow = {}
    /\ stored = {} /\ told = {} /\ logged = {} /\ struck = {} /\ faults = 0

-----------------------------------------------------------------------------
(* createAuditExport *)

\* The row, for any scope with or without Sensitive data: the route has refused or
\* corrected what the caller may not have (exports/route.ts:45-62).
Insert(e) ==
    /\ status[e] = "none" /\ \A d \in Exports : d < e => status[d] # "none"
    /\ \/ /\ sync' = sync \cup {e}
          /\ status' = [status EXCEPT ![e] = "generating"]
       \/ /\ status' = [status EXCEPT ![e] = "queued"]
          /\ UNCHANGED sync
    /\ sensitive' \in {sensitive, sensitive \cup {e}}
    /\ request' = [request EXCEPT ![e] = "log"]
    /\ UNCHANGED <<claim, passVars, outVars, struck, faults>>

AfterLogs(e) == IF e \in sync THEN "put" ELSE "over"

\* The event export.generated.
LogGenerated(e) ==
    /\ request[e] = "log"
    /\ request' = [request EXCEPT ![e] = IF e \in sensitive THEN "logSensitive" ELSE AfterLogs(e)]
    /\ UNCHANGED <<rowVars, kindVars, passVars, outVars, struck, faults>>

\* The event export.sensitive_included.  The mutant answers before it is written.
LogSensitive_Answered(e) ==
    /\ request[e] = "logSensitive"
    /\ request' = [request EXCEPT ![e] = AfterLogs(e)]
    /\ UNCHANGED <<rowVars, kindVars, passVars, outVars, struck, faults>>
LogSensitive(e) ==
    /\ request[e] = "logSensitive"
    /\ logged' = logged \cup {e}
    /\ request' = [request EXCEPT ![e] = AfterLogs(e)]
    /\ UNCHANGED <<rowVars, kindVars, passVars, stored, told, struck, faults>>

\* generateExportArtifact inside the request: the file, then the row, then the answer.
RequestPuts(e) ==
    /\ request[e] = "put"
    /\ stored' = stored \cup {e}
    /\ request' = [request EXCEPT ![e] = "ready"]
    /\ UNCHANGED <<rowVars, kindVars, passVars, told, logged, struck, faults>>

RequestReady(e) ==
    /\ request[e] = "ready"
    /\ status' = [status EXCEPT ![e] = "ready"] /\ claim' = [claim EXCEPT ![e] = "null"]
    /\ told' = told \cup {e}
    /\ request' = [request EXCEPT ![e] = "over"]
    /\ UNCHANGED <<kindVars, passVars, stored, logged, struck, faults>>

Request(e) == LogGenerated(e) \/ LogSensitive(e) \/ RequestPuts(e) \/ RequestReady(e)

-----------------------------------------------------------------------------
(* processQueuedExports *)

First(p) == {e \in due[p] : \A d \in due[p] : e <= d}
GoTo(p, at) == pc' = [pc EXCEPT ![p] = at] /\ UNCHANGED <<due, slow>>
Leave(p) ==
    /\ pc' = [pc EXCEPT ![p] = "idle"] /\ due' = [due EXCEPT ![p] = {}]
    /\ row' = [row EXCEPT ![p] = 0] /\ slow' = slow \ {p}

\* Rows whose claim is stale go back to the queue.
Reclaim(p) ==
    LET stale == {e \in Exports : status[e] = "generating" /\ claim[e] = "stale"} IN
    /\ pc[p] = "idle"
    /\ status' = [e \in Exports |-> IF e \in stale THEN "queued" ELSE status[e]]
    /\ claim' = [e \in Exports |-> IF e \in stale THEN "null" ELSE claim[e]]
    /\ GoTo(p, "select")
    /\ UNCHANGED <<kindVars, request, row, outVars, struck, faults>>

Select(p) ==
    /\ pc[p] = "select"
    /\ due' = [due EXCEPT ![p] = {e \in Exports : status[e] = "queued"}]
    /\ pc' = [pc EXCEPT ![p] = "claim"]
    /\ UNCHANGED <<rowVars, kindVars, request, row, slow, outVars, struck, faults>>

\* The guarded update: one pass wins.  The first mutant trusts what it selected, the
\* second leaves claimed_at out.
Take(p, e) ==
    /\ pc' = [pc EXCEPT ![p] = "put"] /\ row' = [row EXCEPT ![p] = e]
    /\ due' = [due EXCEPT ![p] = @ \ {e}]
    /\ UNCHANGED slow
Claim_Unguarded(p) ==
    /\ pc[p] = "claim"
    /\ \E e \in First(p) :
         /\ status' = [status EXCEPT ![e] = "generating"]
         /\ claim' = [claim EXCEPT ![e] = IF p \in slow THEN "stale" ELSE "fresh"]
         /\ Take(p, e)
    /\ UNCHANGED <<kindVars, request, outVars, struck, faults>>
Claim_NoStamp(p) ==
    /\ pc[p] = "claim"
    /\ \E e \in First(p) :
         /\ status[e] = "queued"
         /\ status' = [status EXCEPT ![e] = "generating"]
         /\ Take(p, e)
    /\ UNCHANGED <<claim, kindVars, request, outVars, struck, faults>>
Claim(p) ==
    /\ pc[p] = "claim"
    /\ \E e \in First(p) :
         /\ status[e] = "queued"
         /\ status' = [status EXCEPT ![e] = "generating"]
         /\ claim' = [claim EXCEPT ![e] = IF p \in slow THEN "stale" ELSE "fresh"]
         /\ Take(p, e)
    /\ UNCHANGED <<kindVars, request, outVars, struck, faults>>

\* Someone else has claimed it.
Skip(p) ==
    /\ pc[p] = "claim"
    /\ \E e \in First(p) : status[e] # "queued" /\ due' = [due EXCEPT ![p] = @ \ {e}]
    /\ UNCHANGED <<rowVars, kindVars, request, pc, row, slow, outVars, struck, faults>>

EndPass(p) ==
    /\ pc[p] = "claim" /\ due[p] = {}
    /\ Leave(p)
    /\ UNCHANGED <<rowVars, kindVars, request, outVars, struck, faults>>

\* generateExportArtifact: the same key, whoever stores it ...
Put(p) ==
    /\ pc[p] = "put"
    /\ stored' = stored \cup {row[p]}
    /\ GoTo(p, "ready")
    /\ UNCHANGED <<rowVars, kindVars, request, row, told, logged, struck, faults>>

\* ... and an update that asks nothing of the row.  The mutant forgets claimed_at.
Ready_KeepsClaim(p) ==
    /\ pc[p] = "ready"
    /\ status' = [status EXCEPT ![row[p]] = "ready"]
    /\ GoTo(p, "tell")
    /\ UNCHANGED <<claim, kindVars, request, row, outVars, struck, faults>>
Ready(p) ==
    /\ pc[p] = "ready"
    /\ status' = [status EXCEPT ![row[p]] = "ready"] /\ claim' = [claim EXCEPT ![row[p]] = "null"]
    /\ GoTo(p, "tell")
    /\ UNCHANGED <<kindVars, request, row, outVars, struck, faults>>

Tell(p) ==
    /\ pc[p] = "tell"
    /\ told' = told \cup {row[p]}
    /\ GoTo(p, "log")
    /\ UNCHANGED <<rowVars, kindVars, request, row, stored, logged, struck, faults>>

LogCompleted(p) ==
    /\ pc[p] = "log"
    /\ row' = [row EXCEPT ![p] = 0]
    /\ GoTo(p, "claim")
    /\ UNCHANGED <<rowVars, kindVars, request, outVars, struck, faults>>

\* The catch around all four: the row is failed, even when it was ready by then.
Fail(p) ==
    /\ pc[p] = "fail"
    /\ status' = [status EXCEPT ![row[p]] = "failed"] /\ claim' = [claim EXCEPT ![row[p]] = "null"]
    /\ row' = [row EXCEPT ![p] = 0]
    /\ GoTo(p, "claim")
    /\ UNCHANGED <<kindVars, request, outVars, struck, faults>>

Step(p) ==
    \/ Reclaim(p) \/ Select(p) \/ Claim(p) \/ Skip(p) \/ EndPass(p)
    \/ Put(p) \/ Ready(p) \/ Tell(p) \/ LogCompleted(p) \/ Fail(p)

-----------------------------------------------------------------------------

\* The stale window passes.
StaleWindow ==
    LET busy == {p \in Passes : pc[p] # "idle"} IN
    /\ (\E e \in Exports : claim[e] = "fresh") \/ busy \ slow # {}
    /\ claim' = [e \in Exports |-> IF claim[e] = "fresh" THEN "stale" ELSE claim[e]]
    /\ slow' = slow \cup busy
    /\ UNCHANGED <<status, kindVars, request, pc, due, row, outVars, struck, faults>>

\* A statement inside the try throws.
Throw(p) ==
    /\ faults < MaxFaults /\ pc[p] \in InTry
    /\ faults' = faults + 1 /\ struck' = struck \cup {row[p]}
    /\ GoTo(p, "fail")
    /\ UNCHANGED <<rowVars, kindVars, request, row, outVars>>

\* A statement outside throws, or the server dies: the pass is gone, its claim stays.
PassDies(p) ==
    /\ faults < MaxFaults /\ pc[p] # "idle"
    /\ faults' = faults + 1
    /\ Leave(p)
    /\ UNCHANGED <<rowVars, kindVars, request, outVars, struck>>

\* Nothing catches what a request throws.
RequestDies(e) ==
    /\ faults < MaxFaults /\ request[e] \notin {"idle", "over"}
    /\ faults' = faults + 1 /\ struck' = struck \cup {e}
    /\ request' = [request EXCEPT ![e] = "over"]
    /\ UNCHANGED <<rowVars, kindVars, passVars, outVars>>

Next ==
    \/ \E e \in Exports : Insert(e) \/ Request(e) \/ RequestDies(e)
    \/ \E p \in Passes : Step(p) \/ Throw(p) \/ PassDies(p)
    \/ StaleWindow

Spec == Init /\ [][Next]_vars

\* Awaits settle, the interval starts passes for as long as the server runs or is
\* restarted, and time passes.
Fairness ==
    /\ \A e \in Exports : WF_vars(Request(e))
    /\ \A p \in Passes : WF_vars(Step(p))
    /\ WF_vars(StaleWindow)
FairSpec == Spec /\ Fairness

-----------------------------------------------------------------------------
(* Properties *)

\* A requester that was told "ready" (worker.ts:66-74) can download (download/route.ts:
\* the row is ready, the file is there), whatever passes overlap, are overtaken or die;
\* only a step that threw on this export after the row was ready can undo it.
ToldIsReady ==
    \A e \in told : (status[e] = "ready" /\ e \in stored) \/ e \in struck

\* Whoever dies or is overtaken on the way, a file with Sensitive data is offered only
\* with its export.sensitive_included event in the trail (audit-export.ts:81-99), and a
\* synchronous one under every fault.  The worker waits for no event: it may generate the
\* export while the request still writes, or after the request died before writing.
SensitiveIsLogged ==
    \A e \in sensitive :
        status[e] = "ready" /\ e \notin logged =>
            e \notin sync /\ (request[e] # "over" \/ e \in struck)

\* worker.ts:40-46: every export comes to an end, those of a dead pass included; only a
\* synchronous one whose request dies stays "generating", for it has no claim to be stale.
ExportsFinish ==
    \A e \in Exports :
        status[e] # "none" ~> status[e] \in Finished \/ (e \in sync /\ e \in struck)

=============================================================================
