--------------------------- MODULE ServiceProofs ---------------------------
(***************************************************************************)
(* What the services around the warehouse guarantee whatever the number of *)
(* requests, workers, files and subscriptions: the query cache, the HTTP   *)
(* client of the collectors, the CSV exports and the webhooks.  Each part  *)
(* has its own variables and its own induction.                            *)
(***************************************************************************)
EXTENDS QueryCache, HttpClient, ExportJob, Webhooks, Rebuild, Reviews, FiniteSetTheorems, TLAPS

-----------------------------------------------------------------------------
(* The query cache *)

\* No entry and no query under way is of a later generation than the current one, and a
\* query of the current one has looked at the marts of the last bump or later ones.
QcInv ==
  /\ QcTypeOK
  /\ qcEntry # NoEntry => qcEntry.generation <= qcGeneration
  /\ \A r \in QcReaders :
       qcReader[r].pc \in {"compute", "store"} => qcReader[r].generation <= qcGeneration
  /\ NoStaleHit
  /\ QcInFlight

\* A step of a request keeps the cache: what it stores is of its own generation.
LEMMA QcRequestStep ==
  ASSUME QcInv, NEW r \in QcReaders,
         QcRequest(r) \/ QcStep(r) \/ QcOversize(r) \/ QcError(r)
  PROVE  QcInv'
<1> USE QcAssumption DEF QcInv, QcTypeOK, QcServer, QcAt
<1>1. CASE QcRequest(r)
  BY <1>1 DEF QcRequest, QcGoes, NoStaleHit, QcInFlight, QcCurrent
<1>2. CASE QcHit(r) \/ QcBypass(r) \/ QcOversize(r)
  BY <1>2 DEF QcHit, QcBypass, QcOversize, QcReturns, QcIdle, NoStaleHit, QcInFlight, QcCurrent
<1>3. CASE QcMiss(r)
  <2>1. /\ qcReader[r] \in [pc: {"idle", "lookup", "compute", "store", "bypass"},
                            generation: Nat, rows: Nat]
        /\ qcReader' = [qcReader EXCEPT ![r] = [@ EXCEPT !.pc = "compute",
                                                         !.generation = qcGeneration]]
    BY <1>3 DEF QcMiss
  <2>2. /\ qcReader'[r] = [pc |-> "compute", generation |-> qcGeneration, rows |-> qcReader[r].rows]
        /\ \A q \in QcReaders \ {r} : qcReader'[q] = qcReader[q]
    BY <2>1
  <2>. QED BY <1>3, <2>1, <2>2 DEF QcMiss, NoStaleHit, QcInFlight, QcCurrent
<1>4. CASE QcCompute(r)
  <2>1. /\ qcReader[r] \in [pc: {"idle", "lookup", "compute", "store", "bypass"},
                            generation: Nat, rows: Nat]
        /\ qcReader' = [qcReader EXCEPT ![r] = [@ EXCEPT !.pc = "store", !.rows = qcMarts]]
    BY <1>4 DEF QcCompute
  <2>2. /\ qcReader'[r] = [pc |-> "store", generation |-> qcReader[r].generation, rows |-> qcMarts]
        /\ \A q \in QcReaders \ {r} : qcReader'[q] = qcReader[q]
    BY <2>1
  <2>. QED BY <1>4, <2>1, <2>2 DEF QcCompute, NoStaleHit, QcInFlight, QcCurrent
<1>5. CASE QcStore(r)
  <2>1. /\ qcReader[r].pc = "store" /\ qcReader[r].generation <= qcGeneration
        /\ qcReader[r].generation = qcGeneration => qcReader[r].rows >= qcBumped
    BY <1>5 DEF QcStore, QcInFlight
  <2>2. qcEntry' = [generation |-> qcReader[r].generation, rows |-> qcReader[r].rows,
                    until |-> qcNow + QcTtl]
    BY <1>5 DEF QcStore, QcEntryGeneration
  <2>3. qcEntry' \in QcEntries
    BY <2>2 DEF QcEntries
  <2>. QED
    BY <1>5, <2>1, <2>2, <2>3 DEF QcStore, QcReturns, QcIdle, NoStaleHit, QcInFlight, QcCurrent
<1>6. CASE QcError(r)
  BY <1>6 DEF QcError, QcGoes, NoStaleHit, QcInFlight, QcCurrent
<1>. QED BY <1>1, <1>2, <1>3, <1>4, <1>5, <1>6 DEF QcStep

\* A rebuild, its bump and the clock keep the cache: after a bump no entry is current.
LEMMA QcServerStep ==
  ASSUME QcInv, MartStatement \/ BumpGeneration \/ BumpMissed \/ QcTick
  PROVE  QcInv'
<1> USE QcAssumption DEF QcInv, QcTypeOK, QcAt
<1>1. CASE MartStatement
  BY <1>1 DEF MartStatement, NoStaleHit, QcInFlight, QcCurrent
<1>2. CASE BumpGeneration
  <2>1. qcEntry # NoEntry => qcEntry.generation \in Nat
    BY DEF QcEntries
  <2>. QED BY <1>2, <2>1 DEF BumpGeneration, NoStaleHit, QcInFlight, QcCurrent
<1>3. CASE BumpMissed
  BY <1>3 DEF BumpMissed, NoStaleHit, QcInFlight, QcCurrent
<1>4. CASE QcTick
  BY <1>4 DEF QcTick, NoStaleHit, QcInFlight, QcCurrent
<1>. QED BY <1>1, <1>2, <1>3, <1>4

\* After a bump of the generation no request is answered from rows of before it, however
\* many requests, rebuilds and Redis errors overlap (get_or_compute reads the generation
\* before it runs the query).
THEOREM CacheNeverStale == QcSpec => []NoStaleHit
<1>1. QcInit => QcInv
  BY QcAssumption
  DEF QcInit, QcInv, QcTypeOK, QcIdle, QcEntries, QcAt, NoStaleHit, QcInFlight, QcCurrent
<1>2. QcInv /\ [QcNext]_qcVars => QcInv'
  <2>1. QcInv /\ UNCHANGED qcVars => QcInv'
    BY DEF qcVars, QcInv, QcTypeOK, QcAt, NoStaleHit, QcInFlight, QcCurrent
  <2>. QED BY <2>1, QcRequestStep, QcServerStep DEF QcNext
<1>3. QcInv => NoStaleHit
  BY DEF QcInv
<1>. QED BY <1>1, <1>2, <1>3, PTL DEF QcSpec

-----------------------------------------------------------------------------
(* The HTTP client *)

\* What the client counts: a request for each attempt, and a failure for each failed call; a
\* request is out only while the circuit is closed.
HcInv ==
  /\ ClientSound
  /\ hcFailures = hcRow
  /\ hcPc \in {"sent", "pause"} => hcOpen = HcClosed
  /\ hcPc = "check" => hcSent + 1 = hcAttempt
  /\ hcPc \in {"sent", "pause"} => hcSent = hcAttempt
  /\ hcPc = "pause" => hcAttempt < HcAttempts

LEMMA HcStepKeeps == HcInv /\ [HcNext]_hcVars => HcInv'
<1> SUFFICES ASSUME HcInv, [HcNext]_hcVars PROVE HcInv'
  OBVIOUS
<1> USE HcAssumption DEF HcInv, ClientSound, HcTypeOK, RetriesBounded, BreakerCountsCalls, HcClosed
<1>1. CASE HcCall
  BY <1>1 DEF HcCall
<1>2. CASE HcCheck
  <2>1. CASE hcOpen = HcClosed
    BY <1>2, <2>1 DEF HcCheck
  <2>2. CASE hcOpen = 0
    BY <1>2, <2>2 DEF HcCheck
  <2>3. CASE hcOpen \notin {0, HcClosed}
    BY <1>2, <2>3 DEF HcCheck, HcUntil
  <2>. QED BY <2>1, <2>2, <2>3
<1>3. CASE HcGood
  BY <1>3 DEF HcGood, HcSucceeded
<1>4. CASE HcUndecodable
  BY <1>4 DEF HcUndecodable, HcFails
<1>5. CASE HcTransient
  BY <1>5 DEF HcTransient, HcFails, HcMayRetry
<1>6. CASE HcResume
  BY <1>6 DEF HcResume
<1>7. CASE HcClientError
  BY <1>7 DEF HcClientError, HcFails
<1>8. CASE HcTick
  BY <1>8 DEF HcTick
<1>9. CASE HcRecovers
  BY <1>9 DEF HcRecovers
<1>10. CASE UNCHANGED hcVars
  BY <1>10 DEF hcVars
<1>. QED BY <1>1, <1>2, <1>3, <1>4, <1>5, <1>6, <1>7, <1>8, <1>9, <1>10 DEF HcNext, HcStep

\* A call never sends more than max_attempts requests, and the circuit is open exactly while as
\* many calls in a row have failed as the threshold says, for any of the three settings.
THEOREM ClientCounts == HcSpec => []ClientSound
<1>1. HcInit => HcInv
  <2> SUFFICES ASSUME HcInit PROVE HcInv
    OBVIOUS
  <2>1. HcTypeOK
    <3>1. hcUp \in BOOLEAN
      BY DEF HcInit
    <3>2. /\ hcPc = "idle" /\ hcAttempt \in 1..HcAttempts /\ hcSent = 0
          /\ hcFailures = 0 /\ hcRow = 0 /\ hcOpen \in 0..HcClosed
      BY HcAssumption DEF HcInit, HcClosed
    <3>. QED BY <3>1, <3>2, HcAssumption DEF HcTypeOK
  <2>. QED
    BY <2>1, HcAssumption
    DEF HcInit, HcInv, ClientSound, RetriesBounded, BreakerCountsCalls, HcClosed
<1>2. HcInv => ClientSound
  BY DEF HcInv
<1>. QED BY <1>1, <1>2, HcStepKeeps, PTL DEF HcSpec

-----------------------------------------------------------------------------
(* CSV exports *)

ExportBusy == {"running", "writing", "written", "renamed", "failing"}

\* A job that exists has one message, in the broker or unacknowledged with one worker.
OneMessage ==
  /\ \A e \in Exports : /\ exportTasks[e] <= 1
                        /\ exportJobs[e] = "absent" => exportTasks[e] = 0
  /\ \A w \in ExportWorkers :
       exportRuns[w].held => /\ exportRuns[w].pc # "idle"
                             /\ exportTasks[exportRuns[w].job] = 0
                             /\ exportJobs[exportRuns[w].job] # "absent"
  /\ \A v, w \in ExportWorkers :
       exportRuns[v].held /\ exportRuns[w].held /\ exportRuns[v].job = exportRuns[w].job => v = w

\* The row of a job says where the worker is that is at it.
RowsFollow ==
  \A w \in ExportWorkers :
    /\ exportRuns[w].pc = "loaded" =>
         exportRuns[w].held /\ exportJobs[exportRuns[w].job] \in {"queued", "failed"}
    /\ exportRuns[w].pc \in ExportBusy => exportJobs[exportRuns[w].job] = "running"
    /\ exportRuns[w].pc = "saved" => exportJobs[exportRuns[w].job] = "done"

OneWriter ==
  \A v, w \in ExportWorkers :
    /\ exportRuns[v].pc \in ExportBusy /\ exportRuns[w].pc \in ExportBusy
    /\ exportRuns[v].job = exportRuns[w].job
    => v = w

\* What a worker renames is whole, and stays so until it is saved or pruned.
WholeFiles ==
  /\ DoneHasFile
  /\ \A w \in ExportWorkers :
       LET e == exportRuns[w].job IN
       /\ exportRuns[w].pc = "written" => exportFiles[<<e, "part">>] # "torn"
       /\ exportRuns[w].pc = "renamed" =>
            exportFiles[<<e, "csv">>] = "whole" \/ e \in exportPruned

ExportInv == ExportTypeOK /\ OneMessage /\ RowsFollow /\ OneWriter /\ WholeFiles

\* A worker that is somewhere has a job, and a file is known by its job and its name.
LEMMA ExportTyped ==
  ASSUME ExportTypeOK, NEW w \in ExportWorkers
  PROVE  /\ exportRuns[w] \in [pc: ExportPlace, job: Exports \cup {NoExport}, held: BOOLEAN]
         /\ exportRuns[w].pc # "idle" => exportRuns[w].job \in Exports
         /\ \A e \in Exports : <<e, "csv">> \in ExportFile /\ <<e, "part">> \in ExportFile
BY ExportAssumption DEF ExportTypeOK, ExportFile

\* Every step keeps the types.
LEMMA ExportTypeStep == ExportTypeOK /\ [ExportNext]_exportVars => ExportTypeOK'
<1> SUFFICES ASSUME ExportTypeOK, [ExportNext]_exportVars PROVE ExportTypeOK'
  OBVIOUS
<1> USE ExportAssumption DEF ExportTypeOK, ExportStatus, ExportPlace
<1>1. ASSUME NEW e \in Exports, CreateExport(e) PROVE ExportTypeOK'
  BY <1>1 DEF CreateExport, ExportSave, ExportFault
<1>2. ASSUME NEW w \in ExportWorkers, ExportStep(w) \/ ExportMishap(w) PROVE ExportTypeOK'
  <2> USE ExportTyped, <1>2
  <2>1. ASSUME NEW e \in Exports, StartExport(w, e) PROVE ExportTypeOK'
    <3> DEFINE n == [pc |-> "loaded", job |-> e, held |-> TRUE]
    <3>1. /\ n \in [pc: ExportPlace, job: Exports \cup {NoExport}, held: BOOLEAN]
          /\ n.job # NoExport /\ n.pc # "idle"
      OBVIOUS
    <3>2. exportRuns' = [exportRuns EXCEPT ![w] = n] \/ exportRuns' = exportRuns
      BY <2>1 DEF StartExport
    <3>3. /\ exportRuns' \in [ExportWorkers -> [pc: ExportPlace, job: Exports \cup {NoExport},
                                                held: BOOLEAN]]
          /\ \A v \in ExportWorkers : exportRuns'[v].job = NoExport <=> exportRuns'[v].pc = "idle"
      <4> HIDE DEF n
      <4>. QED BY <3>1, <3>2
    <3>. QED BY <2>1, <3>3 DEF StartExport
  <2>2. CASE SaveRunning(w)
    BY <2>2 DEF SaveRunning, ExportAt, ExportSave, ExportGoes
  <2>3. CASE OpenPart(w)
    BY <2>3 DEF OpenPart, ExportAt, ExportPartial, ExportGoes
  <2>4. CASE WritePart(w)
    BY <2>4 DEF WritePart, ExportAt, ExportPartial, ExportGoes
  <2>5. CASE RenamePart(w)
    BY <2>5 DEF RenamePart, ExportAt, ExportPartial, ExportGoes
  <2>6. CASE SaveDone(w)
    BY <2>6 DEF SaveDone, ExportAt, ExportSave, ExportGoes
  <2>7. CASE EmitCompleted(w)
    BY <2>7 DEF EmitCompleted, ExportAt, ExportEnds, ExportIdle, ExportFault
  <2>8. CASE SaveFailed(w)
    <3>1. /\ exportFiles' \in [ExportFile -> {"none", "torn", "whole"}]
          /\ exportOld' \subseteq ExportFile
      BY <2>8 DEF SaveFailed, ExportAt, ExportPartial
    <3>2. /\ exportJobs' \in [Exports -> ExportStatus]
          /\ exportStranded' \subseteq Exports
          /\ exportFaults' \in 0..MaxExportFaults
      BY <2>8 DEF SaveFailed, ExportAt, ExportSave, ExportFault
    <3>3. /\ exportRuns' \in [ExportWorkers -> [pc: ExportPlace, job: Exports \cup {NoExport},
                                                held: BOOLEAN]]
          /\ \A v \in ExportWorkers : exportRuns'[v].job = NoExport <=> exportRuns'[v].pc = "idle"
      BY <2>8 DEF SaveFailed, ExportEnds, ExportIdle
    <3>. QED BY <2>8, <3>1, <3>2, <3>3 DEF SaveFailed
  <2>9. CASE ExportFails(w)
    BY <2>9 DEF ExportFails, ExportGoes, ExportFault
  <2>10. CASE SaveRunningFails(w)
    BY <2>10 DEF SaveRunningFails, ExportAt, ExportEnds, ExportIdle, ExportFault
  <2>11. CASE ExportCrash(w)
    BY <2>11 DEF ExportCrash, ExportAt, ExportReturned, ExportEnds, ExportIdle, ExportFault
  <2>12. CASE ExportRedelivered(w)
    <3>1. exportRuns' = [exportRuns EXCEPT ![w] = [@ EXCEPT !.held = FALSE]]
      BY <2>12 DEF ExportRedelivered
    <3>2. /\ exportRuns' \in [ExportWorkers -> [pc: ExportPlace, job: Exports \cup {NoExport},
                                                held: BOOLEAN]]
          /\ \A v \in ExportWorkers : exportRuns'[v].job = NoExport <=> exportRuns'[v].pc = "idle"
      BY <3>1
    <3>. QED BY <2>12, <3>2 DEF ExportRedelivered, ExportFault
  <2>. QED BY <2>1, <2>2, <2>3, <2>4, <2>5, <2>6, <2>7, <2>8, <2>9, <2>10, <2>11, <2>12
           DEF ExportStep, ExportMishap
<1>3. ASSUME NEW f \in ExportFile, ExportAges(f) \/ PruneExport(f) PROVE ExportTypeOK'
  BY <1>3 DEF ExportAges, PruneExport, ExportFile
<1>4. CASE UNCHANGED exportVars
  BY <1>4 DEF exportVars
<1>. QED BY <1>1, <1>2, <1>3, <1>4 DEF ExportNext

\* A worker that takes a step leaves the others where they are.
LEMMA ExportOthers ==
  ASSUME ExportTypeOK, NEW w \in ExportWorkers, ExportStep(w) \/ ExportMishap(w),
         NEW v \in ExportWorkers, v # w
  PROVE  exportRuns'[v] = exportRuns[v]
BY DEF ExportTypeOK, ExportStep, ExportMishap, StartExport, SaveRunning, OpenPart, WritePart,
   RenamePart, SaveDone, EmitCompleted, SaveFailed, ExportFails, SaveRunningFails, ExportCrash,
   ExportRedelivered, ExportGoes, ExportEnds

\* Who is at a job that one worker has between loading and saving: nobody else.
LEMMA ExportAlone ==
  ASSUME ExportInv, NEW w \in ExportWorkers, exportRuns[w].pc \in ExportBusy \cup {"loaded"},
         NEW v \in ExportWorkers, v # w, exportRuns[v].job = exportRuns[w].job
  PROVE  FALSE
<1> USE DEF ExportInv, ExportBusy
<1>1. exportRuns[v].pc # "idle"
  BY DEF ExportTypeOK
<1>2. exportRuns[v].pc \in ExportBusy \cup {"loaded", "saved"}
  BY <1>1 DEF ExportTypeOK, ExportPlace
<1>. QED BY <1>2 DEF OneMessage, RowsFollow, OneWriter

\* Messages and rows: a step of a worker.
LEMMA ExportRowsStep ==
  ASSUME ExportInv, NEW w \in ExportWorkers, ExportStep(w) \/ ExportMishap(w)
  PROVE  OneMessage' /\ RowsFollow' /\ OneWriter'
<1> USE ExportAssumption DEF ExportInv, ExportBusy
<1> DEFINE e == exportRuns[w].job
<1>0. /\ exportRuns[w].pc # "idle" => e \in Exports
      /\ \A v \in ExportWorkers \ {w} : exportRuns'[v] = exportRuns[v]
      /\ exportRuns[w].pc \in ExportBusy \cup {"loaded"} =>
           \A v \in ExportWorkers \ {w} : exportRuns[v].job # e
  BY ExportTyped, ExportOthers, ExportAlone
<1>1. ASSUME NEW d \in Exports, StartExport(w, d)
      PROVE  OneMessage' /\ RowsFollow' /\ OneWriter'
  <2>1. /\ exportTasks[d] = 1 /\ exportJobs[d] # "absent"
        /\ exportTasks' = [exportTasks EXCEPT ![d] = 0] /\ exportJobs' = exportJobs
    <3>1. /\ exportTasks[d] \in Nat /\ exportTasks[d] > 0 /\ exportTasks[d] <= 1
          /\ exportTasks' = [exportTasks EXCEPT ![d] = @ - 1] /\ exportJobs' = exportJobs
      BY <1>1 DEF StartExport, OneMessage, ExportTypeOK
    <3>2. exportTasks[d] = 1 /\ exportTasks[d] - 1 = 0
      BY <3>1
    <3>3. exportJobs[d] # "absent"
      BY <3>2 DEF OneMessage
    <3>. QED BY <3>1, <3>2, <3>3
  <2>2. CASE exportRuns' = exportRuns
    BY <2>1, <2>2 DEF OneMessage, RowsFollow, OneWriter, ExportTypeOK
  <2>3. CASE ExportWanted(d)
    <3>1. /\ exportRuns'[w].pc = "loaded" /\ exportRuns'[w].job = d /\ exportRuns'[w].held
          /\ exportJobs[d] \in {"queued", "failed"}
      BY <1>1, <2>3 DEF StartExport, ExportWanted, ExportTypeOK
    <3>2. \A v \in ExportWorkers : exportRuns[v].held => exportRuns[v].job # d
      BY <2>1 DEF OneMessage
    <3>. QED BY <1>0, <2>1, <3>1, <3>2 DEF OneMessage, RowsFollow, OneWriter, ExportTypeOK
  <2>. QED BY <1>1, <2>2, <2>3 DEF StartExport
<1>2. CASE SaveRunning(w)
  <2>1. /\ exportRuns[w].pc = "loaded" /\ exportRuns'[w].pc = "running" /\ exportRuns'[w].job = e
        /\ exportRuns'[w].held = exportRuns[w].held
        /\ exportTasks' = exportTasks /\ exportJobs' = [exportJobs EXCEPT ![e] = "running"]
    BY <1>2 DEF SaveRunning, ExportAt, ExportGoes, ExportSave, ExportTypeOK
  <2>2. /\ exportJobs'[e] = "running"
        /\ \A d \in Exports \ {e} : exportJobs'[d] = exportJobs[d]
    BY <1>0, <2>1 DEF ExportTypeOK
  <2>3. OneMessage'
    <3>1. exportRuns[w].held /\ exportTasks[e] = 0
      BY <2>1 DEF RowsFollow, OneMessage
    <3>2. \A v \in ExportWorkers \ {w} : exportRuns[v].held => exportRuns[v].job \in Exports
      BY ExportTyped DEF OneMessage
    <3>. QED BY <1>0, <2>1, <2>2, <3>1, <3>2 DEF OneMessage
  <2>4. RowsFollow' /\ OneWriter'
    BY <1>0, <2>1, <2>2, ExportTyped DEF RowsFollow, OneWriter
  <2>. QED BY <2>3, <2>4
<1>3. CASE OpenPart(w) \/ WritePart(w) \/ RenamePart(w) \/ ExportFails(w)
  <2>1. /\ exportRuns[w].pc \in ExportBusy /\ exportRuns'[w].pc \in ExportBusy
        /\ exportRuns'[w].job = e /\ exportRuns'[w].held = exportRuns[w].held
        /\ exportTasks' = exportTasks /\ exportJobs' = exportJobs
    BY <1>3 DEF OpenPart, WritePart, RenamePart, ExportFails, ExportAt, ExportGoes, ExportTypeOK
  <2>. QED BY <1>0, <2>1 DEF OneMessage, RowsFollow, OneWriter
<1>4. CASE SaveDone(w)
  <2>1. /\ exportRuns[w].pc = "renamed" /\ exportRuns'[w].pc = "saved" /\ exportRuns'[w].job = e
        /\ exportRuns'[w].held = exportRuns[w].held
        /\ exportTasks' = exportTasks /\ exportJobs' = [exportJobs EXCEPT ![e] = "done"]
    BY <1>4 DEF SaveDone, ExportAt, ExportGoes, ExportSave, ExportTypeOK
  <2>. QED BY <1>0, <2>1 DEF OneMessage, RowsFollow, OneWriter, ExportTypeOK
<1>5. CASE EmitCompleted(w) \/ SaveRunningFails(w)
  <2>1. /\ exportRuns'[w].pc = "idle" /\ ~exportRuns'[w].held
        /\ exportTasks' = exportTasks /\ exportJobs' = exportJobs
    BY <1>5 DEF EmitCompleted, SaveRunningFails, ExportEnds, ExportIdle, ExportTypeOK
  <2>. QED BY <1>0, <2>1 DEF OneMessage, RowsFollow, OneWriter
<1>6. CASE SaveFailed(w)
  <2>1. /\ exportRuns[w].pc = "failing" /\ exportRuns'[w].pc = "idle" /\ ~exportRuns'[w].held
        /\ exportTasks' = exportTasks
        /\ exportJobs' = exportJobs \/ exportJobs' = [exportJobs EXCEPT ![e] = "failed"]
    BY <1>6 DEF SaveFailed, ExportAt, ExportEnds, ExportIdle, ExportSave, ExportTypeOK
  <2>. QED BY <1>0, <2>1 DEF OneMessage, RowsFollow, OneWriter, ExportTypeOK
<1>7. CASE ExportCrash(w)
  <2>1. /\ exportRuns[w].pc # "idle" /\ exportRuns'[w].pc = "idle" /\ ~exportRuns'[w].held
        /\ exportJobs' = exportJobs
        /\ IF exportRuns[w].held THEN exportTasks' = [exportTasks EXCEPT ![e] = @ + 1]
                                 ELSE exportTasks' = exportTasks
    BY <1>7 DEF ExportCrash, ExportAt, ExportEnds, ExportIdle, ExportReturned, ExportTypeOK
  <2>2. CASE exportRuns[w].held
    <3>1. /\ exportTasks[e] = 0 /\ exportTasks'[e] = 1 /\ exportJobs[e] # "absent"
          /\ \A d \in Exports \ {e} : exportTasks'[d] = exportTasks[d]
          /\ \A v \in ExportWorkers \ {w} : exportRuns[v].held => exportRuns[v].job # e
      BY <1>0, <2>1, <2>2 DEF OneMessage, ExportTypeOK
    <3>2. \A v \in ExportWorkers \ {w} : exportRuns[v].held => exportRuns[v].job \in Exports
      BY ExportTyped DEF OneMessage
    <3>. QED BY <1>0, <2>1, <3>1, <3>2 DEF OneMessage, RowsFollow, OneWriter
  <2>3. CASE ~exportRuns[w].held
    BY <1>0, <2>1, <2>3 DEF OneMessage, RowsFollow, OneWriter
  <2>. QED BY <2>2, <2>3
<1>8. CASE ExportRedelivered(w)
  <2>1. /\ exportRuns[w].pc \notin {"idle", "loaded"} /\ exportRuns[w].held
        /\ exportRuns' = [exportRuns EXCEPT ![w] = [@ EXCEPT !.held = FALSE]]
        /\ exportTasks' = [exportTasks EXCEPT ![e] = @ + 1] /\ exportJobs' = exportJobs
    BY <1>8 DEF ExportRedelivered
  <2>2. exportRuns'[w].pc = exportRuns[w].pc /\ exportRuns'[w].job = e /\ ~exportRuns'[w].held
    BY <2>1 DEF ExportTypeOK
  <2>. QED BY <1>0, <2>1, <2>2 DEF OneMessage, RowsFollow, OneWriter, ExportTypeOK
<1>. QED BY <1>1, <1>2, <1>3, <1>4, <1>5, <1>6, <1>7, <1>8 DEF ExportStep, ExportMishap

\* Files: a step of a worker.
LEMMA ExportFilesStep ==
  ASSUME ExportInv, NEW w \in ExportWorkers, ExportStep(w) \/ ExportMishap(w)
  PROVE  WholeFiles'
<1> USE ExportAssumption DEF ExportInv, ExportBusy
<1> DEFINE e == exportRuns[w].job
<1>0. /\ exportRuns[w].pc # "idle" => e \in Exports
      /\ \A d \in Exports : <<d, "csv">> \in ExportFile /\ <<d, "part">> \in ExportFile
      /\ \A v \in ExportWorkers \ {w} : exportRuns'[v] = exportRuns[v]
      /\ exportRuns[w].pc \in ExportBusy \cup {"loaded"} =>
           \A v \in ExportWorkers \ {w} : exportRuns[v].job # e
  BY ExportTyped, ExportOthers, ExportAlone
<1>1. CASE OpenPart(w)
  <2>1. /\ exportRuns[w].pc = "running" /\ exportRuns'[w].pc = "writing"
        /\ exportFiles' = [exportFiles EXCEPT ![<<e, "part">>] = "torn"]
        /\ exportJobs' = exportJobs /\ exportPruned' = exportPruned
    BY <1>1 DEF OpenPart, ExportAt, ExportGoes, ExportPartial, ExportTypeOK
  <2>. QED BY <1>0, <2>1 DEF WholeFiles, DoneHasFile, ExportTypeOK
<1>2. CASE WritePart(w)
  <2>1. /\ exportRuns[w].pc = "writing" /\ exportRuns'[w].pc = "written" /\ exportRuns'[w].job = e
        /\ exportFiles' = [exportFiles EXCEPT ![<<e, "part">>] = IF @ = "none" THEN @ ELSE "whole"]
        /\ exportJobs' = exportJobs /\ exportPruned' = exportPruned
    BY <1>2 DEF WritePart, ExportAt, ExportGoes, ExportPartial, ExportTypeOK
  <2>. QED BY <1>0, <2>1 DEF WholeFiles, DoneHasFile, ExportTypeOK
<1>3. CASE RenamePart(w)
  <2>1. /\ exportRuns[w].pc = "written" /\ exportRuns'[w].job = e
        /\ exportJobs' = exportJobs /\ exportPruned' = exportPruned
    BY <1>3 DEF RenamePart, ExportAt, ExportGoes, ExportTypeOK
  <2>2. CASE exportFiles[<<e, "part">>] = "none"
    <3>1. exportRuns'[w].pc = "failing" /\ exportFiles' = exportFiles
      BY <1>3, <2>2 DEF RenamePart, ExportPartial, ExportGoes, ExportTypeOK
    <3>. QED BY <1>0, <2>1, <3>1 DEF WholeFiles, DoneHasFile
  <2>3. CASE exportFiles[<<e, "part">>] # "none"
    <3>1. /\ exportRuns'[w].pc = "renamed"
          /\ exportFiles' = [exportFiles EXCEPT ![<<e, "part">>] = "none",
                                                ![<<e, "csv">>] = exportFiles[<<e, "part">>]]
      BY <1>3, <2>3 DEF RenamePart, ExportPartial, ExportGoes, ExportTypeOK
    <3>2. exportFiles[<<e, "part">>] = "whole"
      BY <1>0, <2>1, <2>3 DEF WholeFiles, ExportTypeOK
    <3>3. /\ exportFiles'[<<e, "csv">>] = "whole" /\ exportFiles'[<<e, "part">>] = "none"
          /\ \A f \in ExportFile \ {<<e, "csv">>, <<e, "part">>} : exportFiles'[f] = exportFiles[f]
      BY <1>0, <2>1, <3>1, <3>2 DEF ExportTypeOK
    <3>4. \A d \in Exports \ {e} : /\ exportFiles'[<<d, "csv">>] = exportFiles[<<d, "csv">>]
                                   /\ exportFiles'[<<d, "part">>] = exportFiles[<<d, "part">>]
      BY <1>0, <3>3
    <3>5. DoneHasFile'
      BY <2>1, <3>3, <3>4 DEF WholeFiles, DoneHasFile
    <3>6. ASSUME NEW v \in ExportWorkers \ {w}
          PROVE  LET d == exportRuns'[v].job IN
                 /\ exportRuns'[v].pc = "written" => exportFiles'[<<d, "part">>] # "torn"
                 /\ exportRuns'[v].pc = "renamed" =>
                      exportFiles'[<<d, "csv">>] = "whole" \/ d \in exportPruned'
      BY <1>0, <2>1, <3>4, ExportTyped DEF WholeFiles
    <3>. QED BY <2>1, <3>1, <3>3, <3>5, <3>6 DEF WholeFiles
  <2>. QED BY <2>2, <2>3
<1>4. CASE SaveDone(w)
  <2>1. /\ exportRuns[w].pc = "renamed" /\ exportRuns'[w].pc = "saved"
        /\ exportFiles' = exportFiles /\ exportPruned' = exportPruned
        /\ exportJobs' = [exportJobs EXCEPT ![e] = "done"]
    BY <1>4 DEF SaveDone, ExportAt, ExportGoes, ExportSave, ExportTypeOK
  <2>. QED BY <1>0, <2>1 DEF WholeFiles, DoneHasFile, ExportTypeOK
<1>5. CASE SaveFailed(w)
  <2>1. /\ exportRuns[w].pc = "failing" /\ exportRuns'[w].pc = "idle"
        /\ exportFiles' = [exportFiles EXCEPT ![<<e, "part">>] = "none"]
        /\ exportPruned' = exportPruned
        /\ exportJobs' = exportJobs \/ exportJobs' = [exportJobs EXCEPT ![e] = "failed"]
    BY <1>5
    DEF SaveFailed, ExportAt, ExportEnds, ExportIdle, ExportSave, ExportPartial, ExportTypeOK
  <2>. QED BY <1>0, <2>1 DEF WholeFiles, DoneHasFile, ExportTypeOK
<1>6. CASE \/ \E d \in Exports : StartExport(w, d)
           \/ SaveRunning(w) \/ EmitCompleted(w) \/ ExportFails(w) \/ SaveRunningFails(w)
           \/ ExportCrash(w)
  <2>1. /\ \/ exportRuns'[w].pc \in {"idle", "loaded", "running", "failing"}
           \/ exportRuns' = exportRuns
        /\ exportFiles' = exportFiles /\ exportPruned' = exportPruned
    BY <1>6 DEF StartExport, SaveRunning, EmitCompleted, ExportFails, SaveRunningFails, ExportCrash,
       ExportAt, ExportGoes, ExportEnds, ExportIdle, ExportTypeOK
  <2>2. \A d \in Exports : exportJobs'[d] = "done" => exportJobs[d] = "done"
    BY <1>6 DEF StartExport, SaveRunning, EmitCompleted, ExportFails, SaveRunningFails, ExportCrash,
       ExportSave, ExportTypeOK
  <2>. QED BY <1>0, <2>1, <2>2 DEF WholeFiles, DoneHasFile
<1>7. CASE ExportRedelivered(w)
  <2>1. /\ exportRuns' = [exportRuns EXCEPT ![w] = [@ EXCEPT !.held = FALSE]]
        /\ UNCHANGED <<exportFiles, exportPruned, exportJobs>>
    BY <1>7 DEF ExportRedelivered
  <2>2. exportRuns'[w].pc = exportRuns[w].pc /\ exportRuns'[w].job = e
    BY <2>1 DEF ExportTypeOK
  <2>. QED BY <1>0, <2>1, <2>2 DEF WholeFiles, DoneHasFile
<1>. QED BY <1>1, <1>2, <1>3, <1>4, <1>5, <1>6, <1>7 DEF ExportStep, ExportMishap

\* A job is written and queued, a file ages and is pruned: no worker moves.
LEMMA ExportOutside ==
  ASSUME ExportInv,
         \/ \E e \in Exports : CreateExport(e)
         \/ \E f \in ExportFile : ExportAges(f) \/ PruneExport(f)
         \/ UNCHANGED exportVars
  PROVE  OneMessage' /\ RowsFollow' /\ OneWriter' /\ WholeFiles'
<1> USE DEF ExportInv, ExportBusy
<1>1. ASSUME NEW e \in Exports, CreateExport(e)
      PROVE  OneMessage' /\ RowsFollow' /\ OneWriter' /\ WholeFiles'
  <2>1. /\ exportJobs[e] = "absent" /\ exportJobs' = [exportJobs EXCEPT ![e] = "queued"]
        /\ exportTasks' = exportTasks \/ exportTasks' = [exportTasks EXCEPT ![e] = @ + 1]
        /\ UNCHANGED <<exportRuns, exportFiles, exportPruned>>
    BY <1>1 DEF CreateExport, ExportSave
  <2>2. exportTasks[e] = 0 /\ \A w \in ExportWorkers : exportRuns[w].held => exportRuns[w].job # e
    BY <2>1 DEF OneMessage
  <2>3. OneMessage'
    <3>1. /\ \A d \in Exports \ {e} : /\ exportTasks'[d] = exportTasks[d]
                                     /\ exportJobs'[d] = exportJobs[d]
          /\ exportTasks'[e] <= 1 /\ exportJobs'[e] = "queued"
      BY <2>1, <2>2 DEF ExportTypeOK
    <3>. QED BY <2>1, <2>2, <3>1, ExportTyped DEF OneMessage, ExportTypeOK
  <2>4. RowsFollow' /\ OneWriter'
    BY <2>1, ExportTyped DEF RowsFollow, OneWriter, ExportTypeOK
  <2>5. WholeFiles'
    BY <2>1 DEF WholeFiles, DoneHasFile, ExportTypeOK
  <2>. QED BY <2>3, <2>4, <2>5
<1>2. ASSUME NEW f \in ExportFile, ExportAges(f)
      PROVE  OneMessage' /\ RowsFollow' /\ OneWriter' /\ WholeFiles'
  BY <1>2 DEF ExportAges, OneMessage, RowsFollow, OneWriter, WholeFiles, DoneHasFile
<1>3. ASSUME NEW f \in ExportFile, PruneExport(f)
      PROVE  OneMessage' /\ RowsFollow' /\ OneWriter' /\ WholeFiles'
  <2>1. /\ UNCHANGED <<exportJobs, exportTasks, exportRuns>>
        /\ exportFiles' = [exportFiles EXCEPT ![f] = "none"]
        /\ exportPruned' = IF f[2] = "csv" THEN exportPruned \cup {f[1]} ELSE exportPruned
    BY <1>3 DEF PruneExport
  <2>. QED BY <2>1 DEF OneMessage, RowsFollow, OneWriter, WholeFiles, DoneHasFile, ExportTypeOK,
                       ExportFile
<1>4. CASE UNCHANGED exportVars
  BY <1>4 DEF exportVars, OneMessage, RowsFollow, OneWriter, WholeFiles, DoneHasFile
<1>. QED BY <1>1, <1>2, <1>3, <1>4

\* The messages, the rows, the workers and the files stay in step.
LEMMA ExportSteps == ExportInv /\ [ExportNext]_exportVars => ExportInv'
<1> SUFFICES ASSUME ExportInv, [ExportNext]_exportVars PROVE ExportInv'
  OBVIOUS
<1>1. ExportTypeOK'
  BY ExportTypeStep DEF ExportInv
<1>2. CASE \E w \in ExportWorkers : ExportStep(w) \/ ExportMishap(w)
  BY <1>1, <1>2, ExportRowsStep, ExportFilesStep DEF ExportInv
<1>3. CASE \/ \E e \in Exports : CreateExport(e)
           \/ \E f \in ExportFile : ExportAges(f) \/ PruneExport(f)
           \/ UNCHANGED exportVars
  BY <1>1, <1>3, ExportOutside DEF ExportInv
<1>. QED BY <1>2, <1>3 DEF ExportNext

\* A system in which nothing has been exported.
LEMMA ExportsBegin == ExportInit => ExportInv
<1> SUFFICES ASSUME ExportInit PROVE ExportInv
  OBVIOUS
<1>1. ExportTypeOK
  BY ExportAssumption DEF ExportInit, ExportTypeOK, ExportIdle, ExportPlace, ExportStatus
<1>2. OneMessage /\ RowsFollow /\ OneWriter
  BY DEF ExportInit, ExportIdle, OneMessage, RowsFollow, OneWriter, ExportBusy
<1>3. WholeFiles
  BY DEF ExportInit, ExportIdle, WholeFiles, DoneHasFile, ExportFile
<1>. QED BY <1>1, <1>2, <1>3 DEF ExportInv

\* A file that is handed out is whole, and one worker at most writes it.
THEOREM ExportsWhole == ExportSpec => []ExportsSound
<1>1. ExportInit => ExportInv
  BY ExportsBegin
<1>2. ExportInv => ExportsSound
  <2> SUFFICES ASSUME ExportInv, NEW v \in ExportWorkers, NEW w \in ExportWorkers,
                      exportRuns[v].job = exportRuns[w].job,
                      {exportRuns[v].pc, exportRuns[w].pc}
                        \subseteq ExportPlace \ {"idle", "loaded"},
                      v # w
               PROVE  "saved" \in {exportRuns[v].pc, exportRuns[w].pc}
    BY DEF ExportInv, WholeFiles, ExportsSound, SoleWriter
  <2>. QED BY DEF ExportInv, OneWriter, ExportBusy, ExportPlace
<1>. QED BY <1>1, <1>2, ExportSteps, PTL DEF ExportSpec

\* A job that is done stays done: a message that comes back neither runs it again nor marks it
\* failed (run_export loads the row first).
THEOREM DoneStays == ExportSpec => DoneIsFinal
<1>1. ExportInit => ExportInv
  BY ExportsBegin
<1>2. ExportInv /\ [ExportNext]_exportVars =>
        [\A e \in Exports : exportJobs[e] = "done" => exportJobs'[e] = "done"]_exportVars
  <2> SUFFICES ASSUME ExportInv, ExportNext, NEW e \in Exports, exportJobs[e] = "done"
               PROVE  exportJobs'[e] = "done"
    OBVIOUS
  <2> USE DEF ExportInv, ExportBusy, ExportTypeOK
  <2>1. CASE \E d \in Exports : CreateExport(d)
    BY <2>1 DEF CreateExport, ExportSave
  <2>2. ASSUME NEW w \in ExportWorkers, ExportStep(w) \/ ExportMishap(w)
        PROVE  exportJobs'[e] = "done"
    <3>1. CASE SaveRunning(w)
      BY <3>1 DEF SaveRunning, ExportSave, ExportAt, RowsFollow
    <3>2. CASE SaveDone(w)
      BY <3>2 DEF SaveDone, ExportSave
    <3>3. CASE SaveFailed(w)
      BY <3>3 DEF SaveFailed, ExportSave, ExportAt, RowsFollow
    <3>4. CASE UNCHANGED exportJobs
      BY <3>4
    <3>. QED
      BY <2>2, <3>1, <3>2, <3>3, <3>4
      DEF ExportStep, ExportMishap, StartExport, OpenPart, WritePart, RenamePart, EmitCompleted,
          ExportFails, SaveRunningFails, ExportCrash, ExportRedelivered
  <2>3. CASE \E f \in ExportFile : ExportAges(f) \/ PruneExport(f)
    BY <2>3 DEF ExportAges, PruneExport
  <2>. QED BY <2>1, <2>2, <2>3 DEF ExportNext
<1>. QED BY <1>1, <1>2, ExportSteps, PTL DEF ExportSpec, DoneIsFinal

-----------------------------------------------------------------------------
(* Webhooks *)

HookSending == {"sending", "failed", "final"}
HookWorker == [pc: HookPlace, msg: HookMessage, id: HookIds \cup {NoHook}, todo: SUBSET HookSubs]

\* A worker that fans out has the message of an event, one that delivers has the message of its
\* attempt, and messages carry ids that have been drawn.
HookHeld ==
  /\ \A w \in HookWorkers :
       /\ hookRuns[w].pc = "idle" => hookRuns[w].todo = {}
       /\ hookRuns[w].pc = "fanout" => /\ hookRuns[w].msg.type = "dispatch"
                                       /\ hookRuns[w].msg.id = hookRuns[w].id
       /\ hookRuns[w].pc \in HookSending \cup {"logged"} =>
            /\ hookRuns[w].msg.type = "deliver"
            /\ hookRuns[w].msg.id = hookRuns[w].id
            /\ hookRuns[w].todo = {}
       /\ hookRuns[w].pc # "idle" => hookRuns[w].id \in hookUsed
  /\ \A m \in HookMessage : hookQueue[m] > 0 => m.id \in hookUsed

\* One id is drawn for each event, and only ids that are drawn reach a receiver.
HookDrawn ==
  /\ IsFiniteSet(hookUsed) /\ Cardinality(hookUsed) = hookEmitted
  /\ \A s \in HookSubs, id \in HookIds : hookHits[<<s, id>>] > 0 => id \in hookUsed

\* Who has a delivery: the log, a message, or a worker that has yet to queue or to log it.
HookQueued(s, id) ==
  \E m \in HookMessage : m.type = "deliver" /\ m.sub = s /\ m.id = id /\ hookQueue[m] > 0
HookHolds(w, s, id) ==
  /\ hookRuns[w].id = id
  /\ \/ s \in hookRuns[w].todo
     \/ hookRuns[w].pc \in HookSending /\ hookRuns[w].msg.sub = s
HookOwed(s, id) ==
  \/ <<s, id>> \in hookLog \cup hookLost
  \/ HookQueued(s, id)
  \/ \E w \in HookWorkers : HookHolds(w, s, id)
HookCarried == \A s \in HookSubs, id \in HookIds : <<s, id>> \in hookDue => HookOwed(s, id)

HookInv == HookTypeOK /\ HookHeld /\ HookDrawn /\ HookCarried

\* What messages look like.
LEMMA HookMessages ==
  \A m \in HookMessage :
    /\ m.type \in {"dispatch", "deliver"} /\ m.id \in HookIds \cup {NoHook}
    /\ m.type = "deliver" => /\ m.id \in HookIds /\ m.sub \in HookSubs
                             /\ m.attempt \in 1..HookAttempts
BY DEF HookMessage

\* The messages that are made are messages.
LEMMA HookMade ==
  /\ \A id \in HookIds \cup {NoHook} :
       Dispatch(id) \in HookMessage /\ Dispatch(id).id = id /\ Dispatch(id).type = "dispatch"
  /\ \A s \in HookSubs, id \in HookIds, n \in 1..HookAttempts :
       /\ Deliver(s, id, n) \in HookMessage
       /\ Deliver(s, id, n).type = "deliver"
       /\ Deliver(s, id, n).sub = s /\ Deliver(s, id, n).id = id
BY DEF Dispatch, Deliver, HookMessage

\* A worker at rest is a worker.
LEMMA HookRests == HookIdle \in HookWorker /\ HookIdle.pc = "idle" /\ HookIdle.todo = {}
<1>1. Dispatch(NoHook) \in HookMessage
  BY HookMade
<1>. QED BY <1>1 DEF HookIdle, HookWorker, HookPlace

\* A record of a worker, and the records after one of them is changed.
LEMMA HookWorkerTyped ==
  ASSUME HookTypeOK, NEW w \in HookWorkers
  PROVE  /\ hookRuns[w].pc \in HookPlace /\ hookRuns[w].msg \in HookMessage
         /\ hookRuns[w].id \in HookIds \cup {NoHook} /\ hookRuns[w].todo \subseteq HookSubs
         /\ hookRuns \in [HookWorkers -> HookWorker]
BY DEF HookTypeOK, HookWorker

\* Where a step of a worker takes its record, and that it leaves the others alone.
LEMMA HookMoves ==
  ASSUME HookTypeOK, NEW w \in HookWorkers
  PROVE  /\ \A pc \in HookPlace : HookGoes(w, pc) =>
              /\ hookRuns' \in [HookWorkers -> HookWorker]
              /\ \A v \in HookWorkers \ {w} : hookRuns'[v] = hookRuns[v]
              /\ hookRuns'[w].pc = pc /\ hookRuns'[w].msg = hookRuns[w].msg
              /\ hookRuns'[w].id = hookRuns[w].id /\ hookRuns'[w].todo = hookRuns[w].todo
         /\ HookEnds(w) =>
              /\ hookRuns' \in [HookWorkers -> HookWorker]
              /\ \A v \in HookWorkers \ {w} : hookRuns'[v] = hookRuns[v]
              /\ hookRuns'[w].pc = "idle" /\ hookRuns'[w].todo = {}
<1>1. ASSUME NEW pc \in HookPlace, HookGoes(w, pc)
      PROVE  /\ hookRuns' \in [HookWorkers -> HookWorker]
             /\ \A v \in HookWorkers \ {w} : hookRuns'[v] = hookRuns[v]
             /\ hookRuns'[w].pc = pc /\ hookRuns'[w].msg = hookRuns[w].msg
             /\ hookRuns'[w].id = hookRuns[w].id /\ hookRuns'[w].todo = hookRuns[w].todo
  <2>1. hookRuns' = [hookRuns EXCEPT ![w] = [@ EXCEPT !.pc = pc]]
    BY <1>1 DEF HookGoes
  <2>. QED BY <2>1 DEF HookTypeOK, HookWorker
<1>2. ASSUME HookEnds(w)
      PROVE  /\ hookRuns' \in [HookWorkers -> HookWorker]
             /\ \A v \in HookWorkers \ {w} : hookRuns'[v] = hookRuns[v]
             /\ hookRuns'[w].pc = "idle" /\ hookRuns'[w].todo = {}
  <2>2. hookRuns' = [hookRuns EXCEPT ![w] = HookIdle] /\ hookRuns'[w] = HookIdle
    BY <1>2 DEF HookEnds, HookTypeOK
  <2>3. hookRuns \in [HookWorkers -> HookWorker]
    BY DEF HookTypeOK, HookWorker
  <2>. QED BY <2>2, <2>3, HookRests
<1>. QED BY <1>1, <1>2

\* A message that is queued keeps all that was queued.
LEMMA HookEnqueues ==
  ASSUME HookTypeOK, NEW m \in HookMessage, Enqueued(m)
  PROVE  /\ hookQueue' \in [HookMessage -> Nat]
         /\ hookQueue'[m] > 0
         /\ \A k \in HookMessage : hookQueue[k] > 0 => hookQueue'[k] > 0
         /\ \A k \in HookMessage \ {m} : hookQueue'[k] = hookQueue[k]
BY DEF HookTypeOK, Enqueued

\* A message that is taken leaves the others.
LEMMA HookTakes ==
  ASSUME HookTypeOK, NEW m \in HookMessage, hookQueue[m] > 0,
         hookQueue' = [hookQueue EXCEPT ![m] = @ - 1]
  PROVE  /\ hookQueue' \in [HookMessage -> Nat]
         /\ \A k \in HookMessage : hookQueue'[k] > 0 => hookQueue[k] > 0
         /\ \A k \in HookMessage \ {m} : hookQueue'[k] = hookQueue[k]
BY DEF HookTypeOK

\* The invariant from its parts, when a step leaves the rest as it is.
LEMMA HookTypeParts ==
  ASSUME HookTypeOK, hookState' \in [HookSubs -> HookSubState], hookQueue' \in [HookMessage -> Nat],
         hookRuns' \in [HookWorkers -> HookWorker], hookHits' \in [HookSubs \X HookIds -> Nat],
         hookLog' \subseteq HookSubs \X HookIds, hookDue' \subseteq HookSubs \X HookIds,
         hookLost' \subseteq HookSubs \X HookIds, hookEmitted' \in 0..MaxHookEvents,
         hookUsed' \subseteq HookIds, hookFaults' = hookFaults \/ HookFault
  PROVE  HookTypeOK'
BY HookAssumption DEF HookTypeOK, HookWorker, HookFault

\* Events and the API.
LEMMA HookOutside ==
  ASSUME HookInv,
         \/ \E id \in HookIds : EmitEvent(id)
         \/ \E s \in HookSubs, state \in HookSubState : ChangeSubscription(s, state)
         \/ UNCHANGED hookVars
  PROVE  HookInv'
<1> USE HookAssumption
<1>1. ASSUME NEW id \in HookIds, EmitEvent(id) PROVE HookInv'
  <2> USE DEF HookInv
  <2>1. /\ id \notin hookUsed /\ hookUsed' = hookUsed \cup {id} /\ hookEmitted' = hookEmitted + 1
        /\ hookEmitted < MaxHookEvents
        /\ UNCHANGED <<hookState, hookRuns, hookHits, hookLog, hookDue, hookLost>>
    BY <1>1 DEF EmitEvent
  <2>2. /\ hookQueue' \in [HookMessage -> Nat]
        /\ \A k \in HookMessage : hookQueue[k] > 0 => hookQueue'[k] > 0
        /\ \A k \in HookMessage : hookQueue'[k] > 0 => hookQueue[k] > 0 \/ k.id = id
    <3>1. CASE Enqueued(Dispatch(id))
      BY <3>1, HookEnqueues, HookMade
    <3>2. CASE UNCHANGED hookQueue
      BY <3>2 DEF HookTypeOK
    <3>. QED BY <1>1, <3>1, <3>2 DEF EmitEvent, EventMessage
  <2>3. HookTypeOK'
    <3>1. hookEmitted' \in 0..MaxHookEvents /\ hookUsed' \subseteq HookIds
      BY <2>1 DEF HookTypeOK
    <3>2. hookFaults' = hookFaults \/ HookFault
      BY <1>1 DEF EmitEvent
    <3>. QED BY <2>1, <2>2, <3>1, <3>2, HookTypeParts DEF HookTypeOK, HookWorker
  <2>4. HookHeld'
    BY <2>1, <2>2 DEF HookHeld
  <2>5. HookDrawn'
    BY <2>1, FS_AddElement DEF HookDrawn
  <2>6. HookCarried'
    BY <2>1, <2>2 DEF HookCarried, HookOwed, HookQueued, HookHolds
  <2>. QED BY <2>3, <2>4, <2>5, <2>6
<1>2. ASSUME NEW s \in HookSubs, NEW state \in HookSubState, ChangeSubscription(s, state)
      PROVE  HookInv'
  <2>1. hookState' \in [HookSubs -> HookSubState]
    BY <1>2 DEF ChangeSubscription, HookInv, HookTypeOK
  <2>. QED BY <1>2, <2>1 DEF ChangeSubscription, HookInv, HookTypeOK, HookHeld, HookDrawn,
                            HookCarried, HookOwed, HookQueued, HookHolds
<1>3. CASE UNCHANGED hookVars
  BY <1>3 DEF hookVars, HookInv, HookTypeOK, HookHeld, HookDrawn, HookCarried, HookOwed, HookQueued,
             HookHolds
<1>. QED BY <1>1, <1>2, <1>3

\* dispatch_event: what it finds is with it.
LEMMA HookDispatches ==
  ASSUME HookInv, NEW w \in HookWorkers, NEW m \in HookMessage, DispatchEvent(w, m)
  PROVE  HookInv'
<1> USE HookAssumption DEF HookInv
<1>1. m.id \in hookUsed /\ m.id \in HookIds /\ m.type = "dispatch"
  BY DEF DispatchEvent, HookHeld, HookTypeOK
<1> DEFINE n == [pc |-> "fanout", msg |-> m, id |-> m.id, todo |-> HookWanted]
<1>2. /\ n \in HookWorker /\ n.pc = "fanout" /\ n.id = m.id /\ n.msg = m
      /\ n.todo = HookWanted /\ HookWanted \subseteq HookSubs
  BY <1>1 DEF HookWorker, HookPlace, HookWanted
<1>3. /\ hookRuns[w].pc = "idle" /\ hookQueue[m] > 0
      /\ hookQueue' = [hookQueue EXCEPT ![m] = @ - 1]
      /\ hookRuns' = [hookRuns EXCEPT ![w] = n]
      /\ hookUsed' = hookUsed /\ hookDue' = hookDue \cup HookWanted \X {m.id}
      /\ UNCHANGED <<hookState, hookHits, hookLog, hookLost, hookEmitted, hookFaults>>
  <2>1. /\ m.id # NoHook /\ hookUsed \cup {m.id} = hookUsed
    BY <1>1
  <2>2. PICK id \in IF m.id # NoHook THEN {m.id} ELSE HookIds \ hookUsed :
             /\ hookRuns' = [hookRuns EXCEPT ![w] = [pc |-> "fanout", msg |-> m, id |-> id,
                                                     todo |-> HookWanted]]
             /\ hookUsed' = hookUsed \cup {id}
             /\ hookDue' = hookDue \cup HookWanted \X {id}
    BY DEF DispatchEvent
  <2>3. id = m.id
    BY <2>1, <2>2
  <2>. QED BY <2>1, <2>2, <2>3 DEF DispatchEvent, HookAt
<1> HIDE DEF n
<1>4. /\ hookRuns' \in [HookWorkers -> HookWorker] /\ hookRuns'[w] = n
      /\ \A v \in HookWorkers \ {w} : hookRuns'[v] = hookRuns[v]
  BY <1>2, <1>3, HookWorkerTyped
<1>5. HookTypeOK'
  <2>1. hookDue' \subseteq HookSubs \X HookIds
    BY <1>1, <1>2, <1>3 DEF HookTypeOK
  <2>. QED BY <1>3, <1>4, <2>1, HookTakes, HookTypeParts DEF HookTypeOK
<1>6. HookHeld'
  BY <1>1, <1>2, <1>3, <1>4, HookTakes DEF HookHeld, HookSending
<1>7. HookDrawn'
  BY <1>3 DEF HookDrawn
<1>8. HookCarried'
  <2> SUFFICES ASSUME NEW s \in HookSubs, NEW id \in HookIds, <<s, id>> \in hookDue'
               PROVE  HookOwed(s, id)'
    BY DEF HookCarried
  <2>1. CASE id = m.id /\ s \in HookWanted
    BY <1>2, <1>4, <2>1 DEF HookOwed, HookHolds
  <2>2. CASE <<s, id>> \in hookDue
    <3>1. HookQueued(s, id) => HookQueued(s, id)'
      BY <1>1, <1>3, HookTakes DEF HookQueued
    <3>2. \A v \in HookWorkers : HookHolds(v, s, id) => v # w
      BY <1>3 DEF HookHolds, HookHeld, HookSending
    <3>3. \A v \in HookWorkers : HookHolds(v, s, id) => HookHolds(v, s, id)'
      BY <1>4, <3>2 DEF HookHolds
    <3>. QED BY <1>3, <2>2, <3>1, <3>3 DEF HookCarried, HookOwed
  <2>. QED BY <1>3, <2>1, <2>2
<1>. QED BY <1>5, <1>6, <1>7, <1>8

\* A worker that holds nothing of its own any more may put its message away.
LEMMA HookPutsAway ==
  ASSUME HookInv, NEW w \in HookWorkers, HookEnds(w),
         UNCHANGED <<hookState, hookHits, hookEmitted, hookUsed>>,
         hookFaults' = hookFaults \/ HookFault,
         hookQueue' \in [HookMessage -> Nat],
         \A k \in HookMessage : hookQueue[k] > 0 => hookQueue'[k] > 0,
         \A k \in HookMessage : hookQueue'[k] > 0 => hookQueue[k] > 0 \/ k.id \in hookUsed,
         hookLog' \subseteq HookSubs \X HookIds, hookLost' \subseteq HookSubs \X HookIds,
         hookLog \subseteq hookLog', hookLost \subseteq hookLost', hookDue' \subseteq hookDue,
         \A s \in HookSubs, id \in HookIds :
           HookHolds(w, s, id) => \/ <<s, id>> \notin hookDue' \/ <<s, id>> \in hookLost'
                                  \/ HookQueued(s, id)'
  PROVE  HookInv'
<1> USE HookAssumption DEF HookInv
<1>1. /\ hookRuns' \in [HookWorkers -> HookWorker]
      /\ \A v \in HookWorkers \ {w} : hookRuns'[v] = hookRuns[v]
      /\ hookRuns'[w].pc = "idle" /\ hookRuns'[w].todo = {}
  BY HookMoves
<1>2. HookTypeOK'
  BY <1>1, HookTypeParts DEF HookTypeOK
<1>3. HookHeld'
  BY <1>1 DEF HookHeld, HookSending
<1>4. HookDrawn'
  BY DEF HookDrawn
<1>5. HookCarried'
  <2> SUFFICES ASSUME NEW s \in HookSubs, NEW id \in HookIds, <<s, id>> \in hookDue'
               PROVE  HookOwed(s, id)'
    BY DEF HookCarried
  <2>1. HookOwed(s, id)
    BY DEF HookCarried
  <2>2. HookQueued(s, id) => HookQueued(s, id)'
    BY DEF HookQueued
  <2>3. \A v \in HookWorkers \ {w} : HookHolds(v, s, id) => HookHolds(v, s, id)'
    BY <1>1 DEF HookHolds
  <2>. QED BY <2>1, <2>2, <2>3 DEF HookOwed
<1>. QED BY <1>2, <1>3, <1>4, <1>5

\* A worker goes on: it keeps what it holds, or the message or the log has it.
LEMMA HookGoesOn ==
  ASSUME HookInv, NEW w \in HookWorkers, hookRuns[w].pc \in HookSending,
         NEW pc \in HookSending \cup {"logged"}, HookGoes(w, pc),
         UNCHANGED <<hookState, hookDue, hookEmitted, hookUsed>>,
         hookFaults' = hookFaults \/ HookFault,
         hookQueue' \in [HookMessage -> Nat],
         \A k \in HookMessage : hookQueue[k] > 0 => hookQueue'[k] > 0,
         \A k \in HookMessage : hookQueue'[k] > 0 => hookQueue[k] > 0 \/ k.id \in hookUsed,
         hookHits' \in [HookSubs \X HookIds -> Nat],
         \A s \in HookSubs, id \in HookIds :
            hookHits'[<<s, id>>] > 0 => hookHits[<<s, id>>] > 0 \/ id \in hookUsed,
         hookLog' \subseteq HookSubs \X HookIds, hookLost' \subseteq HookSubs \X HookIds,
         hookLog \subseteq hookLog', hookLost \subseteq hookLost',
         \/ pc \in HookSending
         \/ HookTarget(w) \in hookLog' \cup hookLost'
         \/ \E m \in HookMessage : /\ m.type = "deliver" /\ hookQueue'[m] > 0
                                   /\ <<m.sub, m.id>> = HookTarget(w)
  PROVE  HookInv'
<1> USE HookAssumption DEF HookInv
<1>0. pc \in HookPlace
  BY DEF HookPlace, HookSending
<1>1. /\ hookRuns' \in [HookWorkers -> HookWorker]
      /\ \A v \in HookWorkers \ {w} : hookRuns'[v] = hookRuns[v]
      /\ hookRuns'[w].pc = pc /\ hookRuns'[w].msg = hookRuns[w].msg
      /\ hookRuns'[w].id = hookRuns[w].id /\ hookRuns'[w].todo = hookRuns[w].todo
  BY <1>0, HookMoves
<1>2. HookTypeOK'
  BY <1>1, HookTypeParts DEF HookTypeOK
<1>3. HookHeld'
  BY <1>1 DEF HookHeld, HookSending
<1>4. HookDrawn'
  BY DEF HookDrawn
<1>5. HookCarried'
  <2> SUFFICES ASSUME NEW s \in HookSubs, NEW id \in HookIds, <<s, id>> \in hookDue'
               PROVE  HookOwed(s, id)'
    BY DEF HookCarried
  <2>1. HookOwed(s, id)
    BY DEF HookCarried
  <2>2. HookQueued(s, id) => HookQueued(s, id)'
    BY DEF HookQueued
  <2>3. \A v \in HookWorkers \ {w} : HookHolds(v, s, id) => HookHolds(v, s, id)'
    BY <1>1 DEF HookHolds
  <2>4. HookHolds(w, s, id) => hookRuns[w].msg.sub = s /\ hookRuns[w].msg.id = id
    BY DEF HookHolds, HookHeld
  <2>5. HookHolds(w, s, id) => HookOwed(s, id)'
    <3>1. CASE pc \in HookSending
      BY <1>1, <2>4, <3>1 DEF HookHolds, HookOwed
    <3>2. CASE HookTarget(w) \in hookLog' \cup hookLost'
      BY <2>4, <3>2 DEF HookTarget, HookOwed
    <3>3. CASE \E m \in HookMessage : /\ m.type = "deliver" /\ hookQueue'[m] > 0
                                       /\ <<m.sub, m.id>> = HookTarget(w)
      BY <2>4, <3>3 DEF HookTarget, HookOwed, HookQueued
    <3>. QED BY <3>1, <3>2, <3>3
  <2>. QED BY <2>1, <2>2, <2>3, <2>5 DEF HookOwed
<1>. QED BY <1>2, <1>3, <1>4, <1>5

\* A worker that dispatches or delivers keeps what is owed.
LEMMA HookWorks ==
  ASSUME HookInv, NEW w \in HookWorkers, HookStep(w) \/ HookMishap(w)
  PROVE  HookInv'
<1> USE HookAssumption DEF HookInv, HookAt
<1>0. /\ hookRuns[w].msg \in HookMessage /\ hookRuns[w].pc \in HookPlace
      /\ hookRuns[w].todo \subseteq HookSubs
      /\ hookRuns[w].pc # "idle" => hookRuns[w].id \in hookUsed /\ hookRuns[w].id \in HookIds
      /\ hookRuns[w].pc \in HookSending \cup {"logged"} =>
           /\ hookRuns[w].msg.type = "deliver" /\ hookRuns[w].msg.id = hookRuns[w].id
           /\ hookRuns[w].todo = {} /\ HookTarget(w) \in HookSubs \X HookIds
  BY HookWorkerTyped, HookMessages DEF HookHeld, HookTypeOK, HookTarget
<1>1. ASSUME NEW m \in HookMessage, DispatchEvent(w, m) PROVE HookInv'
  BY <1>1, HookDispatches
<1>2. ASSUME NEW m \in HookMessage, LoadSubscription(w, m) PROVE HookInv'
  <2> DEFINE n == [pc |-> IF hookState[m.sub] \in {"inactive", "unreadable"}
                            THEN "final" ELSE "sending",
                   msg |-> m, id |-> m.id, todo |-> {}]
  <2>1. /\ n \in HookWorker /\ n.pc \in HookSending /\ n.msg = m /\ n.id = m.id /\ n.todo = {}
        /\ m.type = "deliver" /\ m.id \in hookUsed
    BY <1>2, HookMessages DEF LoadSubscription, HookWorker, HookPlace, HookSending, HookHeld
  <2>2. /\ hookRuns[w].pc = "idle" /\ hookQueue[m] > 0
        /\ hookQueue' = [hookQueue EXCEPT ![m] = @ - 1]
        /\ hookRuns' = [hookRuns EXCEPT ![w] = n]
        /\ UNCHANGED <<hookState, hookHits, hookLog, hookDue, hookLost, hookEmitted, hookUsed,
                       hookFaults>>
    BY <1>2 DEF LoadSubscription
  <2> HIDE DEF n
  <2>3. /\ hookRuns' \in [HookWorkers -> HookWorker] /\ hookRuns'[w] = n
        /\ \A v \in HookWorkers \ {w} : hookRuns'[v] = hookRuns[v]
    BY <2>1, <2>2, HookWorkerTyped
  <2>4. HookTypeOK'
    BY <2>2, <2>3, HookTakes, HookTypeParts DEF HookTypeOK
  <2>5. HookHeld'
    BY <2>1, <2>2, <2>3, HookTakes DEF HookHeld, HookSending
  <2>6. HookDrawn'
    BY <2>2 DEF HookDrawn
  <2>7. HookCarried'
    <3> SUFFICES ASSUME NEW s \in HookSubs, NEW id \in HookIds, <<s, id>> \in hookDue'
                 PROVE  HookOwed(s, id)'
      BY DEF HookCarried
    <3>1. HookOwed(s, id)
      BY <2>2 DEF HookCarried
    <3>2. HookQueued(s, id) => HookQueued(s, id)' \/ HookHolds(w, s, id)'
      BY <2>1, <2>2, <2>3, HookTakes DEF HookQueued, HookHolds
    <3>3. \A v \in HookWorkers : HookHolds(v, s, id) => v # w
      BY <2>2 DEF HookHolds, HookHeld, HookSending
    <3>4. \A v \in HookWorkers : HookHolds(v, s, id) => HookHolds(v, s, id)'
      BY <2>3, <3>3 DEF HookHolds
    <3>. QED BY <2>2, <3>1, <3>2, <3>4 DEF HookOwed
  <2>. QED BY <2>4, <2>5, <2>6, <2>7
<1>3. CASE FanOut(w)
  <2>1. PICK s \in hookRuns[w].todo :
             /\ Enqueued(Deliver(s, hookRuns[w].id, 1))
             /\ hookRuns' = [hookRuns EXCEPT ![w].todo = @ \ {s}]
    BY <1>3 DEF FanOut
  <2> DEFINE m == Deliver(s, hookRuns[w].id, 1)
  <2>2. /\ hookRuns[w].pc = "fanout"
        /\ UNCHANGED <<hookState, hookHits, hookLog, hookDue, hookLost, hookEmitted, hookUsed,
                       hookFaults>>
    BY <1>3 DEF FanOut
  <2>3. /\ m \in HookMessage /\ m.type = "deliver" /\ m.sub = s /\ m.id = hookRuns[w].id
        /\ Enqueued(m)
    BY <1>0, <2>1, <2>2, 1 \in 1..HookAttempts, HookMade
  <2>4. /\ hookRuns' \in [HookWorkers -> HookWorker]
        /\ \A v \in HookWorkers \ {w} : hookRuns'[v] = hookRuns[v]
        /\ hookRuns'[w].pc = "fanout" /\ hookRuns'[w].msg = hookRuns[w].msg
        /\ hookRuns'[w].id = hookRuns[w].id /\ hookRuns'[w].todo = hookRuns[w].todo \ {s}
    <3> DEFINE n == [hookRuns[w] EXCEPT !.todo = @ \ {s}]
    <3>1. hookRuns' = [hookRuns EXCEPT ![w] = n]
      BY <2>1
    <3>2. /\ hookRuns \in [HookWorkers -> HookWorker] /\ n \in HookWorker
          /\ n.pc = hookRuns[w].pc /\ n.msg = hookRuns[w].msg /\ n.id = hookRuns[w].id
          /\ n.todo = hookRuns[w].todo \ {s}
      BY HookWorkerTyped DEF HookWorker
    <3> HIDE DEF n
    <3>. QED BY <2>2, <3>1, <3>2
  <2> HIDE DEF m
  <2>5. HookTypeOK'
    BY <2>2, <2>3, <2>4, HookEnqueues, HookTypeParts DEF HookTypeOK
  <2>6. HookHeld'
    BY <1>0, <2>2, <2>3, <2>4, HookEnqueues DEF HookHeld, HookSending
  <2>7. HookDrawn'
    BY <2>2 DEF HookDrawn
  <2>8. HookCarried'
    <3> SUFFICES ASSUME NEW r \in HookSubs, NEW id \in HookIds, <<r, id>> \in hookDue'
                 PROVE  HookOwed(r, id)'
      BY DEF HookCarried
    <3>1. HookOwed(r, id)
      BY <2>2 DEF HookCarried
    <3>2. HookQueued(r, id) => HookQueued(r, id)'
      BY <2>3, HookEnqueues DEF HookQueued
    <3>3. \A v \in HookWorkers \ {w} : HookHolds(v, r, id) => HookHolds(v, r, id)'
      BY <2>4 DEF HookHolds
    <3>4. HookHolds(w, r, id) => HookHolds(w, r, id)' \/ HookQueued(r, id)'
      BY <2>2, <2>3, <2>4, HookEnqueues DEF HookHolds, HookQueued, HookSending
    <3>. QED BY <2>2, <3>1, <3>2, <3>3, <3>4 DEF HookOwed
  <2>. QED BY <2>5, <2>6, <2>7, <2>8
<1>4. CASE FanOutFails(w)
  <2>1. /\ hookRuns[w].pc = "fanout" /\ HookEnds(w) /\ HookFault
        /\ hookLost' = hookLost \cup hookRuns[w].todo \X {hookRuns[w].id}
        /\ UNCHANGED <<hookState, hookQueue, hookHits, hookLog, hookDue, hookEmitted, hookUsed>>
    BY <1>4 DEF FanOutFails
  <2>2. hookLost' \subseteq HookSubs \X HookIds /\ hookLost \subseteq hookLost'
    BY <1>0, <2>1 DEF HookTypeOK
  <2>3. \A s \in HookSubs, id \in HookIds : HookHolds(w, s, id) => <<s, id>> \in hookLost'
    BY <2>1 DEF HookHolds, HookSending
  <2>. QED BY <2>1, <2>2, <2>3, HookPutsAway DEF HookTypeOK
<1>5. CASE SendSigned(w)
  <2>1. PICK outcome \in {"delivered", "refused", "unanswered", "unreachable", "blocked"} :
          /\ HookGoes(w, IF outcome \in {"delivered", "blocked"} THEN "final" ELSE "failed")
          /\ hookHits' = IF outcome \in {"unreachable", "blocked"} THEN hookHits
                         ELSE [hookHits EXCEPT ![HookTarget(w)] = @ + 1]
    BY <1>5 DEF SendSigned
  <2>2. /\ hookRuns[w].pc = "sending"
        /\ UNCHANGED <<hookState, hookQueue, hookLog, hookDue, hookLost, hookEmitted, hookUsed,
                       hookFaults>>
    BY <1>5 DEF SendSigned
  <2>3. PICK pc \in HookSending : HookGoes(w, pc)
    BY <2>1 DEF HookSending
  <2>4. /\ hookHits' \in [HookSubs \X HookIds -> Nat]
        /\ \A s \in HookSubs, id \in HookIds :
             hookHits'[<<s, id>>] > 0 => hookHits[<<s, id>>] > 0 \/ id \in hookUsed
    <3>1. CASE hookHits' = hookHits
      BY <3>1 DEF HookTypeOK
    <3>2. CASE hookHits' = [hookHits EXCEPT ![HookTarget(w)] = @ + 1]
      BY <1>0, <2>2, <3>2 DEF HookTypeOK, HookTarget, HookSending
    <3>. QED BY <2>1, <3>1, <3>2
  <2>. QED BY <2>2, <2>3, <2>4, HookGoesOn DEF HookTypeOK, HookSending
<1>6. CASE ScheduleRetry(w)
  <2>1. /\ hookRuns[w].pc = "failed"
        /\ UNCHANGED <<hookState, hookHits, hookLog, hookDue, hookLost, hookEmitted, hookUsed,
                       hookFaults>>
    BY <1>6 DEF ScheduleRetry
  <2>2. CASE HookGoes(w, "final") /\ UNCHANGED hookQueue
    BY <2>1, <2>2, HookGoesOn DEF HookTypeOK, HookSending
  <2>3. CASE \E n \in NextAttempt(hookRuns[w].msg.attempt) :
               QueueRetry(hookRuns[w].msg, n) /\ HookGoes(w, "logged")
    <3>1. PICK n \in NextAttempt(hookRuns[w].msg.attempt) :
                 QueueRetry(hookRuns[w].msg, n) /\ HookGoes(w, "logged")
      BY <2>3
    <3>2. n \in 1..HookAttempts
      <4>1. hookRuns[w].msg.attempt \in 1..HookAttempts
        BY <1>0, <2>1, HookMessages DEF HookSending
      <4>. QED BY <3>1, <4>1 DEF NextAttempt
    <3> DEFINE m == Deliver(hookRuns[w].msg.sub, hookRuns[w].msg.id, n)
    <3>3. /\ m \in HookMessage /\ m.type = "deliver" /\ m.id = hookRuns[w].id
          /\ <<m.sub, m.id>> = HookTarget(w) /\ Enqueued(m)
      BY <1>0, <2>1, <3>1, <3>2, HookMade, HookMessages DEF QueueRetry, HookTarget, HookSending
    <3> HIDE DEF m
    <3>4. /\ hookQueue' \in [HookMessage -> Nat]
          /\ \A k \in HookMessage : hookQueue[k] > 0 => hookQueue'[k] > 0
          /\ \A k \in HookMessage : hookQueue'[k] > 0 => hookQueue[k] > 0 \/ k.id \in hookUsed
          /\ hookQueue'[m] > 0
      BY <1>0, <2>1, <3>3, HookEnqueues
    <3>. QED BY <2>1, <3>1, <3>3, <3>4, HookGoesOn DEF HookTypeOK, HookSending
  <2>. QED BY <1>6, <2>2, <2>3 DEF ScheduleRetry
<1>7. CASE RetryRefused(w)
  <2>1. /\ hookRuns[w].pc = "failed" /\ HookEnds(w) /\ HookFault
        /\ hookLost' = hookLost \cup {HookTarget(w)}
        /\ UNCHANGED <<hookState, hookQueue, hookHits, hookLog, hookDue, hookEmitted, hookUsed>>
    BY <1>7 DEF RetryRefused
  <2>2. hookLost' \subseteq HookSubs \X HookIds /\ hookLost \subseteq hookLost'
    BY <1>0, <2>1 DEF HookTypeOK, HookSending
  <2>3. \A s \in HookSubs, id \in HookIds : HookHolds(w, s, id) => <<s, id>> \in hookLost'
    BY <1>0, <2>1 DEF HookHolds, HookSending, HookTarget
  <2>. QED BY <2>1, <2>2, <2>3, HookPutsAway DEF HookTypeOK
<1>8. CASE LogAttempt(w)
  <2>1. /\ hookRuns[w].pc = "final" /\ HookGoes(w, "logged")
        /\ \/ hookLog' = hookLog \cup {HookTarget(w)} /\ UNCHANGED <<hookLost, hookFaults>>
           \/ HookFault /\ hookLost' = hookLost \cup {HookTarget(w)} /\ UNCHANGED hookLog
        /\ UNCHANGED <<hookState, hookQueue, hookHits, hookDue, hookEmitted, hookUsed>>
    BY <1>8 DEF LogAttempt
  <2>2. /\ hookLog' \subseteq HookSubs \X HookIds /\ hookLost' \subseteq HookSubs \X HookIds
        /\ hookLog \subseteq hookLog' /\ hookLost \subseteq hookLost'
        /\ HookTarget(w) \in hookLog' \cup hookLost'
    BY <1>0, <2>1 DEF HookTypeOK, HookSending
  <2>3. hookFaults' = hookFaults \/ HookFault
    BY <2>1
  <2>. QED BY <2>1, <2>2, <2>3, HookGoesOn DEF HookTypeOK, HookSending
<1>9. CASE Acknowledge(w)
  <2>1. /\ HookEnds(w) /\ hookRuns[w].todo = {} /\ hookRuns[w].pc \in {"logged", "fanout"}
        /\ UNCHANGED <<hookState, hookQueue, hookHits, hookLog, hookDue, hookLost, hookEmitted,
                       hookUsed, hookFaults>>
    BY <1>0, <1>9 DEF Acknowledge
  <2>2. \A s \in HookSubs, id \in HookIds : ~HookHolds(w, s, id)
    BY <2>1 DEF HookHolds, HookSending
  <2>. QED BY <2>1, <2>2, HookPutsAway DEF HookTypeOK
<1>10. CASE HookCrash(w)
  <2>1. /\ hookRuns[w].pc # "idle" /\ HookEnds(w) /\ HookFault /\ Enqueued(hookRuns[w].msg)
        /\ hookDue' = hookDue \ (hookRuns[w].todo \X {hookRuns[w].id})
        /\ UNCHANGED <<hookState, hookHits, hookLog, hookLost, hookEmitted, hookUsed>>
    BY <1>10 DEF HookCrash, MessageReturned
  <2>2. hookRuns[w].msg.id = hookRuns[w].id
    BY <1>0, <2>1 DEF HookHeld, HookPlace, HookSending
  <2>3. /\ hookQueue' \in [HookMessage -> Nat]
        /\ \A k \in HookMessage : hookQueue[k] > 0 => hookQueue'[k] > 0
        /\ \A k \in HookMessage : hookQueue'[k] > 0 => hookQueue[k] > 0 \/ k.id \in hookUsed
        /\ hookQueue'[hookRuns[w].msg] > 0
    BY <1>0, <2>1, <2>2, HookEnqueues
  <2>4. \A s \in HookSubs, id \in HookIds :
          HookHolds(w, s, id) => <<s, id>> \notin hookDue' \/ HookQueued(s, id)'
    BY <1>0, <2>1, <2>2, <2>3 DEF HookHolds, HookQueued
  <2>. QED BY <2>1, <2>3, <2>4, HookPutsAway DEF HookTypeOK
<1>. QED BY <1>1, <1>2, <1>3, <1>4, <1>5, <1>6, <1>7, <1>8, <1>9, <1>10 DEF HookStep, HookMishap

\* What a subscription is owed is in the log, in a message, with a worker or lost with an exception,
\* however often workers die and messages return; and a receiver sees no more ids than events.
THEOREM HooksDeliver == HookSpec => []HooksSound
<1>1. HookInit => HookInv
  <2> SUFFICES ASSUME HookInit PROVE HookInv
    OBVIOUS
  <2>1. HookTypeOK
    <3>1. hookRuns \in [HookWorkers -> HookWorker]
      BY HookRests DEF HookInit
    <3>. QED BY <3>1, HookAssumption DEF HookInit, HookTypeOK, HookWorker, HookSubState
  <2>2. HookHeld /\ HookCarried
    BY HookRests DEF HookInit, HookHeld, HookCarried, HookSending
  <2>3. HookDrawn
    BY FS_EmptySet DEF HookInit, HookDrawn
  <2>. QED BY <2>1, <2>2, <2>3 DEF HookInv
<1>2. HookInv /\ [HookNext]_hookVars => HookInv'
  BY HookOutside, HookWorks DEF HookNext
<1>3. HookInv => HooksSound
  <2> SUFFICES ASSUME HookInv PROVE HooksSound
    OBVIOUS
  <2>1. NothingDropped
    <3>1. \A p \in hookDue : p \in HookSubs \X HookIds
      BY DEF HookInv, HookTypeOK
    <3>2. ASSUME NEW p \in hookDue PROVE Carried(p[1], p[2])
      <4>1. p[1] \in HookSubs /\ p[2] \in HookIds /\ p = <<p[1], p[2]>>
        BY <3>1
      <4>2. HookOwed(p[1], p[2])
        BY <4>1 DEF HookInv, HookCarried
      <4>. QED BY <4>2 DEF HookOwed, HookQueued, HookHolds, Carried
    <3>. QED BY <3>2 DEF NothingDropped
  <2>2. IdsKept
    <3> SUFFICES ASSUME NEW s \in HookSubs
                 PROVE  Cardinality({id \in HookIds : hookHits[<<s, id>>] > 0}) <= hookEmitted
      BY DEF IdsKept
    <3>1. {id \in HookIds : hookHits[<<s, id>>] > 0} \subseteq hookUsed
      BY DEF HookInv, HookDrawn
    <3>. QED BY <3>1, FS_Subset DEF HookInv, HookDrawn
  <2>. QED BY <2>1, <2>2 DEF HookInv, HooksSound
<1>. QED BY <1>1, <1>2, <1>3, PTL DEF HookSpec

-----------------------------------------------------------------------------
(* Rebuilds of the staging tables and the marts. *)

\* Only the rebuild that holds the lock is under way.
RbAlone == \A t \in RbTask : rbRun[t].pc # "idle" => rbLock = t

\* A rebuild began before the day ended, and from its INSERT on has lost no day of its window.
RbRestored ==
  \A t \in RbTask :
    /\ rbRun[t].began <= rbToday
    /\ rbRun[t].pc \in {"drop_classes", "classes", "end"} /\ rbRun[t].began = rbToday =>
         RbSource(t) \cap RbWindow(rbRun[t].days) \subseteq rbTable[t]

RbInv == RbTypeOK /\ RbAlone /\ RbRestored

\* The set of runs.
RbRunSet == [pc: RbPlace, days: {RbRecent, RbBackfill}, began: RbDay]

\* At first nothing is under way.
LEMMA RbInitHolds ==
  ASSUME RbInit, RbAssumption
  PROVE  RbInv
<1>1. RbIdle \in RbRunSet /\ RbIdle.pc = "idle" /\ RbIdle.began = 0
  BY RbAssumption DEF RbIdle, RbRunSet, RbPlace, RbDay, RbAssumption
<1>2. RbTypeOK
  BY <1>1, RbAssumption DEF RbInit, RbTypeOK, RbRunSet, RbDay, RbTask, RbAssumption, NoTask
<1>3. RbAlone /\ RbRestored
  BY <1>1 DEF RbInit, RbAlone, RbRestored, RbTask
<1> QED
  BY <1>2, <1>3 DEF RbInv

\* A rebuild moves from one place to another.
LEMMA RbMoves ==
  ASSUME RbTypeOK, NEW t \in RbTask, NEW from, NEW to \in RbPlace, RbGoes(t, from, to)
  PROVE  /\ rbRun' \in [RbTask -> RbRunSet]
         /\ rbRun[t].pc = from /\ rbRun'[t].pc = to
         /\ rbRun'[t].days = rbRun[t].days /\ rbRun'[t].began = rbRun[t].began
         /\ \A u \in RbTask : u # t => rbRun'[u] = rbRun[u]
BY DEF RbGoes, RbTypeOK, RbRunSet

\* A step inside the rebuild that is under way, after which it has lost no day.
LEMMA RbStepWithin ==
  ASSUME RbInv, NEW t \in RbTask, NEW from, NEW to \in RbPlace, RbGoes(t, from, to),
         from # "idle", to # "idle", UNCHANGED <<rbToday, rbRaw, rbLock, rbFaults>>,
         rbTable' \in [RbTask -> SUBSET RbDay],
         to \in {"drop_classes", "classes", "end"} /\ rbRun[t].began = rbToday =>
           RbSource(t)' \cap RbWindow(rbRun[t].days) \subseteq rbTable'[t],
         rbClasses' \subseteq rbShown', rbShown' \subseteq RbDay
  PROVE  RbInv'
<1>1. /\ rbRun' \in [RbTask -> RbRunSet]
      /\ rbRun[t].pc = from /\ rbRun'[t].pc = to
      /\ rbRun'[t].days = rbRun[t].days /\ rbRun'[t].began = rbRun[t].began
      /\ \A u \in RbTask : u # t => rbRun'[u] = rbRun[u]
  BY RbMoves DEF RbInv
<1>2. RbTypeOK'
  BY <1>1 DEF RbInv, RbTypeOK, RbRunSet
<1>3. \A u \in RbTask : u # t => rbRun[u].pc = "idle"
  BY <1>1 DEF RbInv, RbAlone
<1>4. RbAlone'
  BY <1>1 DEF RbInv, RbAlone
<1>5. ASSUME NEW u \in RbTask
      PROVE  /\ rbRun'[u].began <= rbToday'
             /\ rbRun'[u].pc \in {"drop_classes", "classes", "end"}
                  /\ rbRun'[u].began = rbToday' =>
                  RbSource(u)' \cap RbWindow(rbRun[u].days)' \subseteq rbTable'[u]
  <2>1. rbRun'[u].began = rbRun[u].began /\ rbRun[u].began <= rbToday
    BY <1>1 DEF RbInv, RbRestored
  <2>2. CASE u = t
    <3>1. RbWindow(rbRun[u].days)' = RbWindow(rbRun[t].days)
      BY <2>2, <1>1 DEF RbWindow
    <3>2. /\ rbRun'[u].pc = to /\ rbRun'[u].began = rbRun[t].began /\ rbToday' = rbToday
          /\ RbSource(u)' = RbSource(t)' /\ rbTable'[u] = rbTable'[t]
      BY <2>2, <1>1
    <3> QED
      BY <2>1, <3>1, <3>2
  <2>3. CASE u # t
    BY <2>1, <2>3, <1>1, <1>3
  <2> QED
    BY <2>2, <2>3
<1>6. RbRestored'
  BY <1>5 DEF RbRestored
<1> QED
  BY <1>2, <1>4, <1>6 DEF RbInv

\* The DELETE of a rebuild.
LEMMA RbDeleteKeeps ==
  ASSUME RbInv, NEW t \in RbTask, RbDelete(t)
  PROVE  RbInv'
<1>1. rbTable' \in [RbTask -> SUBSET RbDay]
  BY DEF RbDelete, RbInv, RbTypeOK
<1>2. "insert" \in RbPlace
  BY DEF RbPlace
<1> QED
  BY <1>1, <1>2, RbStepWithin DEF RbDelete, RbInv, RbTypeOK

\* The INSERT of a rebuild brings the days back that its source has.
LEMMA RbInsertKeeps ==
  ASSUME RbInv, NEW t \in RbTask, RbInsert(t)
  PROVE  RbInv'
<1> DEFINE to == IF t = "marts" THEN "drop_classes" ELSE "end"
<1>1. RbSource(t) \subseteq RbDay
  BY DEF RbInv, RbTypeOK, RbSource, RbTask
<1>2. /\ rbTable' = [rbTable EXCEPT ![t] = @ \cup (RbSource(t) \cap RbInserted(rbRun[t].days))]
      /\ rbTable \in [RbTask -> SUBSET RbDay]
  BY DEF RbInsert, RbInv, RbTypeOK
<1>3. rbTable' \in [RbTask -> SUBSET RbDay]
  BY <1>1, <1>2
<1>4. RbSource(t)' = RbSource(t)
  BY <1>2 DEF RbSource, RbInsert, RbTask
<1>5. RbSource(t) \cap RbWindow(rbRun[t].days) \subseteq rbTable'[t]
  BY <1>2 DEF RbInserted
<1>6. to \in RbPlace /\ to # "idle" /\ RbGoes(t, "insert", to)
  BY DEF RbInsert, RbPlace
<1> HIDE DEF to
<1> QED
  BY <1>3, <1>4, <1>5, <1>6, RbStepWithin DEF RbInsert, RbInv, RbTypeOK

\* The classes of today, after the marts.
LEMMA RbClassesKeep ==
  ASSUME RbInv, DropClasses \/ MakeClasses
  PROVE  RbInv'
<1>1. RbSource("marts")' = RbSource("marts") /\ rbTable' = rbTable
  BY DEF RbSource, DropClasses, MakeClasses
<1>2. "marts" \in RbTask
  BY DEF RbTask
<1>3. \A from, to : from \in {"drop_classes", "classes"} /\ RbGoes("marts", from, to) =>
        (rbRun["marts"].began = rbToday =>
           RbSource("marts") \cap RbWindow(rbRun["marts"].days) \subseteq rbTable["marts"])
  BY <1>2 DEF RbGoes, RbInv, RbRestored
<1>4. CASE DropClasses
  <2>1. "classes" \in RbPlace
    BY DEF RbPlace
  <2>2. /\ RbGoes("marts", "drop_classes", "classes")
        /\ rbClasses' \subseteq rbShown' /\ rbShown' \subseteq RbDay
        /\ rbTable' \in [RbTask -> SUBSET RbDay]
        /\ UNCHANGED <<rbToday, rbRaw, rbLock, rbFaults>>
    BY <1>4 DEF DropClasses, RbInv, RbTypeOK
  <2> QED
    BY <2>1, <2>2, <1>1, <1>2, <1>3, RbStepWithin
<1>5. CASE MakeClasses
  <2>1. "end" \in RbPlace
    BY DEF RbPlace
  <2>2. /\ RbGoes("marts", "classes", "end")
        /\ rbClasses' \subseteq rbShown' /\ rbShown' \subseteq RbDay
        /\ rbTable' \in [RbTask -> SUBSET RbDay]
        /\ UNCHANGED <<rbToday, rbRaw, rbLock, rbFaults>>
    BY <1>5 DEF MakeClasses, RbInv, RbTypeOK
  <2> QED
    BY <2>1, <2>2, <1>1, <1>2, <1>3, RbStepWithin
<1> QED
  BY <1>4, <1>5

\* A rebuild that returns, at its end or because it broke off.
LEMMA RbReturnKeeps ==
  ASSUME RbInv, RbAssumption, NEW t \in RbTask, RbReturns(t), rbRun[t].pc # "idle",
         rbLock' \in {NoTask, "dead"}, rbFaults' \in 0..MaxRbFaults,
         UNCHANGED <<rbToday, rbRaw, rbTable, rbClasses, rbShown>>
  PROVE  RbInv'
<1>1. RbIdle \in RbRunSet /\ RbIdle.pc = "idle" /\ RbIdle.began = 0
  BY RbAssumption DEF RbIdle, RbRunSet, RbPlace, RbDay, RbAssumption
<1>2. /\ rbRun' \in [RbTask -> RbRunSet] /\ rbRun'[t] = RbIdle
      /\ \A u \in RbTask : u # t => rbRun'[u] = rbRun[u]
  BY <1>1 DEF RbReturns, RbInv, RbTypeOK, RbRunSet
<1>3. RbTypeOK'
  BY <1>2 DEF RbInv, RbTypeOK, RbRunSet
<1>4. \A u \in RbTask : rbRun'[u].pc = "idle"
  BY <1>1, <1>2 DEF RbInv, RbAlone
<1>5. \A u \in RbTask : rbRun'[u].began <= rbToday'
  BY <1>1, <1>2 DEF RbInv, RbRestored, RbTypeOK, RbDay
<1> QED
  BY <1>3, <1>4, <1>5 DEF RbInv, RbAlone, RbRestored

\* Each kind of step keeps the invariant.
LEMMA RbStepKeeps ==
  ASSUME RbInv, RbAssumption, [RbNext]_rbVars
  PROVE  RbInv'
<1>1. ASSUME NEW t \in RbTask, NEW days \in {RbRecent, RbBackfill}, RbStart(t, days)
      PROVE  RbInv'
  <2> DEFINE run == [pc |-> "delete", days |-> days, began |-> rbToday]
  <2>1. run \in RbRunSet /\ run.pc = "delete" /\ run.began = rbToday
    BY DEF RbInv, RbTypeOK, RbRunSet, RbPlace
  <2>2. rbRun' = [rbRun EXCEPT ![t] = run]
    BY <1>1 DEF RbStart
  <2> HIDE DEF run
  <2>3. /\ rbRun' \in [RbTask -> RbRunSet] /\ rbRun'[t] = run
        /\ \A u \in RbTask : u # t => rbRun'[u] = rbRun[u]
    BY <2>1, <2>2 DEF RbInv, RbTypeOK, RbRunSet
  <2>4. RbTypeOK'
    BY <2>3, <1>1 DEF RbStart, RbInv, RbTypeOK, RbRunSet
  <2>5. \A u \in RbTask : rbRun[u].pc = "idle"
    BY <1>1 DEF RbStart, RbFree, RbInv, RbAlone, RbTask, NoTask
  <2>6. RbAlone'
    BY <2>3, <2>5, <1>1 DEF RbStart, RbAlone
  <2>7. rbToday' = rbToday /\ rbToday \in Nat
    BY <1>1 DEF RbStart, RbInv, RbTypeOK, RbDay
  <2>8. \A u \in RbTask : /\ rbRun'[u].began <= rbToday'
                          /\ rbRun'[u].pc \in {"idle", "delete"}
    BY <2>1, <2>3, <2>5, <2>7 DEF RbInv, RbRestored
  <2>9. RbRestored'
    BY <2>8 DEF RbRestored
  <2> QED
    BY <2>4, <2>6, <2>9 DEF RbInv
<1>2. ASSUME NEW t \in RbTask, RbEnd(t)
      PROVE  RbInv'
  BY <1>2, RbReturnKeeps DEF RbEnd, RbInv, RbTypeOK
<1>3. ASSUME NEW t \in RbTask, RbBreaksOff(t)
      PROVE  RbInv'
  <2>1. rbFaults' \in 0..MaxRbFaults
    BY <1>3, RbAssumption DEF RbBreaksOff, RbInv, RbTypeOK, RbAssumption
  <2> QED
    BY <2>1, <1>3, RbReturnKeeps DEF RbBreaksOff
<1>4. ASSUME NEW t \in RbTask, RbStep(t)
      PROVE  RbInv'
  BY <1>2, <1>4, RbDeleteKeeps, RbInsertKeeps, RbClassesKeep DEF RbStep
<1>5. CASE RbMidnight
  <2>1. /\ rbToday \in RbDay /\ rbToday' \in RbDay /\ rbToday' = rbToday + 1
        /\ rbToday \in Nat
    BY <1>5, RbAssumption DEF RbMidnight, RbInv, RbTypeOK, RbDay, RbAssumption
  <2>2. RbTypeOK'
    BY <2>1, <1>5 DEF RbMidnight, RbInv, RbTypeOK
  <2>3. RbAlone'
    BY <1>5 DEF RbMidnight, RbInv, RbAlone
  <2>4. \A u \in RbTask : rbRun'[u] = rbRun[u] /\ rbRun[u].began \in Nat
                          /\ rbRun[u].began <= rbToday
    BY <1>5 DEF RbMidnight, RbInv, RbRestored, RbTypeOK, RbDay
  <2>5. \A u \in RbTask : rbRun'[u].began < rbToday'
    BY <2>1, <2>4
  <2>6. \A u \in RbTask : rbRun'[u].began <= rbToday' /\ rbRun'[u].began # rbToday'
    BY <2>1, <2>4
  <2>7. RbRestored'
    BY <2>6 DEF RbRestored
  <2> QED
    BY <2>2, <2>3, <2>7 DEF RbInv
<1>6. CASE PruneRaw
  <2>1. rbRaw' \subseteq rbRaw
    BY <1>6 DEF PruneRaw
  <2>2. RbTypeOK' /\ RbAlone'
    BY <2>1, <1>6 DEF PruneRaw, RbInv, RbTypeOK, RbAlone
  <2>3. \A u \in RbTask : RbSource(u)' \subseteq RbSource(u)
    BY <2>1, <1>6 DEF PruneRaw, RbSource
  <2>4. RbRestored'
    BY <2>3, <1>6 DEF PruneRaw, RbInv, RbRestored, RbWindow
  <2> QED
    BY <2>2, <2>4 DEF RbInv
<1>7. CASE RbLockExpires
  <2>1. \A u \in RbTask : rbRun[u].pc = "idle"
    BY <1>7 DEF RbLockExpires, RbInv, RbAlone, RbTask
  <2>2. RbTypeOK' /\ RbAlone'
    BY <2>1, <1>7 DEF RbLockExpires, RbInv, RbTypeOK, RbAlone
  <2>3. RbRestored'
    BY <1>7 DEF RbLockExpires, RbInv, RbRestored, RbWindow, RbSource
  <2> QED
    BY <2>2, <2>3 DEF RbInv
<1>8. CASE UNCHANGED rbVars
  BY <1>8 DEF rbVars, RbInv, RbTypeOK, RbAlone, RbRestored, RbWindow, RbSource
<1>9. \A t \in RbTask : RbStart(t, RbRecent) \/ RbStart(t, RbBackfill) => RbInv'
  BY <1>1
<1> QED
  BY <1>3, <1>4, <1>5, <1>6, <1>7, <1>8, <1>9 DEF RbNext

\* A rebuild that ends on the day it began has lost no day: a crash, a statement that fails or
\* the end of a day between its two statements is not one of those.
THEOREM WindowsAreRestored == RbSpec => [](RbTypeOK /\ WindowRestored)
<1>1. RbInit => RbInv
  BY RbInitHolds, RbAssumption
<1>2. RbInv /\ [RbNext]_rbVars => RbInv'
  BY RbStepKeeps, RbAssumption
<1>3. RbInv => RbTypeOK /\ WindowRestored
  BY DEF RbInv, RbRestored, WindowRestored
<1> QED
  BY <1>1, <1>2, <1>3, PTL DEF RbSpec

-----------------------------------------------------------------------------
(* Replies to reviews. *)

\* A thread that may still send review r a reply, or may still put it on its list.
RvSends(run, r) == (run.pc = "send" /\ run.review = r) \/ r \in run.queue
RvLists(run) == run.pc \in {"fetch", "insert", "list"}
RvWorks(run, r) == RvLists(run) \/ RvSends(run, r)

\* It was told that r has its reply, and has yet to record it.
RvReplied(run, r) == run.pc = "record" /\ run.ok /\ run.review = r

RvWorkers(r) == {t \in RvRuns : RvWorks(rvThread[t], r)}
RvSenders(r) == {t \in RvRuns : RvSends(rvThread[t], r)}

\* Nobody who holds the lock works on r, so that another run may put it on its list.
RvOpen(r) ==
  rvLock # RvNoRun => ~RvWorks(rvThread[rvLock], r) /\ ~RvReplied(rvThread[rvLock], r)

\* What each counts for.
RvMay(run, r) == IF RvSends(run, r) THEN 1 ELSE 0
RvDoes(run, r) == IF RvWorks(run, r) THEN 1 ELSE 0
RvVacant(r) == IF RvOpen(r) THEN 1 ELSE 0
RvCauses(r) == 1 + rvByHand[r] + rvFaults

\* What is held of a run and of the thread of the page.
RvRunSound(run) ==
  /\ run.pc \in {"send", "record"} => run.review \in RvReviews \ run.queue
  /\ run.pc \notin {"next", "send", "record"} => run.queue = {}
RvThreadsSound ==
  /\ \A t \in RvThreads : RvRunSound(rvThread[t])
  /\ rvThread[RvHand].pc \in {"idle", "send", "record"} /\ rvThread[RvHand].queue = {}

\* Replies and those that may yet be sent have their causes; for a review without a sent row
\* so has a run that may yet find it due.
RvCounted ==
  \A r \in RvReviews :
    rvReplies[r] + Cardinality(RvSenders(r)) + RvMay(rvThread[RvHand], r) <= RvCauses(r)
RvReserved ==
  \A r \in RvReviews : rvLog[r] # "sent" =>
    rvReplies[r] + Cardinality(RvWorkers(r)) + RvMay(rvThread[RvHand], r)
      + RvVacant(r) <= RvCauses(r)

RvInv == RvTypeOK /\ RvThreadsSound /\ RvCounted /\ RvReserved

\* One for an element of a set.
RvIn(t, S) == IF t \in S THEN 1 ELSE 0

\* A set that gains or loses one element.
LEMMA RvOneMoved ==
  ASSUME NEW S, NEW T, NEW t, IsFiniteSet(S), S \ {t} = T \ {t}
  PROVE  /\ IsFiniteSet(T) /\ Cardinality(S) \in Nat /\ Cardinality(T) \in Nat
         /\ Cardinality(T) + RvIn(t, S) = Cardinality(S) + RvIn(t, T)
<1>1. IsFiniteSet(S \ {t})
  BY FS_RemoveElement
<1>2. /\ IsFiniteSet(T) /\ Cardinality(T) = Cardinality(S \ {t}) + RvIn(t, T)
      /\ Cardinality(S \ {t}) \in Nat
  <2>1. CASE t \in T
    <3>1. T = (S \ {t}) \cup {t} /\ t \notin S \ {t}
      BY <2>1
    <3>2. IsFiniteSet(T) /\ Cardinality(T) = Cardinality(S \ {t}) + 1
      BY <1>1, <3>1, FS_AddElement
    <3>. QED BY <1>1, <2>1, <3>2, FS_CardinalityType DEF RvIn
  <2>2. CASE t \notin T
    <3>1. T = S \ {t}
      BY <2>2
    <3>. QED BY <1>1, <2>2, <3>1, FS_CardinalityType DEF RvIn
  <2>. QED BY <2>1, <2>2
<1>3. Cardinality(S) = Cardinality(S \ {t}) + RvIn(t, S) /\ Cardinality(S) \in Nat
  <2>1. CASE t \in S
    BY <2>1, FS_RemoveElement, FS_CardinalityType DEF RvIn
  <2>2. CASE t \notin S
    <3>1. S = S \ {t}
      BY <2>2
    <3>2. Cardinality(S) \in Nat /\ Cardinality(S) + 0 = Cardinality(S)
      BY FS_CardinalityType
    <3>3. RvIn(t, S) = 0
      BY <2>2 DEF RvIn
    <3>. QED BY <3>1, <3>2, <3>3, Zenon
  <2>. QED BY <2>1, <2>2
<1>4. RvIn(t, S) \in Nat /\ RvIn(t, T) \in Nat
  BY DEF RvIn
<1>5. PICK c \in Nat, x \in Nat, y \in Nat :
        c = Cardinality(S \ {t}) /\ x = RvIn(t, S) /\ y = RvIn(t, T)
  BY <1>2, <1>4, Zenon
<1>6. Cardinality(T) = c + y /\ Cardinality(S) = c + x
  BY <1>2, <1>3, <1>5, Zenon
<1>7. Cardinality(T) \in Nat /\ Cardinality(T) + x = Cardinality(S) + y
  BY <1>6
<1>. QED BY <1>2, <1>3, <1>5, <1>7, Zenon

\* The sets that are counted are finite.
LEMMA RvFinite ==
  ASSUME NEW r
  PROVE  /\ IsFiniteSet(RvWorkers(r)) /\ Cardinality(RvWorkers(r)) \in Nat
         /\ IsFiniteSet(RvSenders(r)) /\ Cardinality(RvSenders(r)) \in Nat
         /\ Cardinality(RvSenders(r)) <= Cardinality(RvWorkers(r))
<1>1. RvWorkers(r) \subseteq RvRuns /\ RvSenders(r) \subseteq RvWorkers(r)
  BY DEF RvWorkers, RvSenders, RvWorks
<1>. QED BY <1>1, FS_Subset, FS_CardinalityType, RvAssumption

\* When one run moves, the counts of a review differ by what that run does.
LEMMA RvCounts ==
  ASSUME RvTypeOK, NEW t \in RvRuns, NEW new, rvThread' = [rvThread EXCEPT ![t] = new], NEW r
  PROVE  /\ Cardinality(RvWorkers(r)) \in Nat /\ Cardinality(RvWorkers(r)') \in Nat
         /\ Cardinality(RvSenders(r)) \in Nat /\ Cardinality(RvSenders(r)') \in Nat
         /\ Cardinality(RvSenders(r)') <= Cardinality(RvWorkers(r)')
         /\ Cardinality(RvWorkers(r)') + RvDoes(rvThread[t], r)
              = Cardinality(RvWorkers(r)) + RvDoes(new, r)
         /\ Cardinality(RvSenders(r)') + RvMay(rvThread[t], r)
              = Cardinality(RvSenders(r)) + RvMay(new, r)
<1>1. \A u \in RvRuns : rvThread'[u] = IF u = t THEN new ELSE rvThread[u]
  BY DEF RvTypeOK, RvThreads
<1>2. RvWorkers(r)' = {u \in RvRuns : RvWorks(rvThread'[u], r)}
  BY DEF RvWorkers, RvWorks, RvLists, RvSends
<1>3. RvSenders(r)' = {u \in RvRuns : RvSends(rvThread'[u], r)}
  BY DEF RvSenders, RvSends
<1>4. /\ RvWorkers(r) \ {t} = RvWorkers(r)' \ {t}
      /\ RvIn(t, RvWorkers(r)) = RvDoes(rvThread[t], r)
      /\ RvIn(t, RvWorkers(r)') = RvDoes(new, r)
  BY <1>1, <1>2 DEF RvWorkers, RvIn, RvDoes
<1>5. /\ RvSenders(r) \ {t} = RvSenders(r)' \ {t}
      /\ RvIn(t, RvSenders(r)) = RvMay(rvThread[t], r)
      /\ RvIn(t, RvSenders(r)') = RvMay(new, r)
  BY <1>1, <1>3 DEF RvSenders, RvIn, RvMay
<1>6. RvSenders(r)' \subseteq RvWorkers(r)'
  BY <1>2, <1>3 DEF RvWorks
<1>7. /\ IsFiniteSet(RvWorkers(r)') /\ Cardinality(RvWorkers(r)') \in Nat
      /\ Cardinality(RvWorkers(r)') + RvIn(t, RvWorkers(r))
           = Cardinality(RvWorkers(r)) + RvIn(t, RvWorkers(r)')
  BY <1>4, RvFinite, RvOneMoved, Zenon
<1>8. /\ Cardinality(RvSenders(r)') \in Nat
      /\ Cardinality(RvSenders(r)') + RvIn(t, RvSenders(r))
           = Cardinality(RvSenders(r)) + RvIn(t, RvSenders(r)')
  BY <1>5, RvFinite, RvOneMoved, Zenon
<1>9. Cardinality(RvSenders(r)') <= Cardinality(RvWorkers(r)')
  BY <1>6, <1>7, FS_Subset, Zenon
<1>. QED BY <1>4, <1>5, <1>7, <1>8, <1>9, RvFinite, Zenon

\* What a step of one run has to keep to of each review.
LEMMA RvRunStep ==
  ASSUME RvInv, RvTypeOK', NEW t \in RvRuns, NEW new, rvThread' = [rvThread EXCEPT ![t] = new],
         rvByHand' = rvByHand,
         \A r \in RvReviews : rvLog'[r] = "sent" =>
           rvReplies'[r] + RvMay(new, r) + rvFaults
             <= rvReplies[r] + RvMay(rvThread[t], r) + rvFaults',
         \A r \in RvReviews : rvLog'[r] # "sent" =>
           /\ rvLog[r] # "sent"
           /\ rvReplies'[r] + RvDoes(new, r) + RvVacant(r)' + rvFaults
                <= rvReplies[r] + RvDoes(rvThread[t], r) + RvVacant(r) + rvFaults'
  PROVE  RvCounted' /\ RvReserved'
<1>1. /\ \A r \in RvReviews : /\ rvReplies[r] \in Nat /\ rvReplies'[r] \in Nat
                              /\ rvByHand[r] \in Nat
      /\ rvFaults \in Nat /\ rvFaults' \in Nat /\ rvThread'[RvHand] = rvThread[RvHand]
  BY RvAssumption DEF RvInv, RvTypeOK, RvThreads
<1>t. RvTypeOK
  BY DEF RvInv
<1>n. \A run, r : RvMay(run, r) \in {0, 1} /\ RvDoes(run, r) \in {0, 1} /\ RvVacant(r) \in {0, 1}
                  /\ RvVacant(r)' \in {0, 1}
  BY DEF RvMay, RvDoes, RvVacant
<1>2. ASSUME NEW r \in RvReviews, rvLog'[r] # "sent"
      PROVE  /\ rvReplies'[r] + Cardinality(RvWorkers(r)') + RvMay(rvThread'[RvHand], r)
                  + RvVacant(r)' <= 1 + rvByHand'[r] + rvFaults'
             /\ rvReplies'[r] + Cardinality(RvSenders(r)') + RvMay(rvThread'[RvHand], r)
                  <= 1 + rvByHand'[r] + rvFaults'
  <2>1. rvReplies[r] + Cardinality(RvWorkers(r)) + RvMay(rvThread[RvHand], r)
          + RvVacant(r) <= 1 + rvByHand[r] + rvFaults
    BY <1>2 DEF RvInv, RvReserved, RvCauses
  <2>2. /\ Cardinality(RvWorkers(r)) \in Nat /\ Cardinality(RvWorkers(r)') \in Nat
        /\ Cardinality(RvSenders(r)') \in Nat
        /\ Cardinality(RvSenders(r)') <= Cardinality(RvWorkers(r)')
        /\ Cardinality(RvWorkers(r)') + RvDoes(rvThread[t], r)
             = Cardinality(RvWorkers(r)) + RvDoes(new, r)
    BY <1>t, RvCounts, ZenonT(60)
  <2>3. rvReplies'[r] + RvDoes(new, r) + RvVacant(r)' + rvFaults
          <= rvReplies[r] + RvDoes(rvThread[t], r) + RvVacant(r) + rvFaults'
    BY <1>2
  <2>. QED BY <1>1, <1>n, <2>1, <2>2, <2>3
<1>3. ASSUME NEW r \in RvReviews, rvLog'[r] = "sent"
      PROVE  rvReplies'[r] + Cardinality(RvSenders(r)') + RvMay(rvThread'[RvHand], r)
               <= 1 + rvByHand'[r] + rvFaults'
  <2>1. rvReplies[r] + Cardinality(RvSenders(r)) + RvMay(rvThread[RvHand], r)
          <= 1 + rvByHand[r] + rvFaults
    BY DEF RvInv, RvCounted, RvCauses
  <2>2. /\ Cardinality(RvSenders(r)) \in Nat /\ Cardinality(RvSenders(r)') \in Nat
        /\ Cardinality(RvSenders(r)') + RvMay(rvThread[t], r)
             = Cardinality(RvSenders(r)) + RvMay(new, r)
    BY <1>t, RvCounts, Zenon
  <2>3. rvReplies'[r] + RvMay(new, r) + rvFaults
          <= rvReplies[r] + RvMay(rvThread[t], r) + rvFaults'
    BY <1>3
  <2>. QED BY <1>1, <1>n, <2>1, <2>2, <2>3
<1>. QED BY <1>2, <1>3 DEF RvCounted, RvReserved, RvCauses

RvThread == [pc: {"idle", "fetch", "insert", "list", "next", "send", "record"},
             seen: SUBSET RvReviews, queue: SUBSET RvReviews,
             review: RvReviews \cup {RvNoReview}, attempt: 1..RvAttempts, ok: BOOLEAN]
RvTold(run, r) == IF RvReplied(run, r) THEN 1 ELSE 0

\* A run that was told of a reply does not work on that review any more.
LEMMA RvToldRests ==
  ASSUME NEW run, RvRunSound(run), NEW r, RvReplied(run, r)
  PROVE  ~RvWorks(run, r)
BY DEF RvRunSound, RvReplied, RvWorks, RvSends, RvLists

\* What a step of one thread has to keep to while the lock stays with whom it is.
LEMMA RvTurn ==
  ASSUME RvInv, RvTypeOK', NEW t \in RvThreads, NEW new, rvThread' = [rvThread EXCEPT ![t] = new],
         RvRunSound(new), t = RvHand => new.pc \in {"idle", "send", "record"} /\ new.queue = {},
         rvByHand' = rvByHand, rvLock' = rvLock,
         \A r \in RvReviews : rvLog'[r] = "sent" =>
           rvReplies'[r] + RvMay(new, r) + rvFaults
             <= rvReplies[r] + RvMay(rvThread[t], r) + rvFaults',
         \A r \in RvReviews : rvLog'[r] # "sent" =>
           /\ rvLog[r] # "sent"
           /\ rvReplies'[r] + RvDoes(new, r) + rvFaults
                <= rvReplies[r] + RvDoes(rvThread[t], r) + rvFaults'
           /\ rvReplies'[r] + RvTold(rvThread[t], r) + rvFaults
                <= rvReplies[r] + RvTold(new, r) + rvFaults'
  PROVE  RvInv'
<1>1. RvThreadsSound'
  BY DEF RvInv, RvTypeOK, RvThreadsSound
<1>2. /\ \A r \in RvReviews : /\ rvReplies[r] \in Nat /\ rvReplies'[r] \in Nat
                              /\ rvByHand[r] \in Nat
      /\ rvFaults \in Nat /\ rvFaults' \in Nat /\ rvThread'[t] = new
      /\ \A u \in RvThreads \ {t} : rvThread'[u] = rvThread[u]
      /\ rvLock # RvNoRun => rvLock \in RvRuns
  BY RvAssumption DEF RvInv, RvTypeOK
<1>3. \A run, r : /\ RvMay(run, r) \in {0, 1} /\ RvDoes(run, r) \in {0, 1}
                  /\ RvVacant(r) \in {0, 1} /\ RvVacant(r)' \in {0, 1}
                  /\ RvTold(run, r) \in {0, 1}
  BY DEF RvMay, RvDoes, RvVacant, RvTold
<1>4. CASE t \in RvRuns
  <2>1. ASSUME NEW r \in RvReviews, rvLog'[r] # "sent"
        PROVE  rvReplies'[r] + RvDoes(new, r) + RvVacant(r)' + rvFaults
                 <= rvReplies[r] + RvDoes(rvThread[t], r) + RvVacant(r) + rvFaults'
    <3>1. CASE rvLock # t
      <4>1. RvOpen(r)' = RvOpen(r)
        <5>1. rvLock # RvNoRun => rvThread'[rvLock] = rvThread[rvLock]
          BY <1>2, <3>1 DEF RvThreads
        <5>. QED BY <5>1 DEF RvOpen, RvWorks, RvLists, RvSends, RvReplied
      <4>2. RvVacant(r)' = RvVacant(r)
        BY <4>1 DEF RvVacant
      <4>. QED BY <1>2, <1>3, <2>1, <4>2
    <3>2. CASE rvLock = t
      <4>1. RvOpen(r) <=> ~RvWorks(rvThread[t], r) /\ ~RvReplied(rvThread[t], r)
        BY <1>4, <3>2, RvAssumption DEF RvOpen
      <4>2. RvOpen(r)' <=> ~RvWorks(new, r) /\ ~RvReplied(new, r)
        BY <1>2, <1>4, <3>2, RvAssumption DEF RvOpen, RvWorks, RvLists, RvSends, RvReplied
      <4>3. RvRunSound(rvThread[t])
        BY DEF RvInv, RvThreadsSound
      <4>4. RvDoes(rvThread[t], r) + RvVacant(r) + RvTold(rvThread[t], r) = 1
        BY <4>1, <4>3, RvToldRests DEF RvDoes, RvVacant, RvTold
      <4>5. RvDoes(new, r) + RvVacant(r)' + RvTold(new, r) = 1
        BY <4>2, RvToldRests DEF RvDoes, RvVacant, RvTold
      <4>. QED BY <1>2, <1>3, <2>1, <4>4, <4>5
    <3>. QED BY <3>1, <3>2
  <2>2. RvCounted' /\ RvReserved'
    BY <1>4, <2>1, RvRunStep
  <2>. QED BY <1>1, <2>2 DEF RvInv
<1>5. CASE t = RvHand
  <2>1. \A u \in RvRuns : rvThread'[u] = rvThread[u]
    BY <1>2, <1>5, RvAssumption DEF RvThreads
  <2>2. ASSUME NEW r \in RvReviews
        PROVE  /\ RvWorkers(r)' = RvWorkers(r) /\ RvSenders(r)' = RvSenders(r)
               /\ RvOpen(r)' = RvOpen(r)
    BY <1>2, <2>1, Zenon DEF RvWorkers, RvSenders, RvOpen, RvWorks, RvLists, RvSends, RvReplied
  <2>3. \A r : RvDoes(new, r) = RvMay(new, r) /\ RvDoes(rvThread[t], r) = RvMay(rvThread[t], r)
    BY <1>5 DEF RvDoes, RvMay, RvWorks, RvLists, RvInv, RvThreadsSound
  <2>4. ASSUME NEW r \in RvReviews
        PROVE  rvReplies'[r] + RvMay(new, r) + rvFaults
                 <= rvReplies[r] + RvMay(rvThread[t], r) + rvFaults'
    BY <2>3
  <2>5. RvCounted'
    <3>1. SUFFICES ASSUME NEW r \in RvReviews
                   PROVE  rvReplies'[r] + Cardinality(RvSenders(r)) + RvMay(new, r)
                            <= 1 + rvByHand[r] + rvFaults'
      BY <1>2, <1>5, <2>2 DEF RvCounted, RvCauses
    <3>2. rvReplies[r] + Cardinality(RvSenders(r)) + RvMay(rvThread[t], r)
            <= 1 + rvByHand[r] + rvFaults
      BY <1>5 DEF RvInv, RvCounted, RvCauses
    <3>. QED BY <1>2, <1>3, <2>4, <3>2, RvFinite
  <2>6. RvReserved'
    <3>1. SUFFICES ASSUME NEW r \in RvReviews, rvLog'[r] # "sent"
                   PROVE  rvReplies'[r] + Cardinality(RvWorkers(r)) + RvMay(new, r) + RvVacant(r)
                            <= 1 + rvByHand[r] + rvFaults'
      BY <1>2, <1>5, <2>2 DEF RvReserved, RvCauses, RvVacant
    <3>2. rvReplies[r] + Cardinality(RvWorkers(r)) + RvMay(rvThread[t], r) + RvVacant(r)
            <= 1 + rvByHand[r] + rvFaults
      BY <1>5, <3>1 DEF RvInv, RvReserved, RvCauses
    <3>. QED BY <1>2, <1>3, <2>4, <3>2, RvFinite
  <2>. QED BY <1>1, <2>5, <2>6 DEF RvInv
<1>. QED BY <1>4, <1>5 DEF RvThreads

\* A step of one thread in which nothing is answered or recorded.
LEMMA RvQuietTurn ==
  ASSUME RvInv, RvTypeOK', NEW t \in RvThreads, NEW new, rvThread' = [rvThread EXCEPT ![t] = new],
         RvRunSound(new), t = RvHand => new.pc \in {"idle", "send", "record"} /\ new.queue = {},
         UNCHANGED <<rvReplies, rvLog, rvLock, rvFaults, rvByHand>>,
         \A r \in RvReviews : /\ ~RvReplied(rvThread[t], r)
                              /\ rvLog[r] = "sent" /\ RvSends(new, r) => RvSends(rvThread[t], r)
                              /\ rvLog[r] # "sent" /\ RvWorks(new, r) => RvWorks(rvThread[t], r)
  PROVE  RvInv'
<1>1. /\ \A r \in RvReviews : rvReplies[r] \in Nat
      /\ rvFaults \in Nat
  BY RvAssumption DEF RvInv, RvTypeOK
<1>2. \A r \in RvReviews : rvLog'[r] = "sent" =>
        rvReplies'[r] + RvMay(new, r) + rvFaults
          <= rvReplies[r] + RvMay(rvThread[t], r) + rvFaults'
  BY <1>1 DEF RvMay
<1>3. \A r \in RvReviews : rvLog'[r] # "sent" =>
        /\ rvLog[r] # "sent"
        /\ rvReplies'[r] + RvDoes(new, r) + rvFaults
             <= rvReplies[r] + RvDoes(rvThread[t], r) + rvFaults'
        /\ rvReplies'[r] + RvTold(rvThread[t], r) + rvFaults
             <= rvReplies[r] + RvTold(new, r) + rvFaults'
  BY <1>1 DEF RvDoes, RvTold
<1>. QED BY <1>2, <1>3, RvTurn, ZenonT(60)

\* After a transport error the thread tries again, or gives up.
LEMMA RvRepeats ==
  ASSUME rvThread \in [RvThreads -> RvThread], NEW t \in RvThreads, rvThread[t].pc = "send",
         RvRepeat(t)
  PROVE  \E new \in RvThread :
           /\ rvThread' = [rvThread EXCEPT ![t] = new]
           /\ new.pc \in {"send", "record"} /\ new.queue = rvThread[t].queue
           /\ new.review = rvThread[t].review /\ (new.pc = "record" => ~new.ok)
<1> DEFINE run == rvThread[t]
           again == [run EXCEPT !.attempt = @ + 1]
           over == [run EXCEPT !.pc = "record", !.ok = FALSE]
<1>1. rvThread' = [rvThread EXCEPT ![t] = IF run.attempt < RvAttempts THEN again ELSE over]
  BY DEF RvRepeat, RvThread
<1>2. run \in RvThread
  OBVIOUS
<1>3. CASE run.attempt < RvAttempts
  <2>1. run.attempt + 1 \in 1..RvAttempts
    BY <1>2, <1>3, RvAssumption DEF RvThread
  <2>2. /\ again \in RvThread /\ again.pc = "send" /\ again.queue = run.queue
        /\ again.review = run.review
    BY <1>2, <2>1 DEF RvThread
  <2>. HIDE DEF again, over
  <2>. QED BY <1>1, <1>3, <2>2
<1>4. CASE ~(run.attempt < RvAttempts)
  <2>1. /\ over \in RvThread /\ over.pc = "record" /\ over.queue = run.queue
        /\ over.review = run.review /\ ~over.ok
    BY <1>2 DEF RvThread
  <2>. HIDE DEF again, over
  <2>. QED BY <1>1, <1>4, <2>1
<1>. QED BY <1>3, <1>4

\* The steps before a reply is sent.
LEMMA RvQuietSteps ==
  ASSUME RvInv, NEW t \in RvThreads,
         \/ RvFetch(t) \/ RvFetchFails(t) \/ RvInsert(t) \/ RvList(t) \/ RvChoose(t) \/ RvRefused(t)
  PROVE  RvInv'
<1>1. /\ rvThread \in [RvThreads -> RvThread] /\ RvRunSound(rvThread[t])
      /\ t = RvHand => /\ rvThread[t].pc \in {"idle", "send", "record"}
                       /\ rvThread[t].queue = {}
      /\ RvTypeOK
  BY DEF RvInv, RvTypeOK, RvThread, RvThreadsSound
<1> DEFINE run == rvThread[t]
<1>2. run \in RvThread
  BY <1>1
<1>3. CASE RvFetch(t)
  <2> DEFINE new == [run EXCEPT !.pc = "insert", !.seen = {r \in RvReviews : rvReplies[r] > 0}]
  <2>1. rvThread' = [rvThread EXCEPT ![t] = new] /\ new \in RvThread
    BY <1>1, <1>2, <1>3 DEF RvFetch, RvThread
  <2>2. RvTypeOK'
    BY <1>1, <1>3, <2>1 DEF RvFetch, RvTypeOK, RvThread
  <2>3. /\ RvRunSound(new) /\ t # RvHand
        /\ \A r : ~RvReplied(run, r) /\ (RvSends(new, r) => RvSends(run, r))
                  /\ RvWorks(run, r)
    BY <1>1, <1>2, <1>3
    DEF RvFetch, RvThread, RvRunSound, RvReplied, RvSends, RvWorks, RvLists
  <2>. HIDE DEF new
  <2>. QED BY <1>3, <2>1, <2>2, <2>3, RvQuietTurn DEF RvFetch
<1>4. CASE RvFetchFails(t)
  <2> DEFINE new == [run EXCEPT !.pc = "list"]
  <2>1. rvThread' = [rvThread EXCEPT ![t] = new] /\ new \in RvThread
    BY <1>1, <1>2, <1>4 DEF RvFetchFails, RvThread
  <2>2. RvTypeOK'
    BY <1>1, <1>4, <2>1 DEF RvFetchFails, RvTypeOK, RvThread
  <2>3. /\ RvRunSound(new) /\ t # RvHand
        /\ \A r : ~RvReplied(run, r) /\ (RvSends(new, r) => RvSends(run, r))
                  /\ RvWorks(run, r)
    BY <1>1, <1>2, <1>4
    DEF RvFetchFails, RvThread, RvRunSound, RvReplied, RvSends, RvWorks, RvLists
  <2>. HIDE DEF new
  <2>. QED BY <1>4, <2>1, <2>2, <2>3, RvQuietTurn DEF RvFetchFails
<1>5. CASE RvInsert(t)
  <2> DEFINE new == [run EXCEPT !.pc = "list", !.seen = {}]
  <2>1. rvThread' = [rvThread EXCEPT ![t] = new] /\ new \in RvThread
    BY <1>1, <1>2, <1>5 DEF RvInsert, RvThread
  <2>2. rvStored' \in [RvReviews -> BOOLEAN]
    <3> DEFINE stored(r) == rvStored[r] \/ r \in rvThread[t].seen
    <3>1. \A r \in RvReviews : stored(r) \in BOOLEAN
      OBVIOUS
    <3>2. rvStored' = [r \in RvReviews |-> stored(r)]
      BY <1>5 DEF RvInsert
    <3>. HIDE DEF stored
    <3>. QED BY <3>1, <3>2
  <2>3. RvTypeOK'
    BY <1>1, <1>5, <2>1, <2>2 DEF RvInsert, RvTypeOK, RvThread
  <2>4. /\ RvRunSound(new) /\ t # RvHand
        /\ \A r : ~RvReplied(run, r) /\ (RvSends(new, r) => RvSends(run, r))
                  /\ RvWorks(run, r)
    BY <1>1, <1>2, <1>5
    DEF RvInsert, RvThread, RvRunSound, RvReplied, RvSends, RvWorks, RvLists
  <2>. HIDE DEF new
  <2>. QED BY <1>5, <2>1, <2>3, <2>4, RvQuietTurn DEF RvInsert
<1>6. CASE RvList(t)
  <2> DEFINE due == {r \in RvPending : Cardinality({s \in RvPending : s < r}) < RvBudget}
             new == [run EXCEPT !.pc = "next", !.queue = due]
  <2>1. due \subseteq RvPending /\ due \subseteq RvReviews
    BY DEF RvPending
  <2>2. rvThread' = [rvThread EXCEPT ![t] = new] /\ new \in RvThread
    <3>. HIDE DEF due
    <3>1. rvThread' = [rvThread EXCEPT ![t].pc = "next", ![t].queue = due]
      BY <1>6, Zenon DEF RvList, due
    <3>. QED BY <1>1, <1>2, <2>1, <3>1 DEF RvThread
  <2>3. RvTypeOK'
    <3>1. UNCHANGED <<rvReplies, rvStored, rvLog, rvLock, rvFaults, rvRefusals, rvByHand>>
      BY <1>6 DEF RvList
    <3>. HIDE DEF new
    <3>. QED BY <1>1, <2>2, <3>1 DEF RvTypeOK, RvThread
  <2>4. run.pc = "list" /\ run.queue = {} /\ t # RvHand
    BY <1>1, <1>6 DEF RvList, RvRunSound
  <2>5. new.pc = "next" /\ new.queue = due
    <3>. HIDE DEF due
    <3>. QED BY <1>2 DEF RvThread
  <2>6. \A r : RvWorks(run, r) /\ ~RvReplied(run, r)
    BY <2>4 DEF RvReplied, RvWorks, RvLists
  <2>. HIDE DEF due, new
  <2>7. RvRunSound(new)
    BY <2>5 DEF RvRunSound
  <2>8. \A r : RvSends(new, r) => r \in due
    BY <2>5 DEF RvSends
  <2>9. \A r : r \in due => rvLog[r] # "sent"
    BY <2>1 DEF RvPending, RvDue
  <2>. QED BY <1>6, <2>2, <2>3, <2>4, <2>6, <2>7, <2>8, <2>9, RvQuietTurn DEF RvList
<1>7. CASE RvChoose(t)
  <2>1. PICK r0 \in run.queue :
          rvThread' = [rvThread EXCEPT ![t].queue = @ \ {r0},
                         ![t].review = IF r0 \in RvWanted THEN r0 ELSE RvNoReview,
                         ![t].pc = IF r0 \in RvWanted THEN "send" ELSE "next"]
    BY <1>7, Zenon DEF RvChoose
  <2> DEFINE new == [run EXCEPT !.queue = @ \ {r0},
                       !.review = IF r0 \in RvWanted THEN r0 ELSE RvNoReview,
                       !.pc = IF r0 \in RvWanted THEN "send" ELSE "next"]
  <2>2. rvThread' = [rvThread EXCEPT ![t] = new] /\ new \in RvThread
    BY <1>1, <1>2, <2>1, RvAssumption DEF RvThread
  <2>3. RvTypeOK'
    <3>. HIDE DEF new
    <3>. QED BY <1>1, <1>7, <2>2 DEF RvChoose, RvTypeOK, RvThread
  <2>4. /\ RvRunSound(new) /\ t # RvHand
        /\ \A r : ~RvReplied(run, r) /\ (RvSends(new, r) => RvSends(run, r))
                  /\ (RvWorks(new, r) => RvWorks(run, r))
    BY <1>1, <1>2, <1>7
    DEF RvChoose, RvThread, RvRunSound, RvReplied, RvSends, RvWorks, RvLists
  <2>. HIDE DEF new
  <2>. QED BY <1>7, <2>2, <2>3, <2>4, RvQuietTurn DEF RvChoose
<1>8. CASE RvRefused(t)
  <2>1. run.pc = "send"
    BY <1>8 DEF RvRefused
  <2>4. PICK new \in RvThread :
          /\ rvThread' = [rvThread EXCEPT ![t] = new]
          /\ new.pc \in {"send", "record"} /\ new.queue = run.queue /\ new.review = run.review
          /\ new.pc = "record" => ~new.ok
    <3>1. CASE RvRepeat(t)
      BY <1>1, <2>1, <3>1, RvRepeats
    <3>2. CASE rvThread' = [rvThread EXCEPT ![t].pc = "record", ![t].ok = FALSE]
      <4> DEFINE over == [run EXCEPT !.pc = "record", !.ok = FALSE]
      <4>1. rvThread' = [rvThread EXCEPT ![t] = over]
        BY <1>1, <3>2 DEF RvThread
      <4>2. /\ over \in RvThread /\ over.pc = "record" /\ ~over.ok
            /\ over.queue = run.queue /\ over.review = run.review
        BY <1>2 DEF RvThread
      <4>. HIDE DEF over
      <4>. QED BY <4>1, <4>2
    <3>3. RvRepeat(t) \/ rvThread' = [rvThread EXCEPT ![t].pc = "record", ![t].ok = FALSE]
      BY <1>8, Zenon DEF RvRefused
    <3>. QED BY <3>1, <3>2, <3>3, Zenon
  <2>5. RvTypeOK'
    <3>1. /\ rvRefusals < MaxRvRefusals /\ rvRefusals' = rvRefusals + 1
          /\ UNCHANGED <<rvReplies, rvStored, rvLog, rvLock, rvFaults, rvByHand>>
      BY <1>8 DEF RvRefused
    <3>. QED BY <1>1, <2>4, <3>1, RvAssumption DEF RvTypeOK, RvThread
  <2>6. /\ RvRunSound(new)
        /\ \A r : ~RvReplied(run, r) /\ (RvSends(new, r) => RvSends(run, r))
                  /\ (RvWorks(new, r) => RvWorks(run, r))
    BY <1>1, <2>1, <2>4 DEF RvRunSound, RvReplied, RvSends, RvWorks, RvLists
  <2>. QED BY <1>1, <1>8, <2>4, <2>5, <2>6, RvQuietTurn DEF RvRefused
<1>. QED BY <1>3, <1>4, <1>5, <1>6, <1>7, <1>8

\* A reply that arrives, whatever becomes of the answer, and a reply that is recorded.
LEMMA RvAnswers ==
  ASSUME RvInv, NEW t \in RvThreads, RvAccepted(t) \/ RvAnswerLost(t) \/ RvRecord(t) \/ RvCrash(t)
  PROVE  RvInv'
<1>1. /\ rvThread \in [RvThreads -> RvThread] /\ RvRunSound(rvThread[t])
      /\ t = RvHand => /\ rvThread[t].pc \in {"idle", "send", "record"}
                       /\ rvThread[t].queue = {}
      /\ RvTypeOK
      /\ \A r \in RvReviews : rvReplies[r] \in Nat
      /\ rvFaults \in Nat
  BY RvAssumption DEF RvInv, RvTypeOK, RvThread, RvThreadsSound
<1> DEFINE run == rvThread[t]
<1>2. run \in RvThread
  BY <1>1
<1>3. \A x, r : /\ RvMay(x, r) \in {0, 1} /\ RvDoes(x, r) \in {0, 1} /\ RvTold(x, r) \in {0, 1}
  BY DEF RvMay, RvDoes, RvTold
<1>4. CASE RvAccepted(t)
  <2> DEFINE new == [run EXCEPT !.pc = "record", !.ok = TRUE]
  <2>1. rvThread' = [rvThread EXCEPT ![t] = new] /\ new \in RvThread
    BY <1>1, <1>2, <1>4 DEF RvAccepted, RvThread
  <2>2. /\ new.pc = "record" /\ new.ok /\ new.queue = run.queue /\ new.review = run.review
        /\ run.pc = "send" /\ run.review \in RvReviews /\ run.review \notin run.queue
    BY <1>1, <1>2, <1>4 DEF RvAccepted, RvThread, RvRunSound
  <2>. HIDE DEF new
  <2>3. /\ rvReplies' = [rvReplies EXCEPT ![run.review] = @ + 1]
        /\ UNCHANGED <<rvStored, rvLog, rvLock, rvFaults, rvRefusals, rvByHand>>
    BY <1>4 DEF RvAccepted
  <2>4. RvTypeOK'
    BY <1>1, <2>1, <2>2, <2>3 DEF RvTypeOK, RvThread
  <2>5. /\ RvRunSound(new)
        /\ \A r \in RvReviews :
             /\ ~RvReplied(run, r)
             /\ RvSends(new, r) <=> r \in run.queue
             /\ RvWorks(new, r) <=> r \in run.queue
             /\ RvSends(run, r) <=> r \in run.queue \/ r = run.review
             /\ RvWorks(run, r) <=> r \in run.queue \/ r = run.review
             /\ RvReplied(new, r) <=> r = run.review
    BY <1>1, <2>2 DEF RvRunSound, RvReplied, RvSends, RvWorks, RvLists
  <2>6. ASSUME NEW r \in RvReviews
        PROVE  /\ rvReplies'[r] + RvMay(new, r) <= rvReplies[r] + RvMay(run, r)
               /\ rvReplies'[r] + RvDoes(new, r) <= rvReplies[r] + RvDoes(run, r)
               /\ rvReplies'[r] + RvTold(run, r) <= rvReplies[r] + RvTold(new, r)
    <3>1. CASE r = run.review
      <4>1. /\ RvMay(new, r) = 0 /\ RvMay(run, r) = 1 /\ RvDoes(new, r) = 0 /\ RvDoes(run, r) = 1
            /\ RvTold(run, r) = 0 /\ RvTold(new, r) = 1
        BY <2>2, <2>5, <3>1 DEF RvMay, RvDoes, RvTold
      <4>2. rvReplies'[r] = rvReplies[r] + 1 /\ rvReplies[r] \in Nat
        BY <1>1, <2>3, <3>1 DEF RvTypeOK
      <4>. QED BY <4>1, <4>2
    <3>2. CASE r # run.review
      <4>1. /\ RvMay(new, r) = RvMay(run, r) /\ RvDoes(new, r) = RvDoes(run, r)
            /\ RvTold(run, r) = 0 /\ RvTold(new, r) = 0
        BY <2>5, <3>2 DEF RvMay, RvDoes, RvTold
      <4>2. rvReplies'[r] = rvReplies[r] /\ rvReplies[r] \in Nat
        BY <1>1, <2>3, <3>2 DEF RvTypeOK
      <4>. QED BY <1>3, <4>1, <4>2
    <3>. QED BY <3>1, <3>2
  <2>7. \A r \in RvReviews : rvReplies'[r] \in Nat
    BY <2>4 DEF RvTypeOK
  <2>8. ASSUME NEW r \in RvReviews
        PROVE  /\ rvReplies'[r] + RvMay(new, r) + rvFaults
                    <= rvReplies[r] + RvMay(run, r) + rvFaults'
               /\ rvReplies'[r] + RvDoes(new, r) + rvFaults
                    <= rvReplies[r] + RvDoes(run, r) + rvFaults'
               /\ rvReplies'[r] + RvTold(run, r) + rvFaults
                    <= rvReplies[r] + RvTold(new, r) + rvFaults'
    BY <1>1, <1>3, <2>3, <2>6, <2>7
  <2>9. t = RvHand => new.pc \in {"idle", "send", "record"} /\ new.queue = {}
    BY <1>1, <2>2
  <2>. QED BY <2>1, <2>3, <2>4, <2>5, <2>8, <2>9, RvTurn
<1>5. CASE RvAnswerLost(t)
  <2>1. /\ run.pc = "send" /\ RvRepeat(t)
        /\ rvFaults < MaxRvFaults /\ rvFaults' = rvFaults + 1
        /\ rvReplies' = [rvReplies EXCEPT ![run.review] = @ + 1]
        /\ UNCHANGED <<rvStored, rvLog, rvLock, rvRefusals, rvByHand>>
    BY <1>5 DEF RvAnswerLost, RvFault
  <2>2. PICK new \in RvThread :
          /\ rvThread' = [rvThread EXCEPT ![t] = new]
          /\ new.pc \in {"send", "record"} /\ new.queue = run.queue /\ new.review = run.review
          /\ (new.pc = "record" => ~new.ok)
    BY <1>1, <2>1, RvRepeats
  <2>3. run.review \in RvReviews /\ run.review \notin run.queue
    BY <1>1, <2>1 DEF RvRunSound
  <2>4. RvTypeOK'
    <3>1. rvFaults' \in 0..MaxRvFaults
      BY <1>1, <2>1, RvAssumption DEF RvTypeOK
    <3>2. rvReplies' \in [RvReviews -> Nat]
      BY <1>1, <2>1, <2>3 DEF RvTypeOK
    <3>3. rvThread' \in [RvThreads -> RvThread]
      BY <1>1, <2>2
    <3>. QED BY <1>1, <2>1, <3>1, <3>2, <3>3 DEF RvTypeOK, RvThread
  <2>5. /\ RvRunSound(new)
        /\ \A r \in RvReviews :
             /\ ~RvReplied(run, r) /\ ~RvReplied(new, r)
             /\ RvSends(new, r) => RvSends(run, r)
             /\ RvWorks(new, r) => RvWorks(run, r)
    BY <1>1, <2>1, <2>2 DEF RvRunSound, RvReplied, RvSends, RvWorks, RvLists
  <2>6. ASSUME NEW r \in RvReviews
        PROVE  /\ rvReplies'[r] \in {rvReplies[r], rvReplies[r] + 1} /\ rvReplies[r] \in Nat
               /\ RvMay(new, r) <= RvMay(run, r) /\ RvDoes(new, r) <= RvDoes(run, r)
               /\ RvTold(run, r) = 0 /\ RvTold(new, r) = 0
    <3>1. rvReplies'[r] \in {rvReplies[r], rvReplies[r] + 1} /\ rvReplies[r] \in Nat
      BY <1>1, <2>1, <2>3 DEF RvTypeOK
    <3>2. RvMay(new, r) <= RvMay(run, r) /\ RvDoes(new, r) <= RvDoes(run, r)
      BY <2>5 DEF RvMay, RvDoes
    <3>3. RvTold(run, r) = 0 /\ RvTold(new, r) = 0
      BY <2>5 DEF RvTold
    <3>. QED BY <3>1, <3>2, <3>3
  <2>7. ASSUME NEW r \in RvReviews
        PROVE  /\ rvReplies'[r] + RvMay(new, r) + rvFaults
                    <= rvReplies[r] + RvMay(run, r) + rvFaults'
               /\ rvReplies'[r] + RvDoes(new, r) + rvFaults
                    <= rvReplies[r] + RvDoes(run, r) + rvFaults'
               /\ rvReplies'[r] + RvTold(run, r) + rvFaults
                    <= rvReplies[r] + RvTold(new, r) + rvFaults'
    BY <1>1, <1>3, <2>1, <2>6
  <2>8. t = RvHand => new.pc \in {"idle", "send", "record"} /\ new.queue = {}
    BY <1>1, <2>2
  <2>. QED BY <2>1, <2>2, <2>4, <2>5, <2>7, <2>8, RvTurn
<1>6. CASE RvRecord(t)
  <2> DEFINE new == [RvIdle EXCEPT !.pc = IF t = RvHand THEN "idle" ELSE "next", !.queue = run.queue]
  <2>1. /\ run.pc = "record" /\ rvThread' = [rvThread EXCEPT ![t] = new]
        /\ rvLog' = [rvLog EXCEPT ![run.review] = IF run.ok \/ @ = "sent" THEN "sent" ELSE "failed"]
        /\ UNCHANGED <<rvReplies, rvStored, rvLock, rvFaults, rvRefusals, rvByHand>>
    BY <1>6 DEF RvRecord
  <2>2. /\ new \in RvThread /\ new.pc \in {"idle", "next"} /\ new.queue = run.queue
        /\ (t = RvHand => new.pc = "idle" /\ new.queue = {})
        /\ (t # RvHand => new.pc = "next")
    <3>1. RvIdle \in RvThread
      BY RvAssumption DEF RvIdle, RvThread
    <3>2. run.queue \subseteq RvReviews
      BY <1>2 DEF RvThread
    <3>3. new \in RvThread /\ new.queue = run.queue /\ new.pc = IF t = RvHand THEN "idle" ELSE "next"
      BY <3>1, <3>2 DEF RvThread
    <3>. HIDE DEF new
    <3>. QED BY <1>1, <3>3
  <2>. HIDE DEF new
  <2>3. RvTypeOK'
    BY <1>1, <2>1, <2>2 DEF RvTypeOK, RvThread
  <2>4. /\ RvRunSound(new)
        /\ \A r \in RvReviews :
             /\ ~RvReplied(new, r)
             /\ RvSends(new, r) => RvSends(run, r)
             /\ RvWorks(new, r) => RvWorks(run, r)
             /\ rvLog'[r] # "sent" => rvLog[r] # "sent" /\ ~RvReplied(run, r)
    <3>1. ASSUME NEW r \in RvReviews, rvLog'[r] # "sent"
          PROVE  rvLog[r] # "sent" /\ ~RvReplied(run, r)
      BY <1>1, <2>1, <3>1 DEF RvReplied, RvTypeOK
    <3>2. \A r \in RvReviews : /\ ~RvReplied(new, r)
                               /\ RvSends(new, r) => RvSends(run, r)
                               /\ RvWorks(new, r) => RvWorks(run, r)
      BY <2>2 DEF RvReplied, RvSends, RvWorks, RvLists
    <3>3. RvRunSound(new)
      BY <1>1, <2>2 DEF RvRunSound
    <3>. QED BY <3>1, <3>2, <3>3
  <2>5. ASSUME NEW r \in RvReviews
        PROVE  /\ RvMay(new, r) <= RvMay(run, r) /\ RvDoes(new, r) <= RvDoes(run, r)
               /\ rvLog'[r] # "sent" => RvTold(run, r) = 0
               /\ RvTold(new, r) = 0
    BY <2>4 DEF RvMay, RvDoes, RvTold
  <2>6. ASSUME NEW r \in RvReviews
        PROVE  /\ rvReplies'[r] + RvMay(new, r) + rvFaults
                    <= rvReplies[r] + RvMay(run, r) + rvFaults'
               /\ rvReplies'[r] + RvDoes(new, r) + rvFaults
                    <= rvReplies[r] + RvDoes(run, r) + rvFaults'
               /\ rvLog'[r] # "sent" => rvReplies'[r] + RvTold(run, r) + rvFaults
                                          <= rvReplies[r] + RvTold(new, r) + rvFaults'
    BY <1>1, <1>3, <2>1, <2>5
  <2>7. t = RvHand => new.pc \in {"idle", "send", "record"} /\ new.queue = {}
    BY <2>2
  <2>. QED BY <2>1, <2>3, <2>4, <2>6, <2>7, RvTurn
<1>7. CASE RvCrash(t)
  <2>1. /\ rvThread' = [rvThread EXCEPT ![t] = RvIdle]
        /\ rvFaults < MaxRvFaults /\ rvFaults' = rvFaults + 1
        /\ UNCHANGED <<rvReplies, rvStored, rvLog, rvLock, rvRefusals, rvByHand>>
    BY <1>7 DEF RvCrash, RvFault
  <2>2. /\ RvIdle \in RvThread /\ RvRunSound(RvIdle)
        /\ RvIdle.pc = "idle" /\ RvIdle.queue = {}
    BY RvAssumption DEF RvIdle, RvThread, RvRunSound
  <2>3. RvTypeOK'
    BY <1>1, <2>1, <2>2, RvAssumption DEF RvTypeOK, RvThread
  <2>4. ASSUME NEW r \in RvReviews
        PROVE  RvMay(RvIdle, r) = 0 /\ RvDoes(RvIdle, r) = 0 /\ RvTold(RvIdle, r) = 0
    BY <2>2 DEF RvMay, RvDoes, RvTold, RvSends, RvWorks, RvLists, RvReplied
  <2>5. ASSUME NEW r \in RvReviews
        PROVE  /\ rvReplies'[r] + RvMay(RvIdle, r) + rvFaults
                    <= rvReplies[r] + RvMay(run, r) + rvFaults'
               /\ rvReplies'[r] + RvDoes(RvIdle, r) + rvFaults
                    <= rvReplies[r] + RvDoes(run, r) + rvFaults'
               /\ rvReplies'[r] + RvTold(run, r) + rvFaults
                    <= rvReplies[r] + RvTold(RvIdle, r) + rvFaults'
    BY <1>1, <1>3, <2>1, <2>4
  <2>. QED BY <2>1, <2>2, <2>3, <2>5, RvTurn
<1>. QED BY <1>4, <1>5, <1>6, <1>7

\* A run that begins takes the place that nobody had, one that ends leaves its place.
LEMMA RvRunsCome ==
  ASSUME RvInv, NEW t \in RvRuns, RvStart(t) \/ RvEnd(t)
  PROVE  RvInv'
<1>1. /\ rvThread \in [RvThreads -> RvThread] /\ RvRunSound(rvThread[t])
      /\ t \in RvThreads /\ t # RvHand /\ t # RvNoRun /\ RvTypeOK
      /\ rvLock # RvNoRun => rvLock \in RvRuns
      /\ \A r \in RvReviews : rvReplies[r] \in Nat
      /\ rvFaults \in Nat
  BY RvAssumption DEF RvInv, RvTypeOK, RvThread, RvThreadsSound, RvThreads
<1> DEFINE run == rvThread[t]
<1>2. run \in RvThread
  BY <1>1
<1>3. CASE RvStart(t)
  <2> DEFINE new == [run EXCEPT !.pc = "fetch"]
  <2>1. rvThread' = [rvThread EXCEPT ![t] = new] /\ new \in RvThread /\ new.pc = "fetch"
        /\ new.queue = run.queue
    BY <1>1, <1>2, <1>3 DEF RvStart, RvThread
  <2>2. /\ run.pc = "idle" /\ run.queue = {} /\ rvLock = RvNoRun /\ rvLock' = t
        /\ UNCHANGED <<rvReplies, rvStored, rvLog, rvFaults, rvRefusals, rvByHand>>
    BY <1>1, <1>3 DEF RvStart, RvRunSound
  <2>. HIDE DEF new
  <2>3. RvTypeOK'
    BY <1>1, <2>1, <2>2 DEF RvTypeOK, RvThread
  <2>4. RvRunSound(new) /\ rvThread'[t] = new
    BY <1>1, <2>1, <2>2 DEF RvRunSound
  <2>5. ASSUME NEW r \in RvReviews
        PROVE  /\ RvMay(new, r) = 0 /\ RvMay(run, r) = 0
               /\ RvDoes(new, r) = 1 /\ RvDoes(run, r) = 0
               /\ RvVacant(r) = 1 /\ RvVacant(r)' = 0
    <3>1. ~RvSends(new, r) /\ ~RvSends(run, r) /\ RvWorks(new, r) /\ ~RvWorks(run, r)
      BY <2>1, <2>2 DEF RvSends, RvWorks, RvLists
    <3>2. RvOpen(r) /\ ~RvOpen(r)'
      BY <1>1, <2>2, <2>4, <3>1 DEF RvOpen, RvWorks, RvSends, RvLists
    <3>. QED BY <3>1, <3>2 DEF RvMay, RvDoes, RvVacant
  <2>6. RvCounted' /\ RvReserved'
    <3>1. ASSUME NEW r \in RvReviews
          PROVE  /\ rvReplies'[r] + RvMay(new, r) + rvFaults
                      <= rvReplies[r] + RvMay(run, r) + rvFaults'
                 /\ rvReplies'[r] + RvDoes(new, r) + RvVacant(r)' + rvFaults
                      <= rvReplies[r] + RvDoes(run, r) + RvVacant(r) + rvFaults'
      BY <1>1, <2>2, <2>5
    <3>. QED BY <1>1, <2>1, <2>2, <2>3, <3>1, RvRunStep
  <2>7. RvThreadsSound'
    BY <1>1, <2>1, <2>4 DEF RvInv, RvThreadsSound, RvTypeOK
  <2>. QED BY <2>3, <2>6, <2>7 DEF RvInv
<1>4. CASE RvEnd(t)
  <2>1. /\ run.pc = "next" /\ run.queue = {}
        /\ rvThread' = [rvThread EXCEPT ![t] = RvIdle]
        /\ rvLock' = IF rvLock = t THEN RvNoRun ELSE rvLock
        /\ UNCHANGED <<rvReplies, rvStored, rvLog, rvFaults, rvRefusals, rvByHand>>
    BY <1>4 DEF RvEnd
  <2>2. /\ RvIdle \in RvThread /\ RvRunSound(RvIdle)
        /\ RvIdle.pc = "idle" /\ RvIdle.queue = {}
    BY RvAssumption DEF RvIdle, RvThread, RvRunSound
  <2>3. RvTypeOK'
    BY <1>1, <2>1, <2>2 DEF RvTypeOK, RvThread
  <2>4. /\ rvThread'[t] = RvIdle
        /\ \A u \in RvRuns \ {t} : rvThread'[u] = rvThread[u]
    BY <1>1, <2>1 DEF RvThreads
  <2>5. ASSUME NEW r \in RvReviews
        PROVE  /\ RvMay(RvIdle, r) = 0 /\ RvMay(run, r) = 0
               /\ RvDoes(RvIdle, r) = 0 /\ RvDoes(run, r) = 0
               /\ RvVacant(r)' = RvVacant(r) /\ RvVacant(r) \in {0, 1}
    <3>1. /\ ~RvSends(RvIdle, r) /\ ~RvSends(run, r) /\ ~RvWorks(RvIdle, r) /\ ~RvWorks(run, r)
          /\ ~RvReplied(run, r)
      BY <2>1, <2>2 DEF RvSends, RvWorks, RvLists, RvReplied
    <3>2. RvOpen(r)' <=> RvOpen(r)
      <4>1. CASE rvLock = t
        BY <2>1, <3>1, <4>1 DEF RvOpen
      <4>2. CASE rvLock # t
        <5>1. rvLock' = rvLock /\ (rvLock # RvNoRun => rvThread'[rvLock] = rvThread[rvLock])
          BY <1>1, <2>1, <2>4, <4>2
        <5>. QED BY <5>1 DEF RvOpen, RvWorks, RvSends, RvLists, RvReplied
      <4>. QED BY <4>1, <4>2
    <3>. QED BY <3>1, <3>2 DEF RvMay, RvDoes, RvVacant
  <2>6. RvCounted' /\ RvReserved'
    <3>1. ASSUME NEW r \in RvReviews
          PROVE  /\ rvReplies'[r] + RvMay(RvIdle, r) + rvFaults
                      <= rvReplies[r] + RvMay(run, r) + rvFaults'
                 /\ rvReplies'[r] + RvDoes(RvIdle, r) + RvVacant(r)' + rvFaults
                      <= rvReplies[r] + RvDoes(run, r) + RvVacant(r) + rvFaults'
      BY <1>1, <2>1, <2>5
    <3>. QED BY <1>1, <2>1, <2>3, <3>1, RvRunStep
  <2>7. RvThreadsSound'
    BY <1>1, <2>1, <2>2 DEF RvInv, RvThreadsSound, RvTypeOK
  <2>. QED BY <2>3, <2>6, <2>7 DEF RvInv
<1>. QED BY <1>3, <1>4

\* A reply that is typed, a lock that ends, a failure that becomes old.
LEMMA RvOthers ==
  ASSUME RvInv, \/ \E r \in RvReviews : RvReplyByHand(r) \/ RvRetryDue(r)
                \/ RvLockExpires
  PROVE  RvInv'
<1>1. /\ rvThread \in [RvThreads -> RvThread] /\ RvHand \in RvThreads /\ RvTypeOK
      /\ RvRuns \subseteq RvThreads \ {RvHand}
      /\ rvLock # RvNoRun => rvLock \in RvRuns
      /\ \A r \in RvReviews : rvReplies[r] \in Nat /\ rvByHand[r] \in Nat
      /\ rvFaults \in Nat
  BY RvAssumption DEF RvInv, RvTypeOK, RvThread, RvThreads
<1>2. \A x, r : /\ RvMay(x, r) \in {0, 1} /\ RvVacant(r) \in {0, 1} /\ RvVacant(r)' \in {0, 1}
  BY DEF RvMay, RvVacant
<1>3. ASSUME NEW r0 \in RvReviews, RvReplyByHand(r0)
      PROVE  RvInv'
  <2> DEFINE new == [RvIdle EXCEPT !.pc = "send", !.review = r0]
  <2>1. /\ rvThread[RvHand].pc = "idle" /\ rvByHand[r0] < MaxRvByHand
        /\ rvByHand' = [rvByHand EXCEPT ![r0] = @ + 1]
        /\ rvThread' = [rvThread EXCEPT ![RvHand] = new]
        /\ UNCHANGED <<rvReplies, rvStored, rvLog, rvLock, rvFaults, rvRefusals>>
    BY <1>3 DEF RvReplyByHand
  <2>2. /\ new \in RvThread /\ new.pc = "send" /\ new.review = r0 /\ new.queue = {}
    <3>1. RvIdle \in RvThread /\ RvIdle.queue = {}
      BY RvAssumption DEF RvIdle, RvThread
    <3>. QED BY <3>1 DEF RvThread
  <2>. HIDE DEF new
  <2>3. RvTypeOK'
    <3>1. rvByHand' \in [RvReviews -> 0..MaxRvByHand]
      BY <1>1, <2>1, RvAssumption DEF RvTypeOK
    <3>. QED BY <1>1, <2>1, <2>2, <3>1 DEF RvTypeOK, RvThread
  <2>4. rvThread'[RvHand] = new /\ \A u \in RvRuns : rvThread'[u] = rvThread[u]
    BY <1>1, <2>1
  <2>5. RvThreadsSound'
    <3>1. RvRunSound(new)
      BY <2>2 DEF RvRunSound
    <3>. QED BY <1>1, <2>1, <2>2, <3>1 DEF RvInv, RvThreadsSound
  <2>6. ASSUME NEW r \in RvReviews
        PROVE  /\ RvWorkers(r)' = RvWorkers(r) /\ RvSenders(r)' = RvSenders(r)
               /\ RvVacant(r)' = RvVacant(r)
               /\ RvMay(new, r) + rvByHand[r] <= RvMay(rvThread[RvHand], r) + rvByHand'[r]
               /\ rvByHand'[r] \in Nat
    <3>1. RvOpen(r)' <=> RvOpen(r)
      BY <1>1, <2>1, <2>4 DEF RvOpen, RvWorks, RvSends, RvLists, RvReplied
    <3>2. RvWorkers(r)' = RvWorkers(r) /\ RvSenders(r)' = RvSenders(r)
      BY <2>4, Zenon DEF RvWorkers, RvSenders, RvWorks, RvSends, RvLists
    <3>3. RvMay(new, r) = IF r = r0 THEN 1 ELSE 0
      BY <2>2 DEF RvMay, RvSends
    <3>4. /\ rvByHand[r] \in Nat
          /\ rvByHand'[r] = IF r = r0 THEN rvByHand[r] + 1 ELSE rvByHand[r]
      BY <1>1, <2>1 DEF RvTypeOK
    <3>5. RvVacant(r)' = RvVacant(r)
      BY <3>1 DEF RvVacant
    <3>. QED BY <1>2, <3>2, <3>3, <3>4, <3>5
  <2>7. RvCounted'
    <3>1. SUFFICES ASSUME NEW r \in RvReviews
                   PROVE  rvReplies[r] + Cardinality(RvSenders(r)) + RvMay(new, r)
                            <= 1 + rvByHand'[r] + rvFaults
      BY <2>1, <2>4, <2>6 DEF RvCounted, RvCauses
    <3>2. rvReplies[r] + Cardinality(RvSenders(r)) + RvMay(rvThread[RvHand], r)
            <= 1 + rvByHand[r] + rvFaults
      BY DEF RvInv, RvCounted, RvCauses
    <3>. QED BY <1>1, <1>2, <2>6, <3>2, RvFinite
  <2>8. RvReserved'
    <3>1. SUFFICES ASSUME NEW r \in RvReviews, rvLog[r] # "sent"
                   PROVE  rvReplies[r] + Cardinality(RvWorkers(r)) + RvMay(new, r) + RvVacant(r)
                            <= 1 + rvByHand'[r] + rvFaults
      BY <2>1, <2>4, <2>6 DEF RvReserved, RvCauses
    <3>2. rvReplies[r] + Cardinality(RvWorkers(r)) + RvMay(rvThread[RvHand], r) + RvVacant(r)
            <= 1 + rvByHand[r] + rvFaults
      BY <3>1 DEF RvInv, RvReserved, RvCauses
    <3>. QED BY <1>1, <1>2, <2>6, <3>2, RvFinite
  <2>. QED BY <2>3, <2>5, <2>7, <2>8 DEF RvInv
<1>4. ASSUME NEW r0 \in RvReviews, RvRetryDue(r0)
      PROVE  RvInv'
  <2>1. /\ rvLog[r0] = "failed" /\ rvLog' = [rvLog EXCEPT ![r0] = "stale"]
        /\ UNCHANGED <<rvReplies, rvStored, rvThread, rvLock, rvFaults, rvRefusals, rvByHand>>
    BY <1>4 DEF RvRetryDue
  <2>2. RvTypeOK' /\ \A r \in RvReviews : rvLog'[r] # "sent" => rvLog[r] # "sent"
    BY <1>1, <2>1 DEF RvTypeOK
  <2>3. \A r : /\ RvWorkers(r)' = RvWorkers(r) /\ RvSenders(r)' = RvSenders(r)
               /\ RvVacant(r)' = RvVacant(r) /\ RvCauses(r)' = RvCauses(r)
    BY <2>1 DEF RvWorkers, RvSenders, RvVacant, RvOpen, RvCauses
  <2>4. RvThreadsSound'
    BY <2>1 DEF RvInv, RvThreadsSound
  <2>5. RvCounted'
    BY <2>1, <2>3, Zenon DEF RvInv, RvCounted
  <2>6. RvReserved'
    BY <2>1, <2>2, <2>3, Zenon DEF RvInv, RvReserved
  <2>. QED BY <2>2, <2>4, <2>5, <2>6 DEF RvInv
<1>5. CASE RvLockExpires
  <2>1. /\ rvLock \in RvRuns /\ rvLock # RvNoRun /\ rvLock' = RvNoRun
        /\ \/ rvThread[rvLock].pc = "idle" /\ rvFaults' = rvFaults
           \/ rvFaults < MaxRvFaults /\ rvFaults' = rvFaults + 1
        /\ UNCHANGED <<rvReplies, rvStored, rvLog, rvThread, rvRefusals, rvByHand>>
    BY <1>1, <1>5 DEF RvLockExpires, RvFault
  <2>2. RvTypeOK' /\ rvFaults' \in Nat
    <3>1. rvFaults' \in 0..MaxRvFaults
      BY <1>1, <2>1, RvAssumption DEF RvTypeOK
    <3>. QED BY <2>1, <3>1, RvAssumption, <1>1 DEF RvTypeOK
  <2>3. \A r : RvWorkers(r)' = RvWorkers(r) /\ RvSenders(r)' = RvSenders(r)
    BY <2>1 DEF RvWorkers, RvSenders
  <2>4. RvThreadsSound'
    BY <2>1 DEF RvInv, RvThreadsSound
  <2>5. ASSUME NEW r \in RvReviews
        PROVE  RvVacant(r)' + rvFaults <= RvVacant(r) + rvFaults'
    <3>1. CASE rvFaults' = rvFaults + 1
      BY <1>1, <1>2, <3>1
    <3>2. CASE rvThread[rvLock].pc = "idle" /\ rvFaults' = rvFaults
      <4>1. RvRunSound(rvThread[rvLock])
        BY <1>1, <2>1 DEF RvInv, RvThreadsSound
      <4>2. RvOpen(r)
        BY <3>2, <4>1 DEF RvOpen, RvWorks, RvSends, RvLists, RvReplied, RvRunSound
      <4>3. RvVacant(r) = 1
        BY <4>2 DEF RvVacant
      <4>. QED BY <1>1, <1>2, <3>2, <4>3
    <3>. QED BY <2>1, <3>1, <3>2
  <2>6. RvCounted'
    <3>1. SUFFICES ASSUME NEW r \in RvReviews
                   PROVE  rvReplies[r] + Cardinality(RvSenders(r)) + RvMay(rvThread[RvHand], r)
                            <= 1 + rvByHand[r] + rvFaults'
      BY <2>1, <2>3 DEF RvCounted, RvCauses
    <3>2. rvReplies[r] + Cardinality(RvSenders(r)) + RvMay(rvThread[RvHand], r)
            <= 1 + rvByHand[r] + rvFaults
      BY DEF RvInv, RvCounted, RvCauses
    <3>. QED BY <1>1, <1>2, <2>1, <2>2, <3>2, RvFinite
  <2>7. RvReserved'
    <3>1. SUFFICES ASSUME NEW r \in RvReviews, rvLog[r] # "sent"
                   PROVE  rvReplies[r] + Cardinality(RvWorkers(r)) + RvMay(rvThread[RvHand], r)
                            + RvVacant(r)' <= 1 + rvByHand[r] + rvFaults'
      BY <2>1, <2>3 DEF RvReserved, RvCauses
    <3>2. rvReplies[r] + Cardinality(RvWorkers(r)) + RvMay(rvThread[RvHand], r) + RvVacant(r)
            <= 1 + rvByHand[r] + rvFaults
      BY <3>1 DEF RvInv, RvReserved, RvCauses
    <3>. QED BY <1>1, <1>2, <2>2, <2>5, <3>2, RvFinite
  <2>. QED BY <2>2, <2>4, <2>6, <2>7 DEF RvInv
<1>. QED BY <1>3, <1>4, <1>5

\* RvInv holds at first.
LEMMA RvStarts ==
  ASSUME RvInit
  PROVE  RvInv
<1>1. /\ RvIdle \in RvThread /\ RvRunSound(RvIdle) /\ RvIdle.pc = "idle" /\ RvIdle.queue = {}
  BY RvAssumption DEF RvIdle, RvThread, RvRunSound
<1>2. /\ \A t \in RvThreads : rvThread[t] = RvIdle
      /\ RvHand \in RvThreads /\ RvRuns \subseteq RvThreads
      /\ rvLock = RvNoRun /\ rvFaults = 0 /\ rvRefusals = 0
      /\ \A r \in RvReviews : rvReplies[r] = 0 /\ rvByHand[r] = 0
  BY DEF RvInit, RvThreads
<1>3. RvTypeOK
  BY <1>1, RvAssumption DEF RvInit, RvTypeOK, RvThread
<1>4. RvThreadsSound
  BY <1>1, <1>2 DEF RvThreadsSound
<1>5. ASSUME NEW r \in RvReviews
      PROVE  /\ Cardinality(RvWorkers(r)) = 0 /\ Cardinality(RvSenders(r)) = 0
             /\ RvMay(rvThread[RvHand], r) = 0
  <2>1. RvWorkers(r) = {} /\ RvSenders(r) = {}
    BY <1>1, <1>2 DEF RvWorkers, RvSenders, RvWorks, RvSends, RvLists
  <2>. QED BY <1>1, <1>2, <2>1, FS_EmptySet DEF RvMay, RvSends
<1>6. \A r : RvVacant(r) \in {0, 1}
  BY DEF RvVacant
<1>. QED BY <1>2, <1>3, <1>4, <1>5, <1>6 DEF RvInv, RvCounted, RvReserved, RvCauses

\* Every step keeps it.
LEMMA RvStays ==
  ASSUME RvInv, [RvNext]_rvVars
  PROVE  RvInv'
<1>1. CASE UNCHANGED rvVars
  <2>1. RvTypeOK' /\ RvThreadsSound'
    BY <1>1 DEF rvVars, RvInv, RvTypeOK, RvThreadsSound
  <2>2. \A r : /\ RvWorkers(r)' = RvWorkers(r) /\ RvSenders(r)' = RvSenders(r)
               /\ RvVacant(r)' = RvVacant(r) /\ RvCauses(r)' = RvCauses(r)
    BY <1>1 DEF rvVars, RvWorkers, RvSenders, RvVacant, RvOpen, RvCauses
  <2>. QED BY <1>1, <2>1, <2>2 DEF rvVars, RvInv, RvCounted, RvReserved
<1>2. ASSUME NEW t \in RvRuns, RvStart(t)
      PROVE  RvInv'
  BY <1>2, RvRunsCome
<1>3. ASSUME NEW t \in RvThreads, RvStep(t) \/ RvCrash(t)
      PROVE  RvInv'
  <2>1. CASE RvEnd(t)
    <3>1. t # RvHand
      BY <2>1 DEF RvEnd, RvInv, RvThreadsSound
    <3>. QED BY <2>1, <3>1, RvRunsCome DEF RvThreads
  <2>. QED BY <1>3, <2>1, RvQuietSteps, RvAnswers DEF RvStep
<1>. QED BY <1>1, <1>2, <1>3, RvOthers DEF RvNext

\* A reply beyond the first has its cause, an answer that was lost, a worker that died or a lock
\* that ran out, one for each, or was typed (pending_auto_reviews, auto_reply, record_reply,
\* ReviewService.reply): for any number of reviews, runs at once, attempts and faults.
THEOREM RepliesHaveCauses == RvSpec => []ReviewsSound
<1>1. RvInit => RvInv
  BY RvStarts
<1>2. RvInv /\ [RvNext]_rvVars => RvInv'
  BY RvStays
<1>3. RvInv => ReviewsSound
  <2>1. SUFFICES ASSUME RvInv, NEW r \in RvReviews
                 PROVE  rvReplies[r] <= 1 + rvByHand[r] + rvFaults
    BY DEF ReviewsSound, DuplicatesHaveCauses, RvInv
  <2>2. rvReplies[r] + Cardinality(RvSenders(r)) + RvMay(rvThread[RvHand], r)
          <= 1 + rvByHand[r] + rvFaults
    BY <2>1 DEF RvInv, RvCounted, RvCauses
  <2>3. rvReplies[r] \in Nat /\ rvByHand[r] \in Nat /\ rvFaults \in Nat
    BY <2>1, RvAssumption DEF RvInv, RvTypeOK
  <2>4. RvMay(rvThread[RvHand], r) \in {0, 1}
    BY DEF RvMay
  <2>. QED BY <2>2, <2>3, <2>4, RvFinite
<1>. QED BY <1>1, <1>2, <1>3, PTL DEF RvSpec
=============================================================================
