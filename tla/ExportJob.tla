------------------------------ MODULE ExportJob ------------------------------
(***************************************************************************)
(* CSV exports: a job is a row of sys_export_jobs, the work a message of   *)
(* the broker, the result a file.  The API writes the row and queues the   *)
(* message (export_service.py, task_queue.py); a worker produces the file  *)
(* under another name and renames it (tasks/exports.py); a daily task      *)
(* removes files by their age.  None of these share a transaction.         *)
(***************************************************************************)
EXTENDS Naturals, FiniteSets

CONSTANTS
  Exports,          \* the ids of the jobs
  ExportWorkers,    \* worker processes that take export tasks
  NoExport,         \* what an idle worker works on
  MaxExportFaults   \* bound: crashes, failing inserts and queries, redeliveries

ASSUME ExportAssumption == /\ NoExport \notin Exports
                           /\ MaxExportFaults \in Nat

VARIABLES
  exportJobs,       \* the newest row of each job: its status
  exportTasks,      \* messages of each job that wait in the broker
  exportRuns,       \* what each worker is doing, and for which job
  exportFiles,      \* the file and the .part file of each job
  exportOld,        \* files older than EXPORT_RETENTION_DAYS
  exportEvents,     \* jobs whose export.completed has been emitted
  exportPruned,     \* history: jobs whose file the pruner has removed
  exportStranded,   \* history: jobs of which a save or a queueing was lost
  exportFaults      \* faults so far

exportVars == <<exportJobs, exportTasks, exportRuns, exportFiles, exportOld,
                exportEvents, exportPruned, exportStranded, exportFaults>>

ExportStatus == {"absent", "queued", "running", "done", "failed"}
ExportPlace ==
  {"idle", "loaded", "running", "writing", "written", "renamed", "saved", "failing"}
ExportFile == Exports \X {"csv", "part"}

\* held: the broker still waits for this worker's acknowledgement.
ExportIdle == [pc |-> "idle", job |-> NoExport, held |-> FALSE]

ExportTypeOK ==
  /\ exportJobs \in [Exports -> ExportStatus]
  /\ exportTasks \in [Exports -> Nat]
  /\ exportRuns \in [ExportWorkers -> [pc: ExportPlace, job: Exports \cup {NoExport},
                                      held: BOOLEAN]]
  /\ \A w \in ExportWorkers : exportRuns[w].job = NoExport <=> exportRuns[w].pc = "idle"
  /\ exportFiles \in [ExportFile -> {"none", "torn", "whole"}]
  /\ exportOld \subseteq ExportFile
  /\ exportEvents \subseteq Exports
  /\ exportPruned \subseteq Exports
  /\ exportStranded \subseteq Exports
  /\ exportFaults \in 0..MaxExportFaults

ExportInit ==
  /\ exportJobs = [e \in Exports |-> "absent"]
  /\ exportTasks = [e \in Exports |-> 0]
  /\ exportRuns = [w \in ExportWorkers |-> ExportIdle]
  /\ exportFiles = [f \in ExportFile |-> "none"]
  /\ exportOld = {}
  /\ exportEvents = {}
  /\ exportPruned = {}
  /\ exportStranded = {}
  /\ exportFaults = 0

ExportFault == /\ exportFaults < MaxExportFaults
               /\ exportFaults' = exportFaults + 1

\* Worker w goes on from one place to another.
ExportAt(w, pc) == exportRuns[w].pc = pc
ExportGoes(w, pc) == exportRuns' = [exportRuns EXCEPT ![w].pc = pc]
ExportEnds(w) == exportRuns' = [exportRuns EXCEPT ![w] = ExportIdle]
ExportSave(e, status) == exportJobs' = [exportJobs EXCEPT ![e] = status]

\* run_export works on queued and failed jobs.
ExportWanted(e) == exportJobs[e] \in {"queued", "failed"}

\* Mutant: the rows go to the target at once.
ExportPartialIsTarget(w) == <<exportRuns[w].job, "csv">>

\* The name the rows are written under.
ExportPartial(w) == <<exportRuns[w].job, "part">>

\* Mutant: a message is acknowledged when it is taken.
ExportReturnedNever(w) == FALSE

\* acks_late: the message of a dead worker returns, unless it is back already.
ExportReturned(w) == exportRuns[w].held

\* "*/*.csv*" finds both names.
ExportGlob == ExportFile

-----------------------------------------------------------------------------
(* The API: the row first, then the message. *)

CreateExport(e) ==
  /\ exportJobs[e] = "absent"
  /\ ExportSave(e, "queued")
  /\ \/ /\ exportTasks' = [exportTasks EXCEPT ![e] = @ + 1]
        /\ UNCHANGED <<exportStranded, exportFaults>>
     \/ /\ ExportFault                            \* the broker refuses
        /\ exportStranded' = exportStranded \cup {e}
        /\ UNCHANGED exportTasks
  /\ UNCHANGED <<exportRuns, exportFiles, exportOld, exportEvents, exportPruned>>

-----------------------------------------------------------------------------
(* The task. *)

\* A job that is neither queued nor failed is skipped and its message acknowledged.
StartExport(w, e) ==
  /\ ExportAt(w, "idle")
  /\ exportTasks[e] > 0
  /\ exportTasks' = [exportTasks EXCEPT ![e] = @ - 1]
  /\ IF ExportWanted(e)
       THEN exportRuns' = [exportRuns EXCEPT
                             ![w] = [pc |-> "loaded", job |-> e, held |-> TRUE]]
       ELSE UNCHANGED exportRuns
  /\ UNCHANGED <<exportJobs, exportFiles, exportOld, exportEvents, exportPruned,
                 exportStranded, exportFaults>>

SaveRunning(w) ==
  LET e == exportRuns[w].job IN
  /\ ExportAt(w, "loaded")
  /\ ExportSave(e, "running")
  /\ ExportGoes(w, "running")
  /\ UNCHANGED <<exportTasks, exportFiles, exportOld, exportEvents, exportPruned,
                 exportStranded, exportFaults>>

\* The .part file is created or truncated, and filled row by row; what is written to
\* a file that has been unlinked goes nowhere.
OpenPart(w) ==
  LET f == ExportPartial(w) IN
  /\ ExportAt(w, "running")
  /\ exportFiles' = [exportFiles EXCEPT ![f] = "torn"]
  /\ exportOld' = exportOld \ {f}
  /\ ExportGoes(w, "writing")
  /\ UNCHANGED <<exportJobs, exportTasks, exportEvents, exportPruned,
                 exportStranded, exportFaults>>

WritePart(w) ==
  LET f == ExportPartial(w) IN
  /\ ExportAt(w, "writing")
  /\ exportFiles' = [exportFiles EXCEPT ![f] = IF @ = "none" THEN @ ELSE "whole"]
  /\ exportOld' = exportOld \ {f}
  /\ ExportGoes(w, "written")
  /\ UNCHANGED <<exportJobs, exportTasks, exportEvents, exportPruned,
                 exportStranded, exportFaults>>

\* partial.replace(target) fails when the .part file is gone.
RenamePart(w) ==
  LET e == exportRuns[w].job
      f == ExportPartial(w) IN
  /\ ExportAt(w, "written")
  /\ IF exportFiles[f] = "none"
       THEN /\ ExportGoes(w, "failing")
            /\ UNCHANGED <<exportFiles, exportOld>>
       ELSE /\ exportFiles' = [exportFiles EXCEPT ![f] = "none", ![<<e, "csv">>] = exportFiles[f]]
            /\ exportOld' = exportOld \ {<<e, "csv">>, f}
            /\ ExportGoes(w, "renamed")
  /\ UNCHANGED <<exportJobs, exportTasks, exportEvents, exportPruned, exportStranded,
                 exportFaults>>

SaveDone(w) ==
  /\ ExportAt(w, "renamed")
  /\ ExportSave(exportRuns[w].job, "done")
  /\ ExportGoes(w, "saved")
  /\ UNCHANGED <<exportTasks, exportFiles, exportOld, exportEvents, exportPruned,
                 exportStranded, exportFaults>>

\* emit_event swallows what the broker answers: the event may be lost.
EmitCompleted(w) ==
  LET e == exportRuns[w].job IN
  /\ ExportAt(w, "saved")
  /\ \/ exportEvents' = exportEvents \cup {e} /\ UNCHANGED exportFaults
     \/ ExportFault /\ UNCHANGED exportEvents
  /\ ExportEnds(w)
  /\ UNCHANGED <<exportJobs, exportTasks, exportFiles, exportOld, exportPruned,
                 exportStranded>>

\* The handler: remove the .part file, save failed, raise.
SaveFailed(w) ==
  LET e == exportRuns[w].job IN
  /\ ExportAt(w, "failing")
  /\ exportFiles' = [exportFiles EXCEPT ![ExportPartial(w)] = "none"]
  /\ exportOld' = exportOld \ {ExportPartial(w)}
  /\ \/ ExportSave(e, "failed") /\ UNCHANGED <<exportStranded, exportFaults>>
     \/ /\ ExportFault
        /\ exportStranded' = exportStranded \cup {e}
        /\ UNCHANGED exportJobs
  /\ ExportEnds(w)
  /\ UNCHANGED <<exportTasks, exportEvents, exportPruned>>

\* The query, the disk or the insert of done fails inside the try.
ExportFails(w) ==
  /\ exportRuns[w].pc \in {"running", "writing", "written", "renamed"}
  /\ ExportFault
  /\ ExportGoes(w, "failing")
  /\ UNCHANGED <<exportJobs, exportTasks, exportFiles, exportOld, exportEvents,
                 exportPruned, exportStranded>>

\* The insert of running is outside the try: the task ends, its message with it.
SaveRunningFails(w) ==
  /\ ExportAt(w, "loaded")
  /\ ExportFault
  /\ exportStranded' = exportStranded \cup {exportRuns[w].job}
  /\ ExportEnds(w)
  /\ UNCHANGED <<exportJobs, exportTasks, exportFiles, exportOld, exportEvents, exportPruned>>

\* The worker dies.
ExportCrash(w) ==
  LET e == exportRuns[w].job IN
  /\ ~ExportAt(w, "idle")
  /\ ExportFault
  /\ exportTasks' = IF ExportReturned(w) THEN [exportTasks EXCEPT ![e] = @ + 1]
                                             ELSE exportTasks
  /\ exportStranded' = IF exportRuns[w].pc \in {"loaded", "saved"}
                         THEN exportStranded ELSE exportStranded \cup {e}
  /\ ExportEnds(w)
  /\ UNCHANGED <<exportJobs, exportFiles, exportOld, exportEvents, exportPruned>>

\* A task that is not acknowledged within VISIBILITY_TIMEOUT_SECONDS is delivered again,
\* once: the message is no longer this worker's.
ExportRedelivered(w) ==
  LET e == exportRuns[w].job IN
  /\ exportRuns[w].pc \notin {"idle", "loaded"}
  /\ exportRuns[w].held
  /\ ExportFault
  /\ exportTasks' = [exportTasks EXCEPT ![e] = @ + 1]
  /\ exportRuns' = [exportRuns EXCEPT ![w].held = FALSE]
  /\ UNCHANGED <<exportJobs, exportFiles, exportOld, exportEvents, exportPruned,
                 exportStranded>>

-----------------------------------------------------------------------------
(* Time and the pruner. *)

ExportAges(f) ==
  /\ exportFiles[f] # "none"
  /\ f \notin exportOld
  /\ exportOld' = exportOld \cup {f}
  /\ UNCHANGED <<exportJobs, exportTasks, exportRuns, exportFiles, exportEvents,
                 exportPruned, exportStranded, exportFaults>>

\* prune_exports
PruneExport(f) ==
  /\ f \in exportOld \cap ExportGlob
  /\ exportFiles' = [exportFiles EXCEPT ![f] = "none"]
  /\ exportOld' = exportOld \ {f}
  /\ exportPruned' = IF f[2] = "csv" THEN exportPruned \cup {f[1]} ELSE exportPruned
  /\ UNCHANGED <<exportJobs, exportTasks, exportRuns, exportEvents, exportStranded,
                 exportFaults>>

-----------------------------------------------------------------------------
ExportStep(w) ==
  \/ \E e \in Exports : StartExport(w, e)
  \/ SaveRunning(w) \/ OpenPart(w) \/ WritePart(w) \/ RenamePart(w)
  \/ SaveDone(w) \/ EmitCompleted(w) \/ SaveFailed(w)

ExportMishap(w) ==
  ExportFails(w) \/ SaveRunningFails(w) \/ ExportCrash(w) \/ ExportRedelivered(w)

ExportNext ==
  \/ \E e \in Exports : CreateExport(e)
  \/ \E w \in ExportWorkers : ExportStep(w) \/ ExportMishap(w)
  \/ \E f \in ExportFile : ExportAges(f) \/ PruneExport(f)

ExportSpec == ExportInit /\ [][ExportNext]_exportVars

-----------------------------------------------------------------------------
(* Properties. *)

\* What file_for hands out is the whole result: a job that is done has its file until the
\* pruner has taken it, and no crash, failure or leftover puts a torn file under its name.
DoneHasFile ==
  \A e \in Exports :
    /\ exportFiles[<<e, "csv">>] # "torn"
    /\ exportJobs[e] = "done" /\ e \notin exportPruned => exportFiles[<<e, "csv">>] = "whole"

\* However often a message comes back, one worker at most is between running and the end
\* of a job: all of them would write the same .part file.
SoleWriter ==
  \A v, w \in ExportWorkers :
    /\ exportRuns[v].job = exportRuns[w].job
    /\ {exportRuns[v].pc, exportRuns[w].pc} \subseteq ExportPlace \ {"idle", "loaded"}
    => v = w \/ "saved" \in {exportRuns[v].pc, exportRuns[w].pc}

\* A job that is done stays done: a redelivery neither runs nor fails it again.
DoneIsFinal ==
  [][\A e \in Exports : exportJobs[e] = "done" => exportJobs'[e] = "done"]_exportVars

\* A queued job ends as done or failed, also when a worker dies before it has started it,
\* unless a save or the queueing failed or the worker died in the middle.
ExportEndsAtLast ==
  \A e \in Exports :
    exportJobs[e] = "queued" ~> exportJobs[e] \in {"done", "failed"} \/ e \in exportStranded

\* What a dead worker leaves behind under the .part name does not stay.
PartsVanish ==
  \A e \in Exports : exportFiles[<<e, "part">>] # "none" ~> exportFiles[<<e, "part">>] = "none"

\* The files are what the jobs say of them: the safety of the exports in one formula.
ExportsSound == ExportTypeOK /\ DoneHasFile /\ SoleWriter

\* Jobs and files come to an end, and what has ended stays so.
ExportsSettle == DoneIsFinal /\ ExportEndsAtLast /\ PartsVanish
=============================================================================
