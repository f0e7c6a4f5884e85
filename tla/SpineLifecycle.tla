--------------------------- MODULE SpineLifecycle ---------------------------
(***************************************************************************)
(* The life of spine processes over one data root, and of the launchers    *)
(* that start them: the instance lock, the discovery file runtime.json,    *)
(* the listening socket, the audit log's start and stop lines, a kill at   *)
(* any moment.                                                             *)
(*                                                                         *)
(* A run is one start of a spine process; it has a port and a token of its *)
(* own and is used once.  The lock is an operating-system lock: it goes    *)
(* with its holder.  Files stay.                                           *)
(***************************************************************************)
EXTENDS Naturals, Sequences

CONSTANTS
  Runs,       \* the starts of a spine over the data root
  Launchers,  \* the starts of scripts/dev.py
  NoRun

ASSUME LifecycleAssumption == NoRun \notin Runs

VARIABLES
  phase,      \* where each run is
  lock,       \* the run that holds spine.lock
  tmp,        \* the run that wrote runtime.json.tmp
  discovery,  \* the run runtime.json names
  audit,      \* the start and stop lines of the audit log
  launcher,   \* what each launcher is at, started and has read
  delisted    \* history: living runs whose discovery file a launcher deleted

vars == <<phase, lock, tmp, discovery, audit, launcher, delisted>>

(***************************************************************************)
(* The phases of a run, in the order of run() and serve().                 *)
(***************************************************************************)
Holding == {"locked", "bound", "written", "listed", "serving", "draining",
            "stopped", "unlisted"}
Listed == {"listed", "serving", "draining", "stopped"}
Alive == {"checking"} \cup Holding
Phases == {"none", "dead"} \cup Alive

(* The steps of a launcher.  It is "gone" when its finally clause has run  *)
(* to the end, and "lost" when it has ended in any other way.              *)
Steps == {"idle", "begun", "waiting", "ready", "closing", "terminating",
          "gone", "lost"}

(* A launcher's child is the spine it has started itself.  It has none     *)
(* when it started `uv run`: the spine is then a process of uv's, and all  *)
(* the launcher sees and kills is uv.                                      *)
At(step, child) == [step |-> step, child |-> child, seen |-> NoRun]

Init ==
  /\ phase = [r \in Runs |-> "none"]
  /\ lock = NoRun /\ tmp = NoRun /\ discovery = NoRun
  /\ audit = << >>
  /\ launcher = [l \in Launchers |-> At("idle", NoRun)]
  /\ delisted = {}

Moves(r, from, to) == phase[r] = from /\ phase' = [phase EXCEPT ![r] = to]

\* The files and the log, for the actions that leave them alone.
Disk == <<tmp, discovery, audit>>
Others == <<launcher, delisted>>

(***************************************************************************)
(* A run.                                                                  *)
(***************************************************************************)

(* The user starts a spine of his own, or uv one for a launcher.           *)
Start(r) ==
  /\ Moves(r, "none", "checking")
  /\ UNCHANGED <<lock, Disk, Others>>

(* build_context refuses: layout, catalog or word data.                    *)
RefuseStart(r) ==
  /\ Moves(r, "checking", "dead")
  /\ UNCHANGED <<lock, Disk, Others>>

(* Mutant: a start does not ask whether the lock is held.                  *)
Acquire_Shared(r) ==
  /\ Moves(r, "checking", "locked") /\ lock' = r
  /\ UNCHANGED <<Disk, Others>>

(* Mutant: a start waits for the lock.                                     *)
Acquire_Waits(r) ==
  /\ Moves(r, "checking", "locked") /\ lock = NoRun /\ lock' = r
  /\ UNCHANGED <<Disk, Others>>

(* The lock is taken without waiting; whoever does not get it refuses.     *)
Acquire(r) ==
  /\ IF lock = NoRun
     THEN Moves(r, "checking", "locked") /\ lock' = r
     ELSE Moves(r, "checking", "dead") /\ UNCHANGED lock
  /\ UNCHANGED <<Disk, Others>>

Bind(r) ==
  /\ Moves(r, "locked", "bound")
  /\ UNCHANGED <<lock, Disk, Others>>

(* write_discovery: the temporary file ...                                 *)
WriteTmp(r) ==
  /\ Moves(r, "bound", "written") /\ tmp' = r
  /\ UNCHANGED <<lock, discovery, audit, Others>>

(* ... takes the place of the old runtime.json.                            *)
Publish(r) ==
  /\ Moves(r, "written", "listed")
  /\ tmp # NoRun /\ discovery' = tmp /\ tmp' = NoRun
  /\ UNCHANGED <<lock, audit, Others>>

(* An append to the audit log; a broken log swallows the line.             *)
Logs(kind, r) == audit' = Append(audit, <<kind, r>>) \/ audit' = audit

(* uvicorn enters the lifespan and accepts.                                *)
Accept(r) ==
  /\ Moves(r, "listed", "serving") /\ Logs("start", r)
  /\ UNCHANGED <<lock, tmp, discovery, Others>>

(* Mutant: a stopping spine makes room at once.                            *)
Drain_Releases(r) ==
  /\ Moves(r, "serving", "draining") /\ lock' = NoRun
  /\ UNCHANGED <<Disk, Others>>

(* A signal or Ctrl-C while serving: the socket closes first ...           *)
Drain(r) ==
  /\ Moves(r, "serving", "draining")
  /\ UNCHANGED <<lock, Disk, Others>>

(* ... then the lifespan ends.                                             *)
EndLifespan(r) ==
  /\ Moves(r, "draining", "stopped") /\ Logs("stop", r)
  /\ UNCHANGED <<lock, tmp, discovery, Others>>

(* Mutant: the lock is released before the discovery file is removed.      *)
Unlist_AfterRelease(r) ==
  \/ /\ phase[r] = "stopped" /\ lock = r /\ lock' = NoRun
     /\ UNCHANGED <<phase, Disk, Others>>
  \/ /\ Moves(r, "stopped", "dead") /\ lock # r /\ discovery' = NoRun
     /\ UNCHANGED <<lock, tmp, audit, Others>>

(* remove_discovery unlinks the path, whoever wrote it; where the file is  *)
(* held open the removal raises and the file stays.                        *)
Unlist(r) ==
  /\ Moves(r, "stopped", "unlisted")
  /\ discovery' \in {NoRun, discovery}
  /\ UNCHANGED <<lock, tmp, audit, Others>>

Release(r) ==
  /\ Moves(r, "unlisted", "dead") /\ lock' = NoRun
  /\ UNCHANGED <<Disk, Others>>

(* An exception or Ctrl-C: before serve() has the file published the lock  *)
(* is released, and a file published just then stays; inside serve() the   *)
(* file is removed first.  The lifespan's end is skipped.                  *)
Unwind(r) ==
  /\ \/ \E from \in {"locked", "bound", "written", "listed"} : Moves(r, from, "unlisted")
     \/ \E from \in {"listed", "serving", "draining"} : Moves(r, from, "stopped")
  /\ UNCHANGED <<lock, Disk, Others>>

(* The process is killed: the system closes its socket and frees its lock. *)
(* So ends, too, a run that uvicorn hands its termination signal back to.  *)
Crash(r) ==
  /\ phase[r] \in Alive
  /\ phase' = [phase EXCEPT ![r] = "dead"]
  /\ lock' = IF lock = r THEN NoRun ELSE lock
  /\ UNCHANGED <<Disk, Others>>

(***************************************************************************)
(* A launcher (scripts/dev.py).                                            *)
(***************************************************************************)
(* What was read matters in the wait only.                                 *)
Goes(l, from, to) ==
  /\ launcher[l].step = from
  /\ launcher' = [launcher EXCEPT ![l] = At(to, @.child)]

(* The discovery file of whatever run is deleted.                          *)
Begin(l) ==
  /\ Goes(l, "idle", "begun")
  /\ discovery' = NoRun
  /\ delisted' = delisted \cup {r \in Runs : discovery = r /\ phase[r] # "dead"}
  /\ UNCHANGED <<phase, lock, tmp, audit>>

(* Popen, where the repository has a .venv: the process is the spine ...   *)
SpawnPython(l, r) ==
  /\ launcher[l].step = "begun"
  /\ Moves(r, "none", "checking")
  /\ launcher' = [launcher EXCEPT ![l] = At("waiting", r)]
  /\ UNCHANGED <<lock, Disk, delisted>>

(* ... and where it has none, it is uv, which starts a run as a user does. *)
SpawnUv(l) ==
  /\ Goes(l, "begun", "waiting")
  /\ UNCHANGED <<phase, lock, Disk, delisted>>

(* process.poll(): uv may have ended at any moment, with its spine or      *)
(* before it.                                                              *)
UnderUv(l) == launcher[l].child = NoRun
ChildDead(l) == \E r \in Runs : launcher[l].child = r /\ phase[r] = "dead"
MayHaveEnded(l) == UnderUv(l) \/ ChildDead(l)

(* The health request is answered by the run the payload names, to the     *)
(* token the payload carries.                                              *)
Healthy(r) == r # NoRun /\ phase[r] = "serving"

(* One turn of the wait loop: the file is read ...                         *)
ReadDiscovery(l) ==
  /\ launcher[l].step = "waiting" /\ discovery # NoRun
  /\ launcher[l].seen # discovery
  /\ launcher' = [launcher EXCEPT ![l].seen = discovery]
  /\ UNCHANGED <<phase, lock, Disk, delisted>>

(* ... and its run asked for its health.                                   *)
BecomeReady(l) ==
  /\ Goes(l, "waiting", "ready") /\ Healthy(launcher[l].seen)
  /\ UNCHANGED <<phase, lock, Disk, delisted>>

(* Mutant: the wait has no deadline.                                       *)
GiveUp_OnlyDead(l) ==
  /\ Goes(l, "waiting", "closing") /\ MayHaveEnded(l)
  /\ UNCHANGED <<phase, lock, Disk, delisted>>

(* The process has ended, the deadline has passed, or Ctrl-C.              *)
GiveUp(l) ==
  /\ Goes(l, "waiting", "closing")
  /\ UNCHANGED <<phase, lock, Disk, delisted>>

(* The front end has exited, or the process has, or Ctrl-C.                *)
Close(l) ==
  /\ Goes(l, "ready", "closing")
  /\ UNCHANGED <<phase, lock, Disk, delisted>>

(* terminate(spine): a signal, unless the process has ended.  What it does *)
(* to a spine is the run's: Drain where it serves, Crash where it does not *)
(* yet.  uv may or may not hand it on.                                     *)
Terminate(l) ==
  /\ \/ Goes(l, "closing", "gone") /\ MayHaveEnded(l)
     \/ Goes(l, "closing", "terminating") /\ ~ChildDead(l)
  /\ UNCHANGED <<phase, lock, Disk, delisted>>

(* Mutant: the launcher does not wait for the process it has signalled.    *)
Reap_Unawaited(l) ==
  /\ Goes(l, "terminating", "gone")
  /\ UNCHANGED <<phase, lock, Disk, delisted>>

(* process.wait returns.                                                   *)
Reap(l) ==
  /\ Goes(l, "terminating", "gone") /\ MayHaveEnded(l)
  /\ UNCHANGED <<phase, lock, Disk, delisted>>

(* It does not within its time: the process is killed, and a spine under   *)
(* uv lives on.                                                            *)
KillChild(l) ==
  /\ launcher[l].step = "terminating"
  /\ \/ \E r \in Runs : launcher[l].child = r /\ Crash(r)
     \/ /\ UnderUv(l) /\ Goes(l, "terminating", "gone")
        /\ UNCHANGED <<phase, lock, Disk, delisted>>

Lost(l) ==
  /\ launcher' = [launcher EXCEPT ![l] = At("lost", NoRun)]
  /\ UNCHANGED <<phase, lock, Disk, delisted>>

(* An exception or Ctrl-C where nothing catches it: no command to run,     *)
(* between Popen and the try (before the first look at the file), or       *)
(* inside the finally clause.                                              *)
Escape(l) ==
  /\ \/ launcher[l].step \in {"begun", "closing", "terminating"}
     \/ launcher[l].step = "waiting" /\ launcher[l].seen = NoRun
  /\ Lost(l)

(* The launcher is killed: its finally clause does not run.                *)
KillLauncher(l) ==
  /\ launcher[l].step \in Steps \ {"idle", "gone", "lost"}
  /\ Lost(l)

-----------------------------------------------------------------------------

(* What a run does unless it is killed or fails.                           *)
Advance(r) ==
  Acquire(r) \/ Bind(r) \/ WriteTmp(r) \/ Publish(r) \/ Accept(r)
  \/ EndLifespan(r) \/ Unlist(r) \/ Release(r)

RunStep(r) ==
  Start(r) \/ RefuseStart(r) \/ Advance(r) \/ Drain(r) \/ Unwind(r) \/ Crash(r)

(* What a launcher does unless it is killed.                               *)
Poll(l) ==
  ReadDiscovery(l) \/ BecomeReady(l) \/ GiveUp(l) \/ Terminate(l) \/ Reap(l)
  \/ KillChild(l)

LauncherStep(l) ==
  \/ Begin(l) \/ (\E r \in Runs : SpawnPython(l, r)) \/ SpawnUv(l) \/ Poll(l)
  \/ Close(l) \/ Escape(l) \/ KillLauncher(l)

Next ==
  \/ \E r \in Runs : RunStep(r)
  \/ \E l \in Launchers : LauncherStep(l)

Spec == Init /\ [][Next]_vars

(* Processes get on with what they do; nobody has to start or kill one.    *)
FairSpec ==
  /\ Spec
  /\ \A r \in Runs : WF_vars(Advance(r))
  /\ \A l \in Launchers : WF_vars(Poll(l))

(***************************************************************************)
(* Properties.                                                             *)
(***************************************************************************)
TypeOK ==
  /\ phase \in [Runs -> Phases]
  /\ lock \in Runs \cup {NoRun} /\ tmp \in Runs \cup {NoRun}
  /\ discovery \in Runs \cup {NoRun}
  /\ delisted \subseteq Runs
  /\ audit \in Seq({"start", "stop"} \X Runs)
  /\ launcher \in [Launchers -> [step : Steps, child : Runs \cup {NoRun},
                                 seen : Runs \cup {NoRun}]]

(* At most one spine is past the lock, whatever was killed before it: only *)
(* one can write records, and a killed one never keeps the next from       *)
(* starting.                                                               *)
OneSpine == \A r \in Runs : phase[r] \in Holding <=> lock = r

(* A spine that serves is the one runtime.json names, unless a launcher    *)
(* has deleted its file: no other run, starting, stopping or dying, takes  *)
(* the file from it; and the file never names a run whose socket does not  *)
(* listen yet.                                                             *)
DiscoveryTrue ==
  /\ \A r \in Runs : phase[r] \in Listed => discovery = r \/ r \in delisted
  /\ discovery # NoRun => phase[discovery] \notin {"none", "checking", "locked"}

(* The audit log tells one run's life at a time: a stop line follows the   *)
(* start line of its own run with no other's line between, lines lost or   *)
(* not.                                                                    *)
AuditSerial ==
  \A i, j \in 1 .. Len(audit) :
    /\ audit[i][2] = audit[j][2] /\ i < j
    => j = i + 1 /\ audit[i][1] = "start" /\ audit[j][1] = "stop"

(* A launcher whose finally clause has run to its end leaves no spine of   *)
(* its own behind: the process it waited for is the spine, and is dead.    *)
(* Nothing is said of a spine under uv, nor of a launcher that is lost: by *)
(* a kill, or by an interrupt or an exception before its try or inside its *)
(* finally clause.                                                         *)
NoOrphan ==
  \A l \in Launchers :
    launcher[l].step = "gone" /\ ~UnderUv(l) => ChildDead(l)

(* A start ends: the spine serves, or it is refused, at once while another *)
(* one serves.                                                             *)
StartEnds ==
  \A r \in Runs : phase[r] = "checking" ~> phase[r] \in {"serving", "dead"}

(* A wait for a spine ends, also when another launcher deletes the file    *)
(* the child has written, and a launcher that closes ends.                 *)
WaitEnds ==
  \A l \in Launchers :
    launcher[l].step \in {"waiting", "closing", "terminating"}
      ~> launcher[l].step \in {"ready", "gone", "lost"}

(* The documented use of the discovery file: a shell or a front end finds  *)
(* the spine that serves by reading it.                                    *)
SpineIsFound == \A r \in Runs : phase[r] = "serving" => discovery = r

=============================================================================
