------------------------ MODULE SpineLifecycleProofs ------------------------
(***************************************************************************)
(* Theorems about the spine's life, for any number of starts and launchers. *)
(***************************************************************************)
EXTENDS SpineLifecycle, TLAPS

(* The temporary file is that of the run about to publish it.              *)
TmpIsOwn == \A r \in Runs : phase[r] = "written" => tmp = r

(* The child of a launcher is a run that was started.                      *)
HasChild ==
  \A l \in Launchers :
    ~UnderUv(l) => launcher[l].child \in Runs /\ phase[launcher[l].child] # "none"

(* A line of a run that has not ended its lifespan is its start line, and  *)
(* the last line; before it accepts it has none.                           *)
LogsInLife ==
  \A i \in 1 .. Len(audit) :
    LET r == audit[i][2]
    IN  /\ phase[r] \notin {"none", "checking", "locked", "bound", "written", "listed"}
        /\ phase[r] \in {"serving", "draining"} => i = Len(audit) /\ audit[i][1] = "start"

(* The inductive invariant.                                                *)
LifeInv ==
  /\ TypeOK /\ OneSpine /\ TmpIsOwn /\ DiscoveryTrue
  /\ HasChild /\ NoOrphan /\ LogsInLife /\ AuditSerial

-----------------------------------------------------------------------------

(* A log that grows by a line of its kind, or does not, stays a log.       *)
LEMMA AppendTyped ==
  ASSUME NEW Lines, NEW log \in Seq(Lines)
  PROVE  \A line \in Lines : Append(log, line) \in Seq(Lines)
OBVIOUS

LEMMA LifeInvInit == Init => LifeInv
BY LifecycleAssumption
DEF Init, LifeInv, TypeOK, OneSpine, TmpIsOwn, DiscoveryTrue, HasChild, NoOrphan,
    LogsInLife, AuditSerial, Phases, Alive, Holding, Listed, Steps, At, UnderUv,
    ChildDead

(* What holds of the launchers' children survives every step of a run that *)
(* does not revive the dead.                                               *)
LEMMA ChildrenKeep ==
  ASSUME HasChild, NoOrphan, UNCHANGED launcher,
         \A r \in Runs : /\ phase[r] # "none" => phase'[r] # "none"
                         /\ phase[r] = "dead" => phase'[r] = "dead"
  PROVE  HasChild' /\ NoOrphan'
BY DEF HasChild, NoOrphan, UnderUv, ChildDead

(* The log's order survives every step that appends nothing and brings no  *)
(* run back to before or into its lifespan.                                *)
LEMMA LogKeeps ==
  ASSUME TypeOK, LogsInLife, AuditSerial, UNCHANGED audit,
         \A r \in Runs :
           /\ phase'[r] \in {"none", "checking", "locked", "bound", "written", "listed"}
                => phase[r] \in {"none", "checking", "locked", "bound", "written", "listed"}
           /\ phase'[r] \in {"serving", "draining"} => phase[r] \in {"serving", "draining"}
  PROVE  LogsInLife' /\ AuditSerial'
<1>1. \A i \in 1 .. Len(audit) : audit[i][2] \in Runs
  BY DEF TypeOK
<1>. QED
  BY <1>1 DEF LogsInLife, AuditSerial

(* An ordinary step of a run: it moves along, and lock and files follow.   *)
LEMMA RunKeeps ==
  ASSUME LifeInv, NEW r \in Runs, RunStep(r),
         ~Accept(r), ~EndLifespan(r)
  PROVE  LifeInv'
<1>. USE DEF LifeInv
<1>1. /\ UNCHANGED <<audit, launcher, delisted>>
      /\ \E to \in Phases : phase' = [phase EXCEPT ![r] = to]
      /\ phase \in [Runs -> Phases]
  BY DEF RunStep, Advance, Start, RefuseStart, Acquire, Bind, WriteTmp, Publish, Unlist,
         Release, Drain, Unwind, Crash, Moves, Disk, Others, Phases, Alive, Holding, TypeOK
<1>2. TypeOK'
  BY <1>1, LifecycleAssumption
  DEF TypeOK, RunStep, Advance, Start, RefuseStart, Acquire, Bind, WriteTmp, Publish, Unlist,
      Release, Drain, Unwind, Crash, Moves, Disk, Others
<1>3. OneSpine'
  BY <1>1, LifecycleAssumption
  DEF TypeOK, OneSpine, RunStep, Advance, Start, RefuseStart, Acquire, Bind, WriteTmp, Publish,
      Unlist, Release, Drain, Unwind, Crash, Moves, Disk, Others, Holding, Alive
<1>4. TmpIsOwn'
  BY <1>1, LifecycleAssumption
  DEF TypeOK, OneSpine, TmpIsOwn, RunStep, Advance, Start, RefuseStart, Acquire, Bind, WriteTmp,
      Publish, Unlist, Release, Drain, Unwind, Crash, Moves, Disk, Others, Holding, Alive
<1>5. DiscoveryTrue'
  BY <1>1, LifecycleAssumption
  DEF TypeOK, OneSpine, TmpIsOwn, DiscoveryTrue, RunStep, Advance, Start, RefuseStart, Acquire,
      Bind, WriteTmp, Publish, Unlist, Release, Drain, Unwind, Crash, Moves, Disk, Others,
      Holding, Alive, Listed
<1>6. HasChild' /\ NoOrphan'
  <2>1. \A q \in Runs : /\ phase[q] # "none" => phase'[q] # "none"
                        /\ phase[q] = "dead" => phase'[q] = "dead"
    BY <1>1 DEF RunStep, Advance, Start, RefuseStart, Acquire, Bind, WriteTmp, Publish, Unlist,
         Release, Drain, Unwind, Crash, Moves, Alive, Holding
  <2>. QED
    BY <1>1, <2>1, ChildrenKeep
<1>7. LogsInLife' /\ AuditSerial'
  <2>1. \A q \in Runs :
          /\ phase'[q] \in {"none", "checking", "locked", "bound", "written", "listed"}
               => phase[q] \in {"none", "checking", "locked", "bound", "written", "listed"}
          /\ phase'[q] \in {"serving", "draining"} => phase[q] \in {"serving", "draining"}
    BY <1>1 DEF RunStep, Advance, Start, RefuseStart, Acquire, Bind, WriteTmp, Publish, Unlist,
         Release, Drain, Unwind, Crash, Moves, Alive, Holding
  <2>. QED
    BY <1>1, <2>1, LogKeeps
<1>. QED
  BY <1>2, <1>3, <1>4, <1>5, <1>6, <1>7

(* The steps that append a line: nobody but the lock's holder is in its    *)
(* lifespan.                                                               *)
LEMMA LineKeeps ==
  ASSUME LifeInv, NEW r \in Runs, Accept(r) \/ EndLifespan(r)
  PROVE  LifeInv'
<1>. USE DEF LifeInv
<1>1. /\ UNCHANGED <<lock, tmp, discovery, launcher, delisted>>
      /\ phase \in [Runs -> Phases] /\ lock = r /\ phase[r] \in {"listed", "draining"}
      /\ phase' = [phase EXCEPT ![r] = IF phase[r] = "listed" THEN "serving" ELSE "stopped"]
      /\ Logs(IF phase[r] = "listed" THEN "start" ELSE "stop", r)
  BY DEF Accept, EndLifespan, Moves, Others, TypeOK, OneSpine, Holding
<1>2. \A q \in Runs \ {r} : phase'[q] = phase[q] /\ phase[q] \notin Holding
  BY <1>1 DEF OneSpine
<1>3. TypeOK'
  <2>1. phase' \in [Runs -> Phases]
    BY <1>1 DEF Phases, Alive, Holding
  <2>2. audit' \in Seq({"start", "stop"} \X Runs)
    <3>1. \A k \in {"start", "stop"} : <<k, r>> \in {"start", "stop"} \X Runs
      OBVIOUS
    <3>2. \E k \in {"start", "stop"} : audit' = Append(audit, <<k, r>>) \/ audit' = audit
      BY <1>1 DEF Logs
    <3>3. audit \in Seq({"start", "stop"} \X Runs)
      BY DEF TypeOK
    <3>4. \A line \in {"start", "stop"} \X Runs :
            Append(audit, line) \in Seq({"start", "stop"} \X Runs)
      BY <3>3, AppendTyped
    <3>. QED
      BY <3>1, <3>2, <3>3, <3>4
  <2>. QED
    BY <1>1, <2>1, <2>2 DEF TypeOK
<1>4. OneSpine' /\ TmpIsOwn' /\ DiscoveryTrue'
  BY <1>1, <1>2 DEF OneSpine, TmpIsOwn, DiscoveryTrue, Holding, Listed
<1>5. HasChild' /\ NoOrphan'
  BY <1>1, ChildrenKeep
<1>6. /\ audit \in Seq({"start", "stop"} \X Runs)
      /\ \A i \in 1 .. Len(audit) : audit[i][2] \in Runs
  BY DEF TypeOK
<1>7. CASE audit' = audit
  <2>1. \A i \in 1 .. Len(audit) : audit[i][2] = r => phase[r] = "draining"
    BY <1>1 DEF LogsInLife
  <2>2. LogsInLife'
    BY <1>1, <1>2, <1>6, <1>7, <2>1 DEF LogsInLife, Holding
  <2>3. AuditSerial'
    BY <1>7 DEF AuditSerial
  <2>. QED
    BY <1>3, <1>4, <1>5, <2>2, <2>3
<1>8. CASE phase[r] = "listed" /\ audit' = Append(audit, <<"start", r>>)
  <2>1. \A i \in 1 .. Len(audit) : audit[i][2] # r
    BY <1>8 DEF LogsInLife
  <2>2. /\ Len(audit') = Len(audit) + 1 /\ audit'[Len(audit')] = <<"start", r>>
        /\ \A i \in 1 .. Len(audit) : audit'[i] = audit[i]
    BY <1>6, <1>8
  <2>3. Len(audit) \in Nat
    BY <1>6
  <2>4. LogsInLife'
    <3>. SUFFICES ASSUME NEW i \in 1 .. Len(audit')
                  PROVE  /\ phase'[audit'[i][2]] \notin {"none", "checking", "locked", "bound",
                                                         "written", "listed"}
                         /\ phase'[audit'[i][2]] \in {"serving", "draining"} =>
                              i = Len(audit') /\ audit'[i][1] = "start"
      BY DEF LogsInLife
    <3>1. CASE i = Len(audit')
      BY <1>1, <1>8, <2>2, <3>1
    <3>2. CASE i \in 1 .. Len(audit)
      BY <1>2, <1>6, <2>1, <2>2, <3>2 DEF LogsInLife, Holding
    <3>. QED
      BY <2>2, <2>3, <3>1, <3>2
  <2>5. AuditSerial'
    <3>. SUFFICES ASSUME NEW i \in 1 .. Len(audit'), NEW j \in 1 .. Len(audit'),
                         audit'[i][2] = audit'[j][2], i < j
                  PROVE  j = i + 1 /\ audit'[i][1] = "start" /\ audit'[j][1] = "stop"
      BY DEF AuditSerial
    <3>1. i \in 1 .. Len(audit) /\ audit'[i] = audit[i] /\ audit[i][2] # r
      BY <2>1, <2>2, <2>3
    <3>2. j # Len(audit')
      BY <2>2, <3>1
    <3>3. j \in 1 .. Len(audit) /\ audit'[j] = audit[j]
      BY <2>2, <2>3, <3>2
    <3>. QED
      BY <3>1, <3>3 DEF AuditSerial
  <2>. QED
    BY <1>3, <1>4, <1>5, <2>4, <2>5
<1>9. CASE phase[r] = "draining" /\ audit' = Append(audit, <<"stop", r>>)
  <2>1. \A i \in 1 .. Len(audit) :
          audit[i][2] = r => i = Len(audit) /\ audit[i][1] = "start"
    BY <1>9 DEF LogsInLife
  <2>2. /\ Len(audit') = Len(audit) + 1 /\ audit'[Len(audit')] = <<"stop", r>>
        /\ \A i \in 1 .. Len(audit) : audit'[i] = audit[i]
    BY <1>6, <1>9
  <2>3. Len(audit) \in Nat
    BY <1>6
  <2>4. LogsInLife'
    <3>. SUFFICES ASSUME NEW i \in 1 .. Len(audit')
                  PROVE  /\ phase'[audit'[i][2]] \notin {"none", "checking", "locked", "bound",
                                                         "written", "listed"}
                         /\ phase'[audit'[i][2]] \in {"serving", "draining"} =>
                              i = Len(audit') /\ audit'[i][1] = "start"
      BY DEF LogsInLife
    <3>1. CASE audit'[i][2] = r
      BY <1>1, <1>9, <3>1
    <3>2. CASE audit'[i][2] # r
      <4>1. i \in 1 .. Len(audit) /\ audit'[i] = audit[i]
        BY <2>2, <2>3, <3>2
      <4>. QED
        BY <1>2, <1>6, <3>2, <4>1 DEF LogsInLife, Holding
    <3>. QED
      BY <3>1, <3>2
  <2>5. AuditSerial'
    BY <2>1, <2>2, <2>3 DEF AuditSerial
  <2>. QED
    BY <1>3, <1>4, <1>5, <2>4, <2>5
<1>. QED
  BY <1>1, <1>7, <1>8, <1>9 DEF Logs

(* A launcher that moves on, reads or is lost: the runs are as they were.  *)
LEMMA WatcherKeeps ==
  ASSUME LifeInv, NEW l \in Launchers,
         UNCHANGED <<phase, lock, tmp, discovery, audit, delisted>>,
         \/ launcher' = [launcher EXCEPT ![l].seen = discovery]
         \/ launcher' = [launcher EXCEPT ![l] = At("lost", NoRun)]
         \/ \E to \in Steps :
              /\ launcher' = [launcher EXCEPT ![l] = At(to, launcher[l].child)]
              /\ to = "gone" => MayHaveEnded(l)
  PROVE  LifeInv'
<1>. USE DEF LifeInv
<1>. DEFINE L == [step : Steps, child : Runs \cup {NoRun}, seen : Runs \cup {NoRun}]
<1>1. launcher \in [Launchers -> L] /\ discovery \in Runs \cup {NoRun}
  BY DEF TypeOK
<1>2. [launcher[l] EXCEPT !.seen = discovery] \in L
  BY <1>1
<1>3. \A to \in Steps : At(to, launcher[l].child) \in L
  BY <1>1 DEF At
<1>4. At("lost", NoRun) \in L
  BY DEF At, Steps
<1>5. PICK new \in L :
        /\ launcher' = [launcher EXCEPT ![l] = new]
        /\ new.child = launcher[l].child \/ new.child = NoRun
        /\ new.step = "gone" =>
             \/ MayHaveEnded(l)
             \/ launcher[l].step = "gone" /\ new.child = launcher[l].child
  <2>1. CASE launcher' = [launcher EXCEPT ![l].seen = discovery]
    <3>. WITNESS [launcher[l] EXCEPT !.seen = discovery] \in L
    <3>. QED
      BY <1>1, <2>1
  <2>2. CASE launcher' = [launcher EXCEPT ![l] = At("lost", NoRun)]
    <3>. WITNESS At("lost", NoRun) \in L
    <3>. QED
      BY <2>2 DEF At
  <2>3. ASSUME NEW to \in Steps,
               launcher' = [launcher EXCEPT ![l] = At(to, launcher[l].child)],
               to = "gone" => MayHaveEnded(l)
        PROVE  \E new \in L :
                 /\ launcher' = [launcher EXCEPT ![l] = new]
                 /\ new.child = launcher[l].child \/ new.child = NoRun
                 /\ new.step = "gone" =>
                      \/ MayHaveEnded(l)
                      \/ launcher[l].step = "gone" /\ new.child = launcher[l].child
    <3>1. At(to, launcher[l].child) \in L
      BY <1>3
    <3>. WITNESS At(to, launcher[l].child) \in L
    <3>. QED
      BY <2>3 DEF At
  <2>. QED
    BY <2>1, <2>2, <2>3
<1>6. launcher' \in [Launchers -> L]
  BY <1>1, <1>5
<1>7. TypeOK'
  BY <1>6 DEF TypeOK
<1>8. OneSpine' /\ TmpIsOwn' /\ DiscoveryTrue' /\ LogsInLife' /\ AuditSerial'
  BY DEF OneSpine, TmpIsOwn, DiscoveryTrue, LogsInLife, AuditSerial
<1>9. /\ launcher'[l] = new
      /\ \A k \in Launchers : k # l => launcher'[k] = launcher[k]
  BY <1>1, <1>5
<1>. HIDE DEF L
<1>10. HasChild' /\ NoOrphan'
  BY <1>5, <1>9 DEF HasChild, NoOrphan, UnderUv, ChildDead, MayHaveEnded
<1>. QED
  BY <1>7, <1>8, <1>10

(* A launcher's step: it touches a run only by starting or killing it.     *)
LEMMA LauncherKeeps ==
  ASSUME LifeInv, NEW l \in Launchers, LauncherStep(l)
  PROVE  LifeInv'
<1>. USE DEF LifeInv
<1>1. CASE Begin(l)
  <2>1. TypeOK' /\ OneSpine' /\ TmpIsOwn' /\ HasChild' /\ NoOrphan' /\ LogsInLife'
        /\ AuditSerial'
    BY <1>1, LifecycleAssumption
    DEF Begin, Goes, TypeOK, OneSpine, TmpIsOwn, HasChild, NoOrphan, LogsInLife, AuditSerial,
        Steps, UnderUv, ChildDead, At
  <2>2. DiscoveryTrue'
    BY <1>1, LifecycleAssumption DEF Begin, Goes, DiscoveryTrue, Listed
  <2>. QED
    BY <2>1, <2>2
<1>2. ASSUME NEW r \in Runs, SpawnPython(l, r)
      PROVE  LifeInv'
  <2>1. /\ phase[r] = "none" /\ phase' = [phase EXCEPT ![r] = "checking"]
        /\ launcher[l].step = "begun"
        /\ launcher' = [launcher EXCEPT ![l] = At("waiting", r)]
        /\ UNCHANGED <<lock, tmp, discovery, audit, delisted>>
    BY <1>2 DEF SpawnPython, Moves, Disk
  <2>2. TypeOK' /\ OneSpine' /\ TmpIsOwn' /\ DiscoveryTrue'
    <3>1. phase' \in [Runs -> Phases]
      BY <2>1 DEF TypeOK, Phases, Alive
    <3>2. launcher' \in [Launchers -> [step : Steps, child : Runs \cup {NoRun},
                                       seen : Runs \cup {NoRun}]]
      BY <2>1 DEF TypeOK, Steps, At
    <3>3. TypeOK'
      BY <2>1, <3>1, <3>2 DEF TypeOK
    <3>4. OneSpine'
      BY <2>1, LifecycleAssumption DEF TypeOK, OneSpine, Holding
    <3>. QED
      BY <2>1, <3>3, <3>4, LifecycleAssumption
      DEF TypeOK, TmpIsOwn, DiscoveryTrue, Phases, Listed
  <2>3. HasChild' /\ NoOrphan'
    BY <2>1 DEF HasChild, NoOrphan, TypeOK, UnderUv, ChildDead, At
  <2>4. LogsInLife' /\ AuditSerial'
    <3>1. \A i \in 1 .. Len(audit) : audit[i][2] \in Runs
      BY DEF TypeOK
    <3>. QED
      BY <2>1, <3>1 DEF LogsInLife, AuditSerial, TypeOK
  <2>. QED
    BY <2>2, <2>3, <2>4
<1>3. ASSUME NEW r \in Runs, Crash(r)
      PROVE  LifeInv'
  <2>1. ~Accept(r) /\ ~EndLifespan(r)
    BY <1>3 DEF Crash, Accept, EndLifespan, Moves, TypeOK
  <2>. QED
    BY <1>3, <2>1, RunKeeps DEF RunStep
<1>4. CASE SpawnUv(l) \/ BecomeReady(l) \/ GiveUp(l) \/ Close(l) \/ Terminate(l) \/ Reap(l)
  <2>1. UNCHANGED <<phase, lock, tmp, discovery, audit, delisted>>
    BY <1>4 DEF SpawnUv, BecomeReady, GiveUp, Close, Terminate, Reap, Disk
  <2>2. \E to \in Steps :
          /\ launcher' = [launcher EXCEPT ![l] = At(to, launcher[l].child)]
          /\ to = "gone" => MayHaveEnded(l)
    BY <1>4, Zenon
    DEF SpawnUv, BecomeReady, GiveUp, Close, Terminate, Reap, Goes, Steps
  <2>. QED
    BY <2>1, <2>2, WatcherKeeps
<1>5. CASE ReadDiscovery(l) \/ Escape(l) \/ KillLauncher(l)
  BY <1>5, WatcherKeeps DEF ReadDiscovery, Escape, KillLauncher, Lost, Disk
<1>6. CASE KillChild(l)
  <2>1. CASE \E r \in Runs : launcher[l].child = r /\ Crash(r)
    BY <1>3, <2>1
  <2>2. CASE /\ UnderUv(l) /\ Goes(l, "terminating", "gone")
             /\ UNCHANGED <<phase, lock, Disk, delisted>>
    <3>1. "gone" \in Steps /\ MayHaveEnded(l)
      BY <2>2 DEF Steps, MayHaveEnded
    <3>. QED
      BY <2>2, <3>1, WatcherKeeps DEF Goes, Disk
  <2>. QED
    BY <1>6, <2>1, <2>2 DEF KillChild
<1>. QED
  BY <1>1, <1>2, <1>4, <1>5, <1>6 DEF LauncherStep, Poll

LEMMA LifeInvNext == LifeInv /\ [Next]_vars => LifeInv'
<1>. SUFFICES ASSUME LifeInv, [Next]_vars
              PROVE  LifeInv'
  OBVIOUS
<1>1. ASSUME NEW r \in Runs, RunStep(r)
      PROVE  LifeInv'
  BY <1>1, RunKeeps, LineKeeps
<1>2. ASSUME NEW l \in Launchers, LauncherStep(l)
      PROVE  LifeInv'
  BY <1>2, LauncherKeeps
<1>3. CASE UNCHANGED vars
  BY <1>3 DEF vars, LifeInv, TypeOK, OneSpine, TmpIsOwn, DiscoveryTrue, HasChild, NoOrphan,
              LogsInLife, AuditSerial, UnderUv, ChildDead
<1>. QED
  BY <1>1, <1>2, <1>3 DEF Next

THEOREM LifeInvariant == Spec => []LifeInv
BY LifeInvInit, LifeInvNext, PTL DEF Spec

(* Every variable of the lifecycle keeps its type.                         *)
THEOREM LifecycleTypes == Spec => []TypeOK
<1>1. LifeInv => TypeOK
  BY DEF LifeInv
<1>. QED
  BY LifeInvariant, <1>1, PTL

(* At most one run is past the lock, whoever is killed (instance_lock.py). *)
THEOREM AlwaysOneSpine == Spec => []OneSpine
<1>1. LifeInv => OneSpine
  BY DEF LifeInv
<1>. QED
  BY LifeInvariant, <1>1, PTL

(* No run takes the discovery file from the one that serves, and the file  *)
(* names no run before its socket listens (server.py, serve).              *)
THEOREM DiscoveryAlwaysTrue == Spec => []DiscoveryTrue
<1>1. LifeInv => DiscoveryTrue
  BY DEF LifeInv
<1>. QED
  BY LifeInvariant, <1>1, PTL

(* The audit log tells one run's life at a time (service.py, lifespan).    *)
THEOREM AuditAlwaysSerial == Spec => []AuditSerial
<1>1. LifeInv => AuditSerial
  BY DEF LifeInv
<1>. QED
  BY LifeInvariant, <1>1, PTL

(* A launcher whose finally clause has run to its end has seen the spine   *)
(* it started itself dead (dev.py, main and terminate).                    *)
THEOREM NeverOrphans == Spec => []NoOrphan
<1>1. LifeInv => NoOrphan
  BY DEF LifeInv
<1>. QED
  BY LifeInvariant, <1>1, PTL

=============================================================================
