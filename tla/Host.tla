---------------------------------- MODULE Host ----------------------------------
(***************************************************************************)
(* One host with both commands that change containers: deploys, and        *)
(* `c2quay rollback --from-snapshot` (internal/cli/rollback.go).           *)
(*                                                                         *)
(* A rollback reads the file of a pre-snapshot some deploy left, takes the *)
(* lock of its environment, compares the file with what the Compose files  *)
(* name now and brings up what differs.  It never talks to the broker.     *)
(***************************************************************************)
EXTENDS Deploy

CONSTANT OldSnapshots  \* the image maps of the snapshots earlier deploys left

ASSUME HostAssumption == OldSnapshots \subseteq Views

VARIABLES
  files,   \* the image maps of the pre-snapshots on disk
  at,      \* per rollback command, the next step
  loaded,  \* the image map it read
  goal,    \* RollbackPlan.Images
  undo,    \* what its `docker compose up` still has to replace, and with what
  status   \* its exit status

command == <<at, loaded, goal, undo, status>>
hostVars == <<vars, files, command>>

Idle == {"start", "loaded", "done", "dead"}
Stages == Idle \cup {"plan", "restoring", "exit"}

At(r, stage) == at' = [at EXCEPT ![r] = stage]

HostInit ==
  /\ Init
  /\ files = OldSnapshots
  /\ at = [r \in Others |-> "start"]
  /\ loaded = [r \in Others |-> Nothing]
  /\ goal = [r \in Others |-> Nothing]
  /\ undo = [r \in Others |-> Nothing]
  /\ status = [r \in Others |-> "none"]

-------------------------------------------------------------------------------
\* LoadSnapshot: the file is read before the lock is taken.
LoadSnapshot(r) ==
  /\ at[r] = "start"
  /\ \E images \in files : loaded' = [loaded EXCEPT ![r] = images]
  /\ At(r, "loaded")
  /\ UNCHANGED <<vars, files, goal, undo, status>>

\* Mutant: a lock that is held is only warned about.
RestoreUnlocked(r) ==
  /\ at[r] = "loaded"
  /\ At(r, "plan")
  /\ UNCHANGED <<vars, files, loaded, goal, undo, status>>

RestoreLocks(r) ==
  /\ at[r] = "loaded"
  /\ lock[EnvOf[r]] = Free
  /\ lock' = [lock EXCEPT ![EnvOf[r]] = r]
  /\ At(r, "plan")
  /\ UNCHANGED <<shared, pc, opt, cancelled, child, report,
                 files, loaded, goal, undo, status>>

\* There is no such file, or another command has the lock.
RestoreDenied(r) ==
  /\ \/ at[r] = "start"
     \/ at[r] = "loaded" /\ lock[EnvOf[r]] # Free
  /\ status' = [status EXCEPT ![r] = "operatorError"]
  /\ At(r, "done")
  /\ UNCHANGED <<vars, files, loaded, goal, undo>>

(***************************************************************************)
(* BuildRollbackPlan, against the images the Compose files name or, when   *)
(* they cannot be rendered, against none.                                  *)
(***************************************************************************)
Restorable(r) ==
  {RollbackImages(loaded[r], current) : current \in {RenderedImages, Nothing}}

\* A dry run ends here, and so does a plan with nothing to do.
RestoreSkips(r) ==
  /\ at[r] = "plan"
  /\ status' = [status EXCEPT ![r] = "ok"]
  /\ At(r, "exit")
  /\ UNCHANGED <<vars, files, loaded, goal, undo>>

RestoreStarts(r) ==
  /\ at[r] = "plan"
  /\ \E images \in Restorable(r) \ {Nothing} :
       /\ goal' = [goal EXCEPT ![r] = images]
       /\ undo' = [undo EXCEPT ![r] = Outdated(images)]
  /\ At(r, "restoring")
  /\ UNCHANGED <<vars, files, loaded, status>>

\* The Compose process at work, its c2quay waiting for it or killed.
ContainerRestored(r, s) ==
  /\ undo[r][s] # None
  /\ running' = [running EXCEPT ![s] = undo[r][s]]
  /\ undo' = [undo EXCEPT ![r][s] = None]
  /\ UNCHANGED <<head, edits, broker, torn, lock, pc, opt, cancelled, child, report,
                 files, at, loaded, goal, status>>

\* Mutant: the rollback is successful whatever `up` returns.
RestoreAssumed(r) ==
  /\ at[r] = "restoring"
  /\ status' = [status EXCEPT ![r] = "ok"]
  /\ undo' = [undo EXCEPT ![r] = Nothing]
  /\ At(r, "exit")
  /\ UNCHANGED <<vars, files, loaded, goal>>

\* ExecuteRollback returns: `up` seems to have been applied, or something failed.
RestoreEnds(r) ==
  /\ at[r] = "restoring"
  /\ \/ /\ undo[r] = Nothing \/ StaleMask
        /\ status' = [status EXCEPT ![r] = "ok"]
     \/ status' = [status EXCEPT ![r] = "operatorError"]
  /\ undo' = [undo EXCEPT ![r] = Nothing]
  /\ At(r, "exit")
  /\ UNCHANGED <<vars, files, loaded, goal>>

\* Mutant: the lock is given back on success only.
RestoreKeepsLock(r) ==
  /\ at[r] = "exit"
  /\ lock' = [lock EXCEPT ![EnvOf[r]] = IF status[r] = "ok" THEN Free ELSE @]
  /\ At(r, "done")
  /\ UNCHANGED <<shared, pc, opt, cancelled, child, report,
                 files, loaded, goal, undo, status>>

RestoreExits(r) ==
  /\ at[r] = "exit"
  /\ lock' = [lock EXCEPT ![EnvOf[r]] = Free]
  /\ At(r, "done")
  /\ UNCHANGED <<shared, pc, opt, cancelled, child, report,
                 files, loaded, goal, undo, status>>

\* As for a deploy: the lock goes with the process, Compose goes on.
RestoreKilled(r) ==
  /\ MayCrash
  /\ at[r] \notin Idle
  /\ lock' = [lock EXCEPT ![EnvOf[r]] = Free]
  /\ At(r, "dead")
  /\ UNCHANGED <<shared, pc, opt, cancelled, child, report,
                 files, loaded, goal, undo, status>>

LeftoverStops(r) ==
  /\ at[r] = "dead"
  /\ undo[r] # Nothing
  /\ undo' = [undo EXCEPT ![r] = Nothing]
  /\ UNCHANGED <<vars, files, at, loaded, goal, status>>

-------------------------------------------------------------------------------
\* A deploy has written its pre-snapshot when it goes on from it.
Written == files' = files \cup {pre'[p] : p \in Procs}

Deploys(p) == Step(p) /\ Written /\ UNCHANGED command

Restores(r) ==
  \/ LoadSnapshot(r) \/ RestoreLocks(r) \/ RestoreDenied(r)
  \/ RestoreSkips(r) \/ RestoreStarts(r) \/ RestoreEnds(r) \/ RestoreExits(r)

HostTerminated ==
  /\ \A p \in Procs : pc[p] \in {"done", "dead"} /\ child[p] = Nothing
  /\ \A r \in Others : at[r] \in {"done", "dead"} /\ undo[r] = Nothing
  /\ UNCHANGED hostVars

HostNext ==
  \/ \E p \in Procs : Deploys(p)
  \/ Environment /\ UNCHANGED <<files, command>>
  \/ \E r \in Others : Restores(r) \/ RestoreKilled(r) \/ LeftoverStops(r)
  \/ \E r \in Others, s \in Services : ContainerRestored(r, s)
  \/ HostTerminated

HostSpec == HostInit /\ [][HostNext]_hostVars

\* Deploys as in Deploy, and the commands a rollback runs return as theirs do.
FairHostSpec ==
  /\ HostSpec
  /\ \A p \in Procs : WF_hostVars(Deploys(p))
  /\ \A r \in Others : WF_hostVars(Restores(r))

-------------------------------------------------------------------------------
\* The declared domain of every variable.
HostTypeOK ==
  /\ TypeOK
  /\ files \subseteq Views
  /\ at \in [Others -> Stages]
  /\ loaded \in [Others -> Views]
  /\ goal \in [Others -> Views]
  /\ undo \in [Others -> Views]
  /\ status \in [Others -> Codes]

(***************************************************************************)
(* The lock makes deploys and rollbacks of one environment exclude each    *)
(* other: it is held by exactly the command that is past it.               *)
(***************************************************************************)
HostLockHeld ==
  /\ LockHeld
  /\ \A r \in Others : lock[EnvOf[r]] = r <=> at[r] \notin Idle

ComposeRuns == {p \in Procs : child[p] # Nothing} \cup {r \in Others : undo[r] # Nothing}

Orphan(c) == (c \in Procs /\ pc[c] = "dead") \/ (c \in Others /\ at[c] = "dead")

(***************************************************************************)
(* Two `docker compose up` of one environment, of deploys, of their        *)
(* compensations or of rollback commands, run at the same time only if one *)
(* of them has outlived its killed c2quay.                                 *)
(***************************************************************************)
OneComposeRunOnHost ==
  \A c, d \in ComposeRuns :
    (c # d /\ EnvOf[c] = EnvOf[d]) => Orphan(c) \/ Orphan(d)

(***************************************************************************)
(* A rollback command that ends in success did what its plan says: the     *)
(* services of the plan run the images of the snapshot, whatever deploys   *)
(* have done since the file was read.                                      *)
(***************************************************************************)
RestoreTrue ==
  \A r \in Others :
    (at[r] = "exit" /\ status[r] = "ok")
      => \A s \in Services : goal[r][s] # None => running[s] = goal[r][s]

-------------------------------------------------------------------------------
(***************************************************************************)
(* Deploys and rollback commands keep one protocol together.  A rollback   *)
(* command is never cleared: it restores images and posts nothing.         *)
(***************************************************************************)
Commands == Procs \cup Others

HostProtocol == INSTANCE ReleaseProtocol WITH
  Procs <- Commands,
  holder <- lock,
  phase <- [c \in Commands |-> IF c \in Procs THEN Phase(c)
                               ELSE IF at[c] \in Idle THEN "out" ELSE "in"],
  cand <- [c \in Commands |-> IF c \in Procs THEN Candidates(c) ELSE Nothing]

(***************************************************************************)
(* Whatever ends, fails or is killed, no command of either kind works in   *)
(* an environment another one is in, and what a deploy posts is what it    *)
(* was cleared for against the view that it then posts to.                 *)
(***************************************************************************)
HostImplementsProtocol == HostProtocol!Spec

-------------------------------------------------------------------------------
(***************************************************************************)
(* What a host may do to make c2quay say of its containers what is not so. *)
(* RollbackReportTrue and RestoreTrue hold where the first two conditions  *)
(* are met by every step, RecordsOnlyWhatRuns where the three are.         *)
(***************************************************************************)
Replaces(c) ==
  \/ c \in Procs /\ \E s \in Services : ContainerReplaced(c, s)
  \/ c \in Others /\ \E s \in Services : ContainerRestored(c, s)

Past(c) ==
  \/ c \in Procs /\ pc[c] \notin Outside
  \/ c \in Others /\ at[c] \notin Idle

\* No container is replaced for one command while another is past its lock: no
\* orphan at work beside a command, nor a command of another environment.
Apart == \A c, d \in Commands : Replaces(c) /\ Past(d) => c = d

\* No `up` that left something undone is taken for a success.
Candid ==
  /\ \A p \in Procs :
       (\/ pc[p] = "upping" /\ pc'[p] = "smoke"
        \/ rollback[p] # "ok" /\ rollback'[p] = "ok") => child[p] = Nothing
  /\ \A r \in Others :
       (at[r] = "restoring" /\ at'[r] = "exit" /\ status'[r] = "ok") => undo[r] = Nothing

\* No edit takes a file back to what a release in progress has planned.
NoEditBack ==
  \A s \in Services :
    head'[s] # head[s] => \A p \in Procs : plan[p][s] # head'[s]

-------------------------------------------------------------------------------
\* Every rollback command ends, and not with the lock.
EveryRestoreEnds ==
  \A r \in Others : <>[](at[r] \in {"done", "dead"} /\ lock[EnvOf[r]] # r)
===============================================================================
