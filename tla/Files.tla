---------------------------------- MODULE Files ----------------------------------
(***************************************************************************)
(* The files under .c2quay that commands leave to each other and to        *)
(* Compose: snapshots (snapshot.go), override files and reports of         *)
(* rollbacks (rollback.go).                                                *)
(*                                                                         *)
(* They are shared by every environment deployed from one checkout, their  *)
(* names are made of the second they belong to, and os.WriteFile empties a *)
(* file before it fills it.  What a deploy does between its pre-snapshot   *)
(* and its end is left to Deploy; here it ends well or not.  The snapshots *)
(* taken at the end of a deploy and of a rollback, which no hint names and *)
(* no command reads again, are left out.                                   *)
(***************************************************************************)
EXTENDS Naturals

CONSTANTS
  Deploys,    \* invocations of `c2quay deploy`
  Rollbacks,  \* invocations of `c2quay rollback`
  Envs, EnvOf, Free,  \* as in Deploy
  MaxTime     \* bound on the clock

Commands == Deploys \cup Rollbacks

ASSUME FilesAssumption ==
  /\ EnvOf \in [Commands -> Envs]
  /\ Deploys \cap Rollbacks = {}
  /\ Free \notin Commands
  /\ MaxTime \in Nat \ {0}

VARIABLES
  now,      \* the second the clock shows
  dir,      \* the files
  lock,     \* per environment, the command that holds the flock
  at,       \* per command, its next step
  opened,   \* it has emptied the file it is writing
  stamp,    \* the second in the name of each file it writes
  failed,   \* it has failed, after its pre-snapshot
  follows,  \* the deploy whose hint a `c2quay rollback` was started from
  source,   \* whose snapshot it loaded
  compose,  \* its `up` with the override: has yet to read it, or has
  pinned,   \* what that `up` read
  ioError   \* a file could not be written (history)

memory == <<stamp, failed, follows, source>>
vars == <<now, dir, lock, at, opened, memory, compose, pinned, ioError>>

Times == 1..MaxTime
Kinds == {"pre", "override", "report"}
Names == Kinds \X Times

\* Who wrote the file last, and whether it came to the end of it.
Contents == [by : Commands \cup {Free}, whole : BOOLEAN]
NoFile == [by |-> Free, whole |-> FALSE]

Outside == {"start", "loaded", "over", "dead"}
Steps == Outside \cup Kinds \cup {"capture", "deploying", "plan", "up"}

Env(p) == EnvOf[p]

\* Mutant: the name is that of the first second, whenever the file is written.
FirstFile(p, kind) == <<kind, IF stamp[p][kind] = 0 THEN 0 ELSE 1>>

File(p, kind) == <<kind, stamp[p][kind]>>
Goto(p, step) == at' = [at EXCEPT ![p] = step]
Stamp(p, kinds) ==
  stamp' = [stamp EXCEPT ![p] = [k \in Kinds |-> IF k \in kinds THEN now ELSE stamp[p][k]]]

Init ==
  /\ now = 1
  /\ dir = [n \in Names |-> NoFile]
  /\ lock = [e \in Envs |-> Free]
  /\ at = [p \in Commands |-> "start"]
  /\ opened = [p \in Commands |-> FALSE]
  /\ stamp = [p \in Commands |-> [k \in Kinds |-> 0]]
  /\ failed = [p \in Commands |-> FALSE]
  /\ follows = [p \in Commands |-> Free]
  /\ source = [p \in Commands |-> Free]
  /\ compose = [p \in Commands |-> "none"]
  /\ pinned = [p \in Commands |-> NoFile]
  /\ ioError = FALSE

-------------------------------------------------------------------------------
\* Start, lock, end.

\* The operator takes the file from the hint of a failed deploy.  What can be
\* decoded is good; that it is of another environment is only warned about.
LoadSnapshot(p, d) ==
  /\ p \in Rollbacks
  /\ at[p] = "start"
  /\ failed[d] /\ at[d] = "over" /\ Env(d) = Env(p)
  /\ follows' = [follows EXCEPT ![p] = d]
  /\ LET file == dir[File(d, "pre")] IN
     \/ /\ file.whole
        /\ source' = [source EXCEPT ![p] = file.by]
        /\ Goto(p, "loaded")
     \/ /\ ~ file.whole
        /\ Goto(p, "over")
        /\ UNCHANGED source
  /\ UNCHANGED <<now, dir, lock, opened, stamp, failed, compose, pinned, ioError>>

\* Or from an earlier day.
LoadOlder(p) ==
  /\ p \in Rollbacks
  /\ at[p] = "start"
  /\ Goto(p, "loaded")
  /\ UNCHANGED <<now, dir, lock, opened, memory, compose, pinned, ioError>>

\* Mutant: the lock is not taken.
Unlocked(p) ==
  /\ at[p] = IF p \in Deploys THEN "start" ELSE "loaded"
  /\ Goto(p, IF p \in Deploys THEN "capture" ELSE "plan")
  /\ UNCHANGED <<now, dir, lock, opened, memory, compose, pinned, ioError>>

Acquire(p) ==
  /\ at[p] = IF p \in Deploys THEN "start" ELSE "loaded"
  /\ \/ /\ lock[Env(p)] = Free
        /\ lock' = [lock EXCEPT ![Env(p)] = p]
        /\ Goto(p, IF p \in Deploys THEN "capture" ELSE "plan")
     \/ /\ lock[Env(p)] # Free
        /\ Goto(p, "over")
        /\ UNCHANGED lock
  /\ UNCHANGED <<now, dir, opened, memory, compose, pinned, ioError>>

Over(p) ==
  /\ Goto(p, "over")
  /\ lock' = [lock EXCEPT ![Env(p)] = Free]

-------------------------------------------------------------------------------
\* Files.

\* What follows a file that was written, and one that could not be.
After == [pre |-> "deploying", override |-> "up", report |-> "over"]
AfterFailure == [After EXCEPT !.pre = "over", !.override = "over"]

Proceed(p, step) ==
  /\ opened' = [opened EXCEPT ![p] = FALSE]
  /\ IF step = "over" THEN Over(p) ELSE Goto(p, step) /\ UNCHANGED lock

Empty(p) ==
  /\ at[p] \in Kinds
  /\ ~ opened[p]
  /\ dir' = [dir EXCEPT ![File(p, at[p])] = [by |-> p, whole |-> FALSE]]
  /\ opened' = [opened EXCEPT ![p] = TRUE]
  /\ UNCHANGED <<now, lock, at, memory, compose, pinned, ioError>>

\* Two that write the same file at once may leave a mixture.
Fill(p) ==
  /\ at[p] \in Kinds
  /\ opened[p]
  /\ \E whole \in BOOLEAN :
       /\ ~ dir[File(p, at[p])].whole => whole
       /\ dir' = [dir EXCEPT ![File(p, at[p])] = [by |-> p, whole |-> whole]]
  /\ Proceed(p, After[at[p]])
  /\ UNCHANGED <<now, memory, compose, pinned, ioError>>

\* A full disk, a directory that may not be written.
WriteFails(p) ==
  /\ at[p] \in Kinds
  /\ Proceed(p, AfterFailure[at[p]])
  /\ ioError' = TRUE
  /\ UNCHANGED <<now, dir, memory, compose, pinned>>

-------------------------------------------------------------------------------
\* Deploys and rollbacks.

Capture(p) ==
  /\ at[p] = "capture"
  /\ Stamp(p, {"pre"})
  /\ Goto(p, "pre")
  /\ UNCHANGED <<now, dir, lock, opened, failed, follows, source, compose, pinned, ioError>>

\* The deploy fails before its pre-snapshot; it succeeds, or fails and is not
\* rolled back; a `c2quay rollback` has nothing to do.
EndsEarly(p) ==
  /\ at[p] \in {"capture", "deploying", "plan"}
  /\ Over(p)
  /\ \E f \in (IF at[p] = "deploying" THEN BOOLEAN ELSE {FALSE}) :
       failed' = [failed EXCEPT ![p] = f]
  /\ UNCHANGED <<now, dir, opened, stamp, follows, source, compose, pinned, ioError>>

\* Mutant: the report of a dry run has no time of its own.
StartsRollbackUnstamped(p) ==
  /\ at[p] \in {"deploying", "plan"}
  /\ \/ Stamp(p, {"override", "report"}) /\ Goto(p, "override")
     \/ Goto(p, "report") /\ UNCHANGED stamp
  /\ failed' = [failed EXCEPT ![p] = p \in Deploys]
  /\ UNCHANGED <<now, dir, lock, opened, follows, source, compose, pinned, ioError>>

\* ExecuteRollback: a dry run only leaves a report.
StartsRollback(p) ==
  /\ at[p] \in {"deploying", "plan"}
  /\ Stamp(p, {"override", "report"})
  /\ Goto(p, "override") \/ Goto(p, "report")
  /\ failed' = [failed EXCEPT ![p] = p \in Deploys]
  /\ UNCHANGED <<now, dir, lock, opened, follows, source, compose, pinned, ioError>>

UpStarts(p) ==
  /\ at[p] = "up"
  /\ compose[p] = "none"
  /\ compose' = [compose EXCEPT ![p] = "reading"]
  /\ UNCHANGED <<now, dir, lock, at, opened, memory, pinned, ioError>>

\* Compose loads its files, the override last.
ComposeReads(p) ==
  /\ compose[p] = "reading"
  /\ compose' = [compose EXCEPT ![p] = "read"]
  /\ pinned' = [pinned EXCEPT ![p] = dir[File(p, "override")]]
  /\ UNCHANGED <<now, dir, lock, at, opened, memory, ioError>>

\* Mutant: a rollback that is not followed by a snapshot is not reported.
UpReturnsUnreported(p) ==
  /\ at[p] = "up"
  /\ compose' = [compose EXCEPT ![p] = "none"]
  /\ pinned' = [pinned EXCEPT ![p] = NoFile]
  /\ \/ Goto(p, "report") /\ UNCHANGED lock
     \/ Over(p)
  /\ UNCHANGED <<now, dir, opened, memory, ioError>>

\* It succeeds, fails, is killed or could not be started, and a snapshot can be
\* taken of what it led to or not: a report follows.
UpReturns(p) ==
  /\ at[p] = "up"
  /\ compose' = [compose EXCEPT ![p] = "none"]
  /\ pinned' = [pinned EXCEPT ![p] = NoFile]
  /\ Goto(p, "report")
  /\ UNCHANGED <<now, dir, lock, opened, memory, ioError>>

-------------------------------------------------------------------------------
\* What c2quay does not control.

Tick ==
  /\ now < MaxTime
  /\ now' = now + 1
  /\ UNCHANGED <<dir, lock, at, opened, memory, compose, pinned, ioError>>

\* What a Compose that outlives its c2quay reads is not followed any further.
Crash(p) ==
  /\ at[p] \notin Outside
  /\ lock' = [lock EXCEPT ![Env(p)] = Free]
  /\ Goto(p, "dead")
  /\ opened' = [opened EXCEPT ![p] = FALSE]
  /\ compose' = [compose EXCEPT ![p] = "none"]
  /\ pinned' = [pinned EXCEPT ![p] = NoFile]
  /\ UNCHANGED <<now, dir, memory, ioError>>

-------------------------------------------------------------------------------
Step(p) ==
  \/ \E d \in Deploys : LoadSnapshot(p, d)
  \/ LoadOlder(p) \/ Acquire(p) \/ Capture(p) \/ EndsEarly(p)
  \/ Empty(p) \/ Fill(p) \/ WriteFails(p)
  \/ StartsRollback(p) \/ UpStarts(p) \/ UpReturns(p)
  \/ ComposeReads(p)

Next ==
  \/ \E p \in Commands : Step(p) \/ Crash(p)
  \/ Tick

Spec == Init /\ [][Next]_vars

-------------------------------------------------------------------------------
\* The declared domain of every variable; a file that is written has a name.
TypeOK ==
  /\ now \in Times
  /\ dir \in [Names -> Contents]
  /\ lock \in [Envs -> Commands \cup {Free}]
  /\ at \in [Commands -> Steps]
  /\ opened \in [Commands -> BOOLEAN]
  /\ stamp \in [Commands -> [Kinds -> 0..MaxTime]]
  /\ failed \in [Commands -> BOOLEAN]
  /\ follows \in [Commands -> Deploys \cup {Free}]
  /\ source \in [Commands -> Deploys \cup {Free}]
  /\ compose \in [Commands -> {"none", "reading", "read"}]
  /\ pinned \in [Commands -> Contents]
  /\ ioError \in BOOLEAN
  /\ \A p \in Commands : at[p] \in Kinds => File(p, at[p]) \in Names

Own(p) == [by |-> p, whole |-> TRUE]

(***************************************************************************)
(* The `up` of a rollback pins the images of its own plan (rollback.go:    *)
(* 229-251): the override it reads is the one its c2quay wrote, and all of *)
(* it, unless another environment's rollback began within the same second. *)
(***************************************************************************)
OverrideIsOwn ==
  \A p \in Commands :
    compose[p] = "read" =>
      \/ pinned[p] = Own(p)
      \/ \E q \in Commands : Env(q) # Env(p) /\ stamp[q]["override"] = stamp[p]["override"]

(***************************************************************************)
(* ADR 0006: every rollback leaves a report.  One that came to its end has *)
(* its own, unless the disk failed or another began within that second.    *)
(***************************************************************************)
AuditTrail ==
  \A p \in Commands :
    (at[p] = "over" /\ stamp[p]["report"] # 0 /\ ~ ioError) =>
      \/ dir[File(p, "report")] = Own(p)
      \/ \E q \in Commands \ {p} : stamp[q]["report"] = stamp[p]["report"]

(***************************************************************************)
(* "Pre-deploy snapshot: <file>" of the hint: what a `c2quay rollback`     *)
(* loads from it is the snapshot of the deploy that failed, or of one      *)
(* that captured its own within the same second.                           *)
(***************************************************************************)
HintLeadsBack ==
  \A p \in Commands :
    source[p] # Free => stamp[source[p]]["pre"] = stamp[follows[p]]["pre"]
===============================================================================
