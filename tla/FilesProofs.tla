------------------------------- MODULE FilesProofs -------------------------------
(***************************************************************************)
(* Whose files are read, for any commands, environments and clock.         *)
(***************************************************************************)
EXTENDS Files, TLAPS

\* What TypeOK says of the variables one by one.
Domains ==
  /\ now \in Times
  /\ dir \in [Names -> Contents]
  /\ lock \in [Envs -> Commands \cup {Free}]
  /\ at \in [Commands -> Steps]
  /\ opened \in [Commands -> BOOLEAN]
  /\ stamp \in [Commands -> [Kinds -> 0..MaxTime]]
  /\ failed \in [Commands -> BOOLEAN]
  /\ follows \in [Commands -> Deploys \cup {Free}]
  /\ source \in [Commands -> Commands \cup {Free}]
  /\ compose \in [Commands -> {"none", "reading", "read"}]
  /\ pinned \in [Commands -> Contents]
  /\ ioError \in BOOLEAN

\* A command is at work exactly while it holds the flock.
LockHeld == \A p \in Commands : lock[Env(p)] = p <=> at[p] \notin Outside

\* A file has its name before it is written, and keeps it.
Stamped(p) ==
  /\ at[p] \in {"start", "loaded", "capture"} => stamp[p]["pre"] = 0
  /\ at[p] \in {"pre", "deploying"} \/ failed[p] => stamp[p]["pre"] # 0
  /\ at[p] \in {"start", "loaded", "capture", "pre", "deploying", "plan"} =>
       stamp[p]["override"] = 0 /\ stamp[p]["report"] = 0
  /\ at[p] \in {"override", "up", "report"} =>
       stamp[p]["override"] # 0 /\ stamp[p]["report"] # 0

\* Who is where.
Placed(p) ==
  /\ at[p] \in {"capture", "pre", "deploying"} => p \in Deploys
  /\ at[p] \in {"loaded", "plan"} => p \in Rollbacks
  /\ at[p] = "start" => source[p] = Free
  /\ opened[p] => at[p] \in Kinds
  /\ compose[p] # "none" => at[p] = "up"

Shape ==
  /\ Domains
  /\ LockHeld
  /\ \A p \in Commands : Stamped(p) /\ Placed(p)

LEMMA ShapeInit == Init => Shape
<1> SUFFICES ASSUME Init PROVE Shape
  OBVIOUS
<1> USE FilesAssumption DEF Init
<1>1. Domains
  <2>1. NoFile \in Contents
    BY DEF NoFile, Contents
  <2>2. /\ opened \in [Commands -> BOOLEAN] /\ failed \in [Commands -> BOOLEAN]
        /\ ioError \in BOOLEAN
    OBVIOUS
  <2> QED BY <2>1, <2>2 DEF Domains, Times, Steps, Outside
<1>2. LockHeld
  BY DEF LockHeld, Env, Outside, Commands
<1>3. ASSUME NEW p \in Commands PROVE Stamped(p) /\ Placed(p)
  BY <1>3 DEF Stamped, Placed, Kinds
<1> QED BY <1>1, <1>2, <1>3 DEF Shape

\* Where a file leads to.
LEMMA AfterFacts ==
  /\ After["pre"] = "deploying" /\ After["override"] = "up" /\ After["report"] = "over"
  /\ AfterFailure["pre"] = "over" /\ AfterFailure["override"] = "over"
  /\ AfterFailure["report"] = "over"
BY DEF After, AfterFailure

LEMMA NameOf ==
  ASSUME Shape, NEW p \in Commands, at[p] \in Kinds
  PROVE  File(p, at[p]) \in Names
BY DEF Shape, Domains, Stamped, File, Names, Kinds, Times

LEMMA StampFacts ==
  ASSUME Domains, NEW p \in Commands, NEW kinds, Stamp(p, kinds)
  PROVE  /\ stamp' \in [Commands -> [Kinds -> 0..MaxTime]]
         /\ \A k \in Kinds : stamp'[p][k] = IF k \in kinds THEN now ELSE stamp[p][k]
         /\ \A q \in Commands \ {p} : stamp'[q] = stamp[q]
<1> DEFINE new == [k \in Kinds |-> IF k \in kinds THEN now ELSE stamp[p][k]]
<1>1. new \in [Kinds -> 0..MaxTime]
  BY FilesAssumption DEF Domains, Times
<1>2. stamp' = [stamp EXCEPT ![p] = new]
  BY DEF Stamp
<1> HIDE DEF new
<1>3. /\ stamp' \in [Commands -> [Kinds -> 0..MaxTime]]
      /\ stamp'[p] = new
      /\ \A q \in Commands \ {p} : stamp'[q] = stamp[q]
  BY <1>1, <1>2 DEF Domains
<1> QED BY <1>3 DEF new

LEMMA LockStep == Shape /\ [Next]_vars => LockHeld'
<1> SUFFICES ASSUME Shape, [Next]_vars PROVE LockHeld'
  OBVIOUS
<1> USE FilesAssumption, AfterFacts DEF Shape, Domains, LockHeld, Steps, Outside, Kinds, Env, Goto, Over, Commands
<1>1. ASSUME NEW p \in Commands, NEW d \in Deploys, LoadSnapshot(p, d) PROVE LockHeld'
  BY <1>1 DEF LoadSnapshot
<1>2. ASSUME NEW p \in Commands, LoadOlder(p) PROVE LockHeld'
  BY <1>2 DEF LoadOlder
<1>3. ASSUME NEW p \in Commands, Acquire(p) PROVE LockHeld'
  BY <1>3 DEF Acquire
<1>4. ASSUME NEW p \in Commands, Capture(p) PROVE LockHeld'
  BY <1>4 DEF Capture
<1>5. ASSUME NEW p \in Commands, EndsEarly(p) PROVE LockHeld'
  BY <1>5 DEF EndsEarly
<1>6. ASSUME NEW p \in Commands, Empty(p) PROVE LockHeld'
  BY <1>6 DEF Empty
<1>7. ASSUME NEW p \in Commands, Fill(p) PROVE LockHeld'
  BY <1>7 DEF Fill, Proceed
<1>8. ASSUME NEW p \in Commands, WriteFails(p) PROVE LockHeld'
  BY <1>8 DEF WriteFails, Proceed
<1>9. ASSUME NEW p \in Commands, StartsRollback(p) PROVE LockHeld'
  BY <1>9 DEF StartsRollback
<1>10. ASSUME NEW p \in Commands, UpStarts(p) PROVE LockHeld'
  BY <1>10 DEF UpStarts
<1>11. ASSUME NEW p \in Commands, UpReturns(p) PROVE LockHeld'
  BY <1>11 DEF UpReturns
<1>12. ASSUME NEW p \in Commands, ComposeReads(p) PROVE LockHeld'
  BY <1>12 DEF ComposeReads
<1>13. ASSUME NEW p \in Commands, Crash(p) PROVE LockHeld'
  BY <1>13 DEF Crash
<1>14. CASE Tick \/ UNCHANGED vars
  BY <1>14 DEF Tick, Times, vars
<1> QED BY <1>1, <1>2, <1>3, <1>4, <1>5, <1>6, <1>7, <1>8, <1>9, <1>10, <1>11, <1>12, <1>13, <1>14 DEF Next, Step

LEMMA StampedStep == Shape /\ [Next]_vars => (\A p \in Commands : Stamped(p))'
<1> SUFFICES ASSUME Shape, [Next]_vars PROVE (\A p \in Commands : Stamped(p))'
  OBVIOUS
<1> USE AfterFacts DEF Shape, Domains, Stamped, Kinds, Goto, Over, memory
<1>1. ASSUME NEW p \in Commands, NEW d \in Deploys, LoadSnapshot(p, d) PROVE (\A q \in Commands : Stamped(q))'
  BY <1>1 DEF LoadSnapshot
<1>2. ASSUME NEW p \in Commands, LoadOlder(p) PROVE (\A q \in Commands : Stamped(q))'
  BY <1>2 DEF LoadOlder
<1>3. ASSUME NEW p \in Commands, Acquire(p) PROVE (\A q \in Commands : Stamped(q))'
  BY <1>3 DEF Acquire
<1>4. ASSUME NEW p \in Commands, Capture(p) PROVE (\A q \in Commands : Stamped(q))'
  BY <1>4, StampFacts, now \in Times DEF Times, Capture
<1>5. ASSUME NEW p \in Commands, EndsEarly(p) PROVE (\A q \in Commands : Stamped(q))'
  BY <1>5 DEF EndsEarly
<1>6. ASSUME NEW p \in Commands, Empty(p) PROVE (\A q \in Commands : Stamped(q))'
  BY <1>6 DEF Empty
<1>7. ASSUME NEW p \in Commands, Fill(p) PROVE (\A q \in Commands : Stamped(q))'
  BY <1>7 DEF Fill, Proceed
<1>8. ASSUME NEW p \in Commands, WriteFails(p) PROVE (\A q \in Commands : Stamped(q))'
  BY <1>8 DEF WriteFails, Proceed
<1>9. ASSUME NEW p \in Commands, StartsRollback(p) PROVE (\A q \in Commands : Stamped(q))'
  <2>1. /\ stamp'[p]["pre"] = stamp[p]["pre"]
        /\ stamp'[p]["override"] # 0 /\ stamp'[p]["report"] # 0
        /\ \A q \in Commands \ {p} : stamp'[q] = stamp[q]
    BY <1>9, StampFacts, now \in Times DEF Times, StartsRollback
  <2>2. /\ at'[p] \in {"override", "report"}
        /\ \A q \in Commands \ {p} : at'[q] = at[q]
    BY <1>9 DEF StartsRollback
  <2>3. failed'[p] => at[p] = "deploying" /\ p \in Deploys
    BY <1>9, FilesAssumption DEF StartsRollback, Placed
  <2>4. \A q \in Commands \ {p} : failed'[q] = failed[q]
    BY <1>9 DEF StartsRollback
  <2> QED BY <2>1, <2>2, <2>3, <2>4
<1>10. ASSUME NEW p \in Commands, UpStarts(p) PROVE (\A q \in Commands : Stamped(q))'
  BY <1>10 DEF UpStarts
<1>11. ASSUME NEW p \in Commands, UpReturns(p) PROVE (\A q \in Commands : Stamped(q))'
  BY <1>11 DEF UpReturns
<1>12. ASSUME NEW p \in Commands, ComposeReads(p) PROVE (\A q \in Commands : Stamped(q))'
  BY <1>12 DEF ComposeReads
<1>13. ASSUME NEW p \in Commands, Crash(p) PROVE (\A q \in Commands : Stamped(q))'
  BY <1>13 DEF Crash
<1>14. CASE Tick \/ UNCHANGED vars
  BY <1>14 DEF Tick, Times, vars
<1> QED BY <1>1, <1>2, <1>3, <1>4, <1>5, <1>6, <1>7, <1>8, <1>9, <1>10, <1>11, <1>12, <1>13, <1>14 DEF Next, Step

LEMMA PlacedStep == Shape /\ [Next]_vars => (\A p \in Commands : Placed(p))'
<1> SUFFICES ASSUME Shape, [Next]_vars PROVE (\A p \in Commands : Placed(p))'
  OBVIOUS
<1> USE AfterFacts DEF Shape, Domains, Placed, Kinds, Goto, Over, memory
<1>1. ASSUME NEW p \in Commands, NEW d \in Deploys, LoadSnapshot(p, d) PROVE (\A q \in Commands : Placed(q))'
  BY SMTT(30), <1>1 DEF LoadSnapshot
<1>2. ASSUME NEW p \in Commands, LoadOlder(p) PROVE (\A q \in Commands : Placed(q))'
  BY <1>2 DEF LoadOlder
<1>3. ASSUME NEW p \in Commands, Acquire(p) PROVE (\A q \in Commands : Placed(q))'
  BY <1>3 DEF Acquire
<1>4. ASSUME NEW p \in Commands, Capture(p) PROVE (\A q \in Commands : Placed(q))'
  BY <1>4 DEF Capture
<1>5. ASSUME NEW p \in Commands, EndsEarly(p) PROVE (\A q \in Commands : Placed(q))'
  BY <1>5 DEF EndsEarly
<1>6. ASSUME NEW p \in Commands, Empty(p) PROVE (\A q \in Commands : Placed(q))'
  BY <1>6 DEF Empty
<1>7. ASSUME NEW p \in Commands, Fill(p) PROVE (\A q \in Commands : Placed(q))'
  BY <1>7 DEF Fill, Proceed
<1>8. ASSUME NEW p \in Commands, WriteFails(p) PROVE (\A q \in Commands : Placed(q))'
  BY <1>8 DEF WriteFails, Proceed
<1>9. ASSUME NEW p \in Commands, StartsRollback(p) PROVE (\A q \in Commands : Placed(q))'
  BY <1>9 DEF StartsRollback
<1>10. ASSUME NEW p \in Commands, UpStarts(p) PROVE (\A q \in Commands : Placed(q))'
  BY <1>10 DEF UpStarts
<1>11. ASSUME NEW p \in Commands, UpReturns(p) PROVE (\A q \in Commands : Placed(q))'
  BY <1>11 DEF UpReturns
<1>12. ASSUME NEW p \in Commands, ComposeReads(p) PROVE (\A q \in Commands : Placed(q))'
  BY <1>12 DEF ComposeReads
<1>13. ASSUME NEW p \in Commands, Crash(p) PROVE (\A q \in Commands : Placed(q))'
  BY <1>13 DEF Crash
<1>14. CASE Tick \/ UNCHANGED vars
  BY <1>14 DEF Tick, Times, vars
<1> QED BY <1>1, <1>2, <1>3, <1>4, <1>5, <1>6, <1>7, <1>8, <1>9, <1>10, <1>11, <1>12, <1>13, <1>14 DEF Next, Step

LEMMA DomainsStep == Shape /\ [Next]_vars => Domains'
<1> SUFFICES ASSUME Shape, [Next]_vars PROVE Domains'
  OBVIOUS
<1> USE FilesAssumption, AfterFacts
    DEF Shape, Domains, Steps, Outside, Kinds, Env, Goto, Over, memory
<1>1. ASSUME NEW p \in Commands, NEW d \in Deploys, LoadSnapshot(p, d) PROVE Domains'
  <2>1. d \in Commands /\ stamp[d]["pre"] \in Times
    BY <1>1 DEF LoadSnapshot, Commands, Stamped, Times
  <2>2. dir[File(d, "pre")] \in Contents
    BY <2>1 DEF File, Names
  <2>3. dir[File(d, "pre")].by \in Commands \cup {Free}
    BY <2>2 DEF Contents
  <2>4. follows' \in [Commands -> Deploys \cup {Free}]
    BY <1>1 DEF LoadSnapshot
  <2>5. source' \in [Commands -> Commands \cup {Free}]
    BY <1>1, <2>3 DEF LoadSnapshot
  <2>6. at' \in [Commands -> Steps]
    BY <1>1 DEF LoadSnapshot
  <2> QED BY <1>1, <2>4, <2>5, <2>6 DEF LoadSnapshot
<1>2. ASSUME NEW p \in Commands, LoadOlder(p) PROVE Domains'
  BY <1>2 DEF LoadOlder
<1>3. ASSUME NEW p \in Commands, Acquire(p) PROVE Domains'
  <2>1. at' \in [Commands -> Steps]
    BY <1>3 DEF Acquire
  <2>2. lock' \in [Envs -> Commands \cup {Free}]
    BY <1>3 DEF Acquire
  <2> QED BY <1>3, <2>1, <2>2 DEF Acquire
<1>4. ASSUME NEW p \in Commands, Capture(p) PROVE Domains'
  BY <1>4, StampFacts DEF Capture
<1>5. ASSUME NEW p \in Commands, EndsEarly(p) PROVE Domains'
  BY <1>5 DEF EndsEarly
<1>6. ASSUME NEW p \in Commands, Empty(p) PROVE Domains'
  BY <1>6 DEF Empty, Contents
<1>7. ASSUME NEW p \in Commands, Fill(p) PROVE Domains'
  <2>1. dir' \in [Names -> Contents]
    <3>1. PICK whole \in BOOLEAN :
            dir' = [dir EXCEPT ![File(p, at[p])] = [by |-> p, whole |-> whole]]
      BY <1>7 DEF Fill
    <3>2. [by |-> p, whole |-> whole] \in Contents
      BY DEF Contents
    <3> QED BY <3>1, <3>2
  <2>2. at' \in [Commands -> Steps] /\ lock' \in [Envs -> Commands \cup {Free}]
    <3>1. at[p] \in Kinds /\ Proceed(p, After[at[p]])
      BY <1>7 DEF Fill
    <3>2. After[at[p]] \in Steps
      BY <3>1
    <3>3. at' \in [Commands -> Steps]
      BY <3>1, <3>2 DEF Proceed
    <3>4. lock' \in [Envs -> Commands \cup {Free}]
      BY <3>1 DEF Proceed
    <3> QED BY <3>3, <3>4
  <2>3. opened' \in [Commands -> BOOLEAN]
    BY <1>7 DEF Fill, Proceed
  <2> QED BY <1>7, <2>1, <2>2, <2>3 DEF Fill
<1>8. ASSUME NEW p \in Commands, WriteFails(p) PROVE Domains'
  BY <1>8 DEF WriteFails, Proceed
<1>9. ASSUME NEW p \in Commands, StartsRollback(p) PROVE Domains'
  <2>1. stamp' \in [Commands -> [Kinds -> 0..MaxTime]]
    BY <1>9, StampFacts DEF StartsRollback
  <2>2. at' \in [Commands -> Steps]
    BY <1>9 DEF StartsRollback
  <2>3. failed' \in [Commands -> BOOLEAN]
    BY <1>9 DEF StartsRollback
  <2> QED BY <1>9, <2>1, <2>2, <2>3 DEF StartsRollback
<1>10. ASSUME NEW p \in Commands, UpStarts(p) PROVE Domains'
  BY <1>10 DEF UpStarts
<1>11. ASSUME NEW p \in Commands, UpReturns(p) PROVE Domains'
  BY <1>11 DEF UpReturns, Contents, NoFile
<1>12. ASSUME NEW p \in Commands, ComposeReads(p) PROVE Domains'
  <2>1. File(p, "override") \in Names
    BY <1>12 DEF ComposeReads, File, Names, Times, Stamped, Placed
  <2> QED BY <1>12, <2>1 DEF ComposeReads
<1>13. ASSUME NEW p \in Commands, Crash(p) PROVE Domains'
  BY <1>13 DEF Crash, Contents, NoFile
<1>14. CASE Tick \/ UNCHANGED vars
  BY <1>14 DEF Tick, Times, vars
<1> QED BY <1>1, <1>2, <1>3, <1>4, <1>5, <1>6, <1>7, <1>8, <1>9, <1>10, <1>11, <1>12, <1>13, <1>14 DEF Next, Step

LEMMA ShapeStep == Shape /\ [Next]_vars => Shape'
BY DomainsStep, LockStep, StampedStep, PlacedStep DEF Shape

\* A name that was given stays.
LEMMA StampStays ==
  ASSUME Shape, [Next]_vars, NEW q \in Commands, NEW k \in Kinds, stamp[q][k] # 0
  PROVE  stamp'[q][k] = stamp[q][k]
<1>1. ASSUME NEW p \in Commands, Capture(p) PROVE stamp'[q][k] = stamp[q][k]
  BY <1>1, StampFacts DEF Capture, Shape, Stamped, Kinds
<1>2. ASSUME NEW p \in Commands, StartsRollback(p) PROVE stamp'[q][k] = stamp[q][k]
  BY <1>2, StampFacts DEF StartsRollback, Shape, Stamped, Kinds
<1>3. ASSUME UNCHANGED stamp PROVE stamp'[q][k] = stamp[q][k]
  BY <1>3
<1> QED BY <1>1, <1>2, <1>3
        DEF Next, Step, LoadSnapshot, LoadOlder, Acquire, EndsEarly, Empty, Fill, WriteFails,
            UpStarts, UpReturns, ComposeReads, Crash, Tick, memory, vars
-------------------------------------------------------------------------------
(***************************************************************************)
(* Overrides.  From the moment the override is emptied to the end of `up`  *)
(* it is the one of the command at work: others of its environment wait.   *)
(***************************************************************************)
Begun(p) == [by |-> p, whole |-> FALSE]

Shared(p) ==
  \E q \in Commands : Env(q) # Env(p) /\ stamp[q]["override"] = stamp[p]["override"]

Kept(p) ==
  /\ at[p] = "override" /\ opened[p] => dir[File(p, "override")] = Begun(p)
  /\ at[p] = "up" => dir[File(p, "override")] = Own(p)
  /\ compose[p] = "read" => pinned[p] = Own(p)

OverrideKept(p) == Shared(p) \/ Kept(p)

LEMMA SharedStays ==
  ASSUME Shape, [Next]_vars, NEW p \in Commands, stamp[p]["override"] # 0, Shared(p)
  PROVE  Shared(p)'
<1>1. PICK q \in Commands : Env(q) # Env(p) /\ stamp[q]["override"] = stamp[p]["override"]
  BY DEF Shared
<1>2. /\ stamp'[q]["override"] = stamp[q]["override"]
      /\ stamp'[p]["override"] = stamp[p]["override"]
  BY <1>1, StampStays DEF Kinds
<1> QED BY <1>1, <1>2 DEF Shared, Env

\* What another command writes is another file.
LEMMA OthersOverride ==
  ASSUME Shape, NEW p \in Commands, NEW q \in Commands \ {p}, at[q] \in Kinds,
         at[p] \in {"override", "up"}, ~ Shared(p)
  PROVE  File(q, at[q]) # File(p, "override")
<1> SUFFICES ASSUME at[q] = "override", stamp[q]["override"] = stamp[p]["override"] PROVE FALSE
  BY DEF File, Kinds
<1>1. Env(q) = Env(p)
  BY DEF Shared
<1>2. lock[Env(p)] = p /\ lock[Env(q)] = q
  BY DEF Shape, LockHeld, Outside
<1> QED BY <1>1, <1>2

\* A step that writes no file and lets no Compose read one leaves p where it is,
\* or leads it elsewhere than into the midst of its override or its `up`.
Still(p) ==
  /\ dir' = dir
  /\ at'[p] = "up" => at[p] = "up"
  /\ opened'[p] => opened[p] /\ at'[p] = at[p]
  /\ compose'[p] = "read" => compose[p] = "read" /\ pinned'[p] = pinned[p]
  /\ ioError => ioError'
  /\ at'[p] = "over" => at[p] = "over" \/ ioError' \/ stamp'[p]["report"] = 0
  /\ at[p] = "over" => stamp'[p]["report"] = stamp[p]["report"]

LEMMA StillOr ==
  ASSUME Shape, [Next]_vars, NEW p \in Commands
  PROVE  Still(p) \/ \E q \in Commands : Empty(q) \/ Fill(q) \/ ComposeReads(q)
<1> USE AfterFacts DEF Still, Shape, Domains, Stamped, Placed, Kinds, Goto, Over, memory
<1>1. ASSUME NEW q \in Commands, NEW d \in Deploys, LoadSnapshot(q, d) PROVE Still(p)
  BY <1>1 DEF LoadSnapshot
<1>2. ASSUME NEW q \in Commands, LoadOlder(q) PROVE Still(p)
  BY <1>2 DEF LoadOlder
<1>3. ASSUME NEW q \in Commands, Acquire(q) PROVE Still(p)
  BY <1>3 DEF Acquire
<1>4. ASSUME NEW q \in Commands, Capture(q) PROVE Still(p)
  BY <1>4, StampFacts DEF Capture
<1>5. ASSUME NEW q \in Commands, EndsEarly(q) PROVE Still(p)
  BY <1>5 DEF EndsEarly
<1>6. ASSUME NEW q \in Commands, WriteFails(q) PROVE Still(p)
  BY <1>6 DEF WriteFails, Proceed
<1>7. ASSUME NEW q \in Commands, StartsRollback(q) PROVE Still(p)
  BY <1>7, StampFacts DEF StartsRollback
<1>8. ASSUME NEW q \in Commands, UpStarts(q) PROVE Still(p)
  BY <1>8 DEF UpStarts
<1>9. ASSUME NEW q \in Commands, UpReturns(q) PROVE Still(p)
  BY <1>9 DEF UpReturns
<1>10. ASSUME NEW q \in Commands, Crash(q) PROVE Still(p)
  BY <1>10 DEF Crash
<1>11. CASE Tick \/ UNCHANGED vars
  BY <1>11 DEF Tick, vars
<1> QED BY <1>1, <1>2, <1>3, <1>4, <1>5, <1>6, <1>7, <1>8, <1>9, <1>10, <1>11 DEF Next, Step

LEMMA OverrideStep ==
  ASSUME Shape, [Next]_vars, NEW p \in Commands, OverrideKept(p)
  PROVE  OverrideKept(p)'
<1>1. CASE Shared(p) /\ stamp[p]["override"] # 0
  BY <1>1, SharedStays DEF OverrideKept
<1>2. CASE ~ Shared(p) \/ stamp[p]["override"] = 0
  <2> SUFFICES Kept(p)'
    BY DEF OverrideKept
  <2>1. stamp[p]["override"] = 0 => at[p] \notin {"override", "up"} /\ compose[p] # "read"
    BY DEF Shape, Stamped, Placed
  <2>2. Kept(p)
    BY <1>2, <2>1 DEF OverrideKept, Kept
  <2>3. stamp[p]["override"] # 0 => File(p, "override")' = File(p, "override")
    BY StampStays DEF Kinds, File
  <2>4. CASE Still(p)
    BY <2>1, <2>2, <2>3, <2>4 DEF Still, Kept, Begun, Own
  <2>5. ASSUME NEW q \in Commands, Empty(q) \/ Fill(q) PROVE Kept(p)'
    <3> USE DEF Shape, Domains, Placed
    <3>1. /\ at[q] \in Kinds
          /\ \A f \in Names \ {File(q, at[q])} : dir'[f] = dir[f]
          /\ compose' = compose /\ pinned' = pinned
      BY <2>5 DEF Empty, Fill
    <3>2. CASE at[p] \in {"override", "up"}
      <4>1. File(p, "override") \in Names /\ File(p, "override")' = File(p, "override")
        BY <2>1, <2>3, <3>2 DEF File, Names, Kinds, Times
      <4>2. CASE q = p
        <5>1. at[p] = "override"
          BY <3>1, <3>2, <4>2 DEF Kinds
        <5>2. CASE Empty(q)
          BY <2>2, <4>1, <4>2, <5>1, <5>2 DEF Empty, Kept, Begun
        <5>3. CASE Fill(q)
          <6>1. dir[File(p, "override")] = Begun(p)
            BY <2>2, <4>2, <5>1, <5>3 DEF Fill, Kept
          <6>2. dir'[File(p, "override")] = Own(p)
            BY <4>1, <4>2, <5>1, <5>3, <6>1 DEF Fill, Begun, Own
          <6>3. at'[p] = "up"
            BY <4>2, <5>1, <5>3, AfterFacts DEF Fill, Proceed, Goto
          <6>4. compose[p] # "read"
            BY <5>1
          <6> QED BY <3>1, <4>1, <6>2, <6>3, <6>4 DEF Kept, Own
        <5> QED BY <2>5, <5>2, <5>3
      <4>3. CASE q # p
        <5>1. dir'[File(p, "override")] = dir[File(p, "override")]
          BY <1>2, <2>1, <3>1, <3>2, <4>1, <4>3, OthersOverride
        <5>2. at'[p] = at[p] /\ opened'[p] = opened[p]
          BY <2>5, <4>3 DEF Empty, Fill, Proceed, Goto, Over
        <5> QED BY <2>2, <3>1, <4>1, <5>1, <5>2 DEF Kept, Begun, Own
      <4> QED BY <4>2, <4>3
    <3>3. CASE at[p] \notin {"override", "up"}
      <4>1. at'[p] \notin {"override", "up"}
        BY <2>5, <3>3, AfterFacts DEF Empty, Fill, Proceed, Goto, Over, Kinds
      <4> QED BY <2>2, <3>1, <4>1 DEF Kept, Own
    <3> QED BY <3>2, <3>3
  <2>6. ASSUME NEW q \in Commands, ComposeReads(q) PROVE Kept(p)'
    <3>1. /\ dir' = dir /\ at' = at /\ opened' = opened /\ stamp' = stamp
          /\ q # p => compose'[p] = compose[p] /\ pinned'[p] = pinned[p]
          /\ q = p => at[p] = "up" /\ pinned'[p] = dir[File(p, "override")]
      BY <2>6 DEF ComposeReads, memory, Shape, Domains, Placed
    <3> QED BY <2>2, <3>1 DEF Kept, File, Begun, Own
  <2> QED BY <2>4, <2>5, <2>6, StillOr
<1> QED BY <1>1, <1>2

-------------------------------------------------------------------------------
(***************************************************************************)
(* Reports.  A rollback has its report when it is over, or has met with an *)
(* error of the disk, or with another of that second.                      *)
(***************************************************************************)
Twin(p) == \E q \in Commands \ {p} : stamp[q]["report"] = stamp[p]["report"]

Reported(p) ==
  /\ at[p] = "report" /\ opened[p] => dir[File(p, "report")] = Begun(p)
  /\ at[p] = "over" /\ stamp[p]["report"] # 0 => dir[File(p, "report")] = Own(p)

ReportKept(p) == ioError \/ Twin(p) \/ Reported(p)

LEMMA ReportStep ==
  ASSUME Shape, [Next]_vars, NEW p \in Commands, ReportKept(p)
  PROVE  ReportKept(p)'
<1>1. CASE Twin(p) /\ stamp[p]["report"] # 0
  <2>1. PICK q \in Commands \ {p} : stamp[q]["report"] = stamp[p]["report"]
    BY <1>1 DEF Twin
  <2>2. stamp'[q]["report"] = stamp[q]["report"] /\ stamp'[p]["report"] = stamp[p]["report"]
    BY <1>1, <2>1, StampStays DEF Kinds
  <2> QED BY <2>1, <2>2 DEF Twin, ReportKept
<1>2. CASE ~ Twin(p) \/ stamp[p]["report"] = 0
  <2> SUFFICES ASSUME ~ ioError' PROVE Reported(p)'
    BY DEF ReportKept
  <2>1. stamp[p]["report"] = 0 => at[p] # "report"
    BY DEF Shape, Stamped
  <2>2. stamp[p]["report"] # 0 => File(p, "report")' = File(p, "report")
    BY StampStays DEF Kinds, File
  <2>3. CASE Still(p)
    <3>1. Reported(p)
      BY <1>2, <2>1, <2>3 DEF Still, ReportKept, Reported
    <3>2. at'[p] = "over" /\ stamp'[p]["report"] # 0 => at[p] = "over" /\ stamp[p]["report"] # 0
      BY <2>3 DEF Still
    <3> QED BY <2>1, <2>2, <2>3, <3>1, <3>2 DEF Still, Reported, Begun, Own
  <2>4. ASSUME NEW q \in Commands, Empty(q) \/ Fill(q) PROVE Reported(p)'
    <3> USE DEF Shape, Domains, Placed
    <3>1. /\ at[q] \in Kinds
          /\ \A f \in Names \ {File(q, at[q])} : dir'[f] = dir[f]
          /\ stamp' = stamp /\ ioError' = ioError
          /\ Reported(p)
      BY <1>2, <2>1, <2>4 DEF Empty, Fill, memory, ReportKept, Reported
    <3>2. CASE q = p /\ at[p] = "report"
      <4>1. File(p, "report") \in Names
        BY <3>2 DEF File, Names, Kinds, Times, Stamped
      <4>2. CASE Empty(q)
        BY <2>2, <3>1, <3>2, <4>1, <4>2 DEF Empty, Reported, Begun, File
      <4>3. CASE Fill(q)
        <5>1. dir[File(p, "report")] = Begun(p)
          BY <3>1, <3>2, <4>3 DEF Fill, Reported
        <5>2. dir'[File(p, "report")] = Own(p)
          BY <3>2, <4>1, <4>3, <5>1 DEF Fill, Begun, Own
        <5>3. at'[p] = "over"
          BY <3>2, <4>3, AfterFacts DEF Fill, Proceed, Goto, Over
        <5> QED BY <3>1, <5>2, <5>3 DEF Reported, Own, File
      <4> QED BY <2>4, <4>2, <4>3
    <3>3. CASE q = p /\ at[p] # "report"
      <4>1. at[p] # "over" /\ (at'[p] = "over" => FALSE) /\ at'[p] # "report"
        BY <2>4, <3>1, <3>3, AfterFacts DEF Empty, Fill, Proceed, Goto, Over, Kinds
      <4> QED BY <4>1 DEF Reported
    <3>4. CASE q # p
      <4>1. at'[p] = at[p] /\ opened'[p] = opened[p]
        BY <2>4, <3>4 DEF Empty, Fill, Proceed, Goto, Over
      <4>2. CASE at[p] \in {"report", "over"} /\ stamp[p]["report"] # 0
        <5>1. File(p, "report") \in Names /\ File(q, at[q]) # File(p, "report")
          BY <1>2, <3>1, <3>4, <4>2 DEF File, Names, Kinds, Times, Twin
        <5> QED BY <3>1, <4>1, <5>1 DEF Reported, Begun, Own, File
      <4>3. CASE ~ (at[p] \in {"report", "over"} /\ stamp[p]["report"] # 0)
        BY <2>1, <3>1, <4>1, <4>3 DEF Reported
      <4> QED BY <4>2, <4>3
    <3> QED BY <3>2, <3>3, <3>4
  <2>5. ASSUME NEW q \in Commands, ComposeReads(q) PROVE Reported(p)'
    BY <1>2, <2>1, <2>5 DEF ComposeReads, memory, ReportKept, Reported, File, Begun, Own
  <2> QED BY <2>3, <2>4, <2>5, StillOr
<1> QED BY <1>1, <1>2
-------------------------------------------------------------------------------
(***************************************************************************)
(* Snapshots.  A pre-snapshot is of a deploy that captured it within the   *)
(* second of its name, and so is what was loaded from it.                  *)
(***************************************************************************)
OfItsSecond(t) ==
  LET q == dir[<<"pre", t>>].by IN
  q # Free => q \in Deploys /\ stamp[q]["pre"] = t

LoadedFrom(p) ==
  source[p] # Free =>
    /\ source[p] \in Deploys /\ follows[p] \in Deploys
    /\ stamp[source[p]]["pre"] # 0
    /\ stamp[source[p]]["pre"] = stamp[follows[p]]["pre"]

LEMMA SnapshotStep ==
  ASSUME Shape, [Next]_vars, NEW t \in Times, OfItsSecond(t)
  PROVE  OfItsSecond(t)'
<1> USE DEF Shape, Domains
<1> DEFINE f == <<"pre", t>>
<1>1. f \in Names
  BY DEF Names, Kinds
<1>2. ASSUME dir'[f] = dir[f] PROVE OfItsSecond(t)'
  <2>1. CASE dir[f].by = Free
    BY <1>2, <2>1 DEF OfItsSecond
  <2>2. CASE dir[f].by # Free
    <3>1. dir[f].by \in Deploys /\ stamp[dir[f].by]["pre"] = t
      BY <2>2 DEF OfItsSecond
    <3>2. stamp'[dir[f].by]["pre"] = t
      BY <3>1, StampStays DEF Commands, Kinds, Times
    <3> QED BY <1>2, <3>1, <3>2 DEF OfItsSecond
  <2> QED BY <2>1, <2>2
<1>3. ASSUME NEW q \in Commands, Empty(q) \/ Fill(q) PROVE OfItsSecond(t)'
  <2>1. CASE File(q, at[q]) = f
    <3>1. at[q] = "pre" /\ stamp[q]["pre"] = t /\ q \in Deploys
      BY <1>3, <2>1 DEF Empty, Fill, File, Placed, Kinds
    <3>2. stamp' = stamp
      BY <1>3 DEF Empty, Fill, memory
    <3>3. CASE Empty(q)
      BY <1>1, <2>1, <3>1, <3>2, <3>3 DEF Empty, OfItsSecond
    <3>4. CASE Fill(q)
      <4>1. PICK whole \in BOOLEAN :
              dir' = [dir EXCEPT ![File(q, at[q])] = [by |-> q, whole |-> whole]]
        BY <3>4 DEF Fill
      <4>2. dir'[f].by = q
        BY <1>1, <2>1, <4>1
      <4> QED BY <3>1, <3>2, <4>2 DEF OfItsSecond
    <3> QED BY <1>3, <3>3, <3>4
  <2>2. CASE File(q, at[q]) # f
    BY <1>1, <1>2, <1>3, <2>2 DEF Empty, Fill
  <2> QED BY <2>1, <2>2
<1>4. CASE dir' = dir
  BY <1>2, <1>4
<1> QED BY <1>3, <1>4
        DEF Next, Step, LoadSnapshot, LoadOlder, Acquire, Capture, EndsEarly, WriteFails,
            StartsRollback, UpStarts, UpReturns, ComposeReads, Crash, Tick, vars

LEMMA SourceStep ==
  ASSUME Shape, [Next]_vars, NEW p \in Commands, LoadedFrom(p), \A t \in Times : OfItsSecond(t)
  PROVE  LoadedFrom(p)'
<1> USE DEF Shape, Domains
<1>1. ASSUME source'[p] = source[p], follows'[p] = follows[p] PROVE LoadedFrom(p)'
  <2> SUFFICES ASSUME source[p] # Free PROVE LoadedFrom(p)'
    BY <1>1 DEF LoadedFrom
  <2>1. /\ source[p] \in Deploys /\ follows[p] \in Deploys
        /\ stamp'[source[p]]["pre"] = stamp[source[p]]["pre"]
        /\ stamp'[follows[p]]["pre"] = stamp[follows[p]]["pre"]
    BY StampStays DEF LoadedFrom, Commands, Kinds
  <2> QED BY <1>1, <2>1 DEF LoadedFrom
<1>2. ASSUME NEW q \in Commands, NEW d \in Deploys, LoadSnapshot(q, d) PROVE LoadedFrom(p)'
  <2>1. CASE q # p
    BY <1>1, <1>2, <2>1 DEF LoadSnapshot
  <2>2. CASE q = p
    <3>1. d \in Commands /\ stamp[d]["pre"] \in Times
      <4>1. d \in Commands /\ failed[d]
        BY <1>2 DEF LoadSnapshot, Commands
      <4>2. stamp[d]["pre"] # 0 /\ stamp[d]["pre"] \in 0..MaxTime
        BY <4>1 DEF Stamped, Kinds
      <4> QED BY <4>1, <4>2, FilesAssumption DEF Times
    <3>2. /\ follows'[p] = d /\ stamp' = stamp
          /\ source'[p] \in {source[p], dir[<<"pre", stamp[d]["pre"]>>].by}
      BY <1>2, <2>2 DEF LoadSnapshot, File
    <3>3. source[p] = Free
      BY <1>2, <2>2 DEF LoadSnapshot, Placed
    <3> QED BY <3>1, <3>2, <3>3 DEF LoadedFrom, OfItsSecond, Times
  <2> QED BY <2>1, <2>2
<1>3. CASE UNCHANGED <<follows, source>>
  BY <1>1, <1>3
<1> QED BY <1>2, <1>3
        DEF Next, Step, LoadOlder, Acquire, Capture, EndsEarly, Empty, Fill, WriteFails,
            StartsRollback, UpStarts, UpReturns, ComposeReads, Crash, Tick, memory, vars

-------------------------------------------------------------------------------
FilesInv ==
  /\ Shape
  /\ \A p \in Commands : OverrideKept(p) /\ ReportKept(p) /\ LoadedFrom(p)
  /\ \A t \in Times : OfItsSecond(t)

LEMMA FilesInit == Init => FilesInv
<1> SUFFICES ASSUME Init PROVE FilesInv
  OBVIOUS
<1>1. ASSUME NEW p \in Commands PROVE OverrideKept(p) /\ ReportKept(p) /\ LoadedFrom(p)
  BY DEF Init, OverrideKept, Kept, ReportKept, Reported, LoadedFrom
<1>2. ASSUME NEW t \in Times PROVE OfItsSecond(t)
  <2>1. <<"pre", t>> \in Names
    BY DEF Names, Kinds
  <2> QED BY <2>1 DEF Init, OfItsSecond, NoFile
<1> QED BY <1>1, <1>2, ShapeInit DEF FilesInv

LEMMA FilesStep == FilesInv /\ [Next]_vars => FilesInv'
<1> SUFFICES ASSUME FilesInv, [Next]_vars PROVE FilesInv'
  OBVIOUS
<1>1. Shape'
  BY ShapeStep DEF FilesInv
<1>2. ASSUME NEW p \in Commands PROVE OverrideKept(p)' /\ ReportKept(p)' /\ LoadedFrom(p)'
  BY OverrideStep, ReportStep, SourceStep DEF FilesInv
<1>3. ASSUME NEW t \in Times PROVE OfItsSecond(t)'
  BY SnapshotStep DEF FilesInv
<1> QED BY <1>1, <1>2, <1>3 DEF FilesInv, Times

LEMMA FilesInvariant == Spec => []FilesInv
BY FilesInit, FilesStep, PTL DEF Spec

\* Every variable stays in its domain, and what is written has a name.
THEOREM FilesTypeCorrect == Spec => []TypeOK
<1>1. FilesInv => TypeOK
  <2> SUFFICES ASSUME FilesInv PROVE TypeOK
    OBVIOUS
  <2>1. \A p \in Commands : at[p] \in Kinds => File(p, at[p]) \in Names
    BY NameOf DEF FilesInv
  <2>2. source \in [Commands -> Deploys \cup {Free}]
    BY DEF FilesInv, Shape, Domains, LoadedFrom
  <2> QED BY <2>1, <2>2 DEF FilesInv, Shape, Domains, TypeOK
<1> QED BY <1>1, FilesInvariant, PTL

(***************************************************************************)
(* The `up` of a rollback reads the override of its own c2quay, whatever   *)
(* the clock does and whatever other commands are run, killed or refused:  *)
(* only another environment's rollback of the same second may be in the    *)
(* way.                                                                    *)
(***************************************************************************)
THEOREM OverrideCorrect == Spec => []OverrideIsOwn
<1>1. FilesInv => OverrideIsOwn
  BY DEF FilesInv, OverrideKept, Shared, Kept, OverrideIsOwn
<1> QED BY <1>1, FilesInvariant, PTL

\* A rollback that came to its end has left its report.
THEOREM AuditTrailCorrect == Spec => []AuditTrail
<1>1. FilesInv => AuditTrail
  BY DEF FilesInv, ReportKept, Twin, Reported, AuditTrail
<1> QED BY <1>1, FilesInvariant, PTL

\* What is loaded from the file a hint names is of the second it names.
THEOREM HintLeadsBackCorrect == Spec => []HintLeadsBack
<1>1. FilesInv => HintLeadsBack
  BY DEF FilesInv, LoadedFrom, HintLeadsBack
<1> QED BY <1>1, FilesInvariant, PTL
===============================================================================
