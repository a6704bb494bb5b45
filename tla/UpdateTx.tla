------------------------------ MODULE UpdateTx ------------------------------
(* Updates of an installation by latest/airymaxrt: a release is put in place *)
(* under releases/, marked complete, and made current by one symbolic link;  *)
(* an intent file lets a later start finish an interrupted update, a lock    *)
(* directory keeps processes apart. A process may die between any two steps, *)
(* in the middle of an rm -rf too. The layout has been migrated already, so  *)
(* migrate_layout returns at its first line. Time is the number of releases  *)
(* finished so far.                                                          *)
EXTENDS Naturals

CONSTANTS Procs,       \* running launchers, each with a pid of its own
          Artifacts,   \* what may be installed: a version and its sha256
          First,       \* the artifact of the installation at the start
          MaxCopies,   \* bound: releases of one artifact beside the plain one
          MaxOps,      \* bound: updates and rollbacks begun
          MaxFaults    \* bound: deaths, refused links and failed writes

ASSUME UpdateAssumption ==
  First \in Artifacts /\ MaxCopies \in Nat /\ MaxOps \in Nat /\ MaxFaults \in Nat

\* releases/<id>, and releases/<id>-<time> when <id> is taken
Name == [art : Artifacts, copy : 0..MaxCopies]
Plain(a) == [art |-> a, copy |-> 0]
None == [art |-> "none", copy |-> 0]

VARIABLES rels,        \* directories under releases/
          complete,    \* those with the file .complete
          whole,       \* those of which nothing is missing
          age,         \* modification time of a directory
          current,     \* where the link points
          intent,      \* run/update.intent
          env,         \* what config/install.env says is installed
          lock,        \* run/update.lock and the pid in it
          pc, art, rel, doomed, next, \* of a process; next: after an rm -rf
          prev,        \* prev_rel of an update, and the release a rollback leaves
          writing      \* the published release that is being written to
VARIABLES alone,       \* history: no two were ever between lock and release
          marked,      \* history: every .complete that was due was written
          ops, faults, clock

disk   == <<rels, complete, whole, age, current, intent, env>>
local  == <<art, rel, doomed, next, prev, writing>>
hist   == <<alone, marked>>
bounds == <<hist, ops, faults, clock>>
vars   == <<disk, lock, pc, local, bounds>>

\* Free; or a directory without a pid, with one that no process has, with one
\* that belongs to a process that is no launcher, or with that of a launcher
Locks == {"free", "empty", "dead", "reused"} \cup Procs

\* Steps between the lock and its release
Held == {"recover", "replay", "settle", "place", "note", "check", "finish", "commit",
         "clear", "config", "rewrite", "rewritten", "prune", "pick", "swap", "undoEnv", "undoClear", "leave",
         "rm", "unlock"}
Label == Held \cup {"idle", "mkdir", "look", "pid", "stale", "mkdir2"}

TypeOK ==
  /\ rels \subseteq Name /\ complete \subseteq rels /\ whole \subseteq rels
  /\ age \in [Name -> 0..clock] /\ current \in Name
  /\ intent \in {None} \cup {Plain(a) : a \in Artifacts} /\ env \in Artifacts
  /\ lock \in Locks /\ pc \in [Procs -> Label]
  /\ art \in [Procs -> Artifacts \cup {"rollback", "boot"}]
  /\ rel \in [Procs -> Name \cup {None}] /\ prev \in [Procs -> Name]
  /\ doomed \in [Procs -> SUBSET Name] /\ next \in [Procs -> {"settle", "undoClear", "unlock"}]
  /\ writing \in [Procs -> Name \cup {None}] /\ alone \in BOOLEAN /\ marked \in BOOLEAN
  /\ ops \in 0..MaxOps /\ faults \in 0..MaxFaults /\ clock \in Nat

Init ==
  /\ rels = {Plain(First)} /\ complete = rels /\ whole = rels
  /\ age = [n \in Name |-> 0] /\ current = Plain(First) /\ intent = None /\ env = First
  /\ lock = "free" /\ pc = [p \in Procs |-> "idle"]
  /\ art = [p \in Procs |-> "boot"] /\ rel = [p \in Procs |-> None]
  /\ prev = [p \in Procs |-> Plain(First)]
  /\ doomed = [p \in Procs |-> {}] /\ next = [p \in Procs |-> "unlock"]
  /\ writing = [p \in Procs |-> None] /\ alone = TRUE /\ marked = TRUE /\ ops = 0 /\ faults = 0 /\ clock = 0

Go(p, l) == pc' = [pc EXCEPT ![p] = l]
At(p, l) == pc[p] = l
Fault    == faults < MaxFaults /\ faults' = faults + 1
Remove(p, S, l) ==
  Go(p, "rm") /\ doomed' = [doomed EXCEPT ![p] = S] /\ next' = [next EXCEPT ![p] = l]

-----------------------------------------------------------------------------
\* airymaxrt update, airymaxrt update --rollback, and any other start
Begin(p) ==
  /\ At(p, "idle") /\ ops < MaxOps /\ ops' = ops + 1
  /\ \E a \in Artifacts \cup {"rollback"} : art' = [art EXCEPT ![p] = a]
  /\ rel' = [rel EXCEPT ![p] = None] /\ Go(p, "mkdir")
  /\ UNCHANGED <<disk, lock, doomed, next, prev, writing, hist, faults, clock>>

Boot(p) ==
  /\ At(p, "idle") /\ intent # None
  /\ art' = [art EXCEPT ![p] = "boot"] /\ Go(p, "mkdir")
  /\ UNCHANGED <<disk, lock, rel, doomed, next, prev, writing, bounds>>

\* upd_lock_acq: mkdir, or else a look at the pid of the owner
TakeLock(p) ==
  /\ At(p, "mkdir")
  /\ \/ lock = "free" /\ lock' = "empty" /\ Go(p, "pid")
     \/ lock # "free" /\ Go(p, "look") /\ UNCHANGED lock
  /\ UNCHANGED <<disk, local, bounds>>

\* The lock is taken for stale if there is no pid to read by now, or no process
\* with it; any process with it is taken for the owner
Look(p) ==
  /\ At(p, "look") /\ Go(p, IF lock \in {"free", "empty", "dead"} THEN "stale" ELSE "idle")
  /\ UNCHANGED <<disk, lock, local, bounds>>

\* (mutant: the directory is not removed)
LeftThere(l) == l
Broken(l)    == "free"

BreakLock(p) ==
  /\ At(p, "stale") /\ lock' = Broken(lock) /\ Go(p, "mkdir2")
  /\ UNCHANGED <<disk, local, bounds>>

RetakeLock(p) ==
  /\ At(p, "mkdir2")
  /\ \/ lock = "free" /\ lock' = "empty" /\ Go(p, "pid")
     \/ lock # "free" /\ Go(p, "idle") /\ UNCHANGED lock
  /\ UNCHANGED <<disk, local, bounds>>

\* The pid goes to the directory that is there, whoever made it
WritePid(p) ==
  /\ At(p, "pid") /\ lock' = (IF lock = "free" THEN "free" ELSE p) /\ Go(p, "recover")
  /\ alone' = (alone /\ \A q \in Procs \ {p} : pc[q] \notin Held)
  /\ UNCHANGED <<disk, local, marked, ops, faults, clock>>

Unlock(p) ==
  /\ At(p, "unlock") /\ lock' = "free" /\ Go(p, "idle")
  /\ UNCHANGED <<disk, local, bounds>>

\* The system gives the pid of a dead owner to some process, or that one ends
Reuse ==
  /\ \/ lock = "dead" /\ lock' = "reused"
     \/ lock = "reused" /\ lock' = "dead"
  /\ UNCHANGED <<disk, pc, local, bounds>>

-----------------------------------------------------------------------------
Present(n)   == n \in rels

\* rel_commit: the link to an existing directory is replaced, or refused;
\* ln -sfn is one step, as that of GNU is
Link(n)   == Present(n) /\ current' = n /\ UNCHANGED faults
Refuse(n) == /\ \/ ~Present(n) /\ UNCHANGED faults
                \/ Fault
             /\ UNCHANGED current

\* upd_recover: an intent with a complete release is committed and noted in
\* install.env (mutant: the release need not be complete)
AnyRelease(n)  == n \in rels
Committable(n) == n \in complete

AfterRecovery(p) ==
  CASE art[p] = "boot" -> "unlock" [] art[p] = "rollback" -> "pick" [] OTHER -> "place"

Recover(p) ==
  /\ At(p, "recover")
  /\ \/ /\ intent = None /\ Go(p, AfterRecovery(p)) /\ UNCHANGED <<current, doomed, next, faults>>
     \/ /\ intent # None /\ Committable(intent)
        /\ \/ Link(intent) /\ Go(p, "replay")
           \/ Refuse(intent) /\ Go(p, "unlock")
        /\ UNCHANGED <<doomed, next>>
     \/ /\ intent \in rels /\ ~Committable(intent)
        /\ Remove(p, {intent}, "settle") /\ UNCHANGED <<current, faults>>
     \/ /\ intent \notin rels \cup {None}
        /\ Go(p, "settle") /\ UNCHANGED <<current, doomed, next, faults>>
  /\ UNCHANGED <<rels, complete, whole, age, intent, env, lock, art, rel, prev, writing, hist, ops, clock>>

\* upd_env_sync: install.env is left alone if release.env is missing
Sync(n) == \/ n \in rels /\ env' = n.art
           \/ n \notin whole \cap complete /\ UNCHANGED env

Replay(p) ==
  /\ At(p, "replay") /\ Sync(intent) /\ Go(p, "settle")
  /\ UNCHANGED <<rels, complete, whole, age, current, intent, lock, local, bounds>>

\* (mutant: the intent is kept)
Kept(i)    == i
Cleared(i) == None

Settle(p) ==
  /\ At(p, "settle") /\ intent' = Cleared(intent) /\ Go(p, AfterRecovery(p))
  /\ UNCHANGED <<rels, complete, whole, age, current, env, lock, local, bounds>>

-----------------------------------------------------------------------------
(* apply_package *)

\* The package is checked and unpacked aside, then renamed to its place. Its
\* directory has the time it was packed. A bad package is refused.
Place(p) ==
  /\ At(p, "place")
  /\ \/ Go(p, "unlock") /\ UNCHANGED <<rels, whole, age, rel>>
     \/ \E n \in Name, t \in 0..clock :
          /\ n.art = art[p] /\ n \notin rels /\ (Plain(art[p]) \notin rels => n.copy = 0)
          /\ rels' = rels \cup {n} /\ whole' = whole \cup {n} /\ age' = [age EXCEPT ![n] = t]
          /\ rel' = [rel EXCEPT ![p] = n] /\ Go(p, "note")
  /\ UNCHANGED <<complete, current, intent, env, lock, art, doomed, next, prev, writing, bounds>>

\* upd_intent_set is given the plain id, also when the release got another
Note(p) ==
  /\ At(p, "note") /\ intent' = Plain(art[p]) /\ Go(p, "check")
  /\ UNCHANGED <<rels, complete, whole, age, current, env, lock, local, bounds>>

\* A release without its key files is removed, and the intent with it
Check(p) ==
  /\ At(p, "check")
  /\ \/ rel[p] \in whole /\ Go(p, "finish") /\ UNCHANGED <<doomed, next>>
     \/ Remove(p, {rel[p]}, "undoClear")
  /\ UNCHANGED <<disk, lock, art, rel, prev, writing, bounds>>

\* release.env, .complete and prev_rel. Nobody looks whether the files could
\* be written.
Finish(p) ==
  /\ At(p, "finish") /\ Go(p, "commit") /\ prev' = [prev EXCEPT ![p] = current]
  /\ \/ /\ Present(rel[p]) /\ clock' = clock + 1 /\ age' = [age EXCEPT ![rel[p]] = clock + 1]
        /\ \/ complete' = complete \cup {rel[p]} /\ UNCHANGED <<whole, marked, faults>>
           \/ complete' = complete \cup {rel[p]} /\ UNCHANGED marked
                /\ whole' = whole \ {rel[p]} /\ Fault
           \/ UNCHANGED complete /\ marked' = FALSE
                /\ whole' \in {whole, whole \ {rel[p]}} /\ Fault
     \/ ~Present(rel[p]) /\ UNCHANGED <<complete, whole, age, clock, marked, faults>>
  /\ UNCHANGED <<rels, current, intent, env, lock, art, rel, doomed, next, writing, alone, ops>>

Commit(p) ==
  /\ At(p, "commit")
  /\ \/ Link(rel[p]) /\ Go(p, "clear") /\ UNCHANGED <<doomed, next>>
     \/ Refuse(rel[p]) /\ Remove(p, {rel[p]}, "undoClear")
  /\ UNCHANGED <<rels, complete, whole, age, intent, env, lock, art, rel, prev, writing, hist, ops, clock>>

Clear(p) ==
  /\ At(p, "clear") /\ intent' = None /\ Go(p, "config")
  /\ UNCHANGED <<rels, complete, whole, age, current, env, lock, local, bounds>>

\* Templates and install.env
Config(p) ==
  /\ At(p, "config") /\ env' = art[p] /\ Go(p, "rewrite")
  /\ UNCHANGED <<rels, complete, whole, age, current, intent, lock, local, bounds>>

\* agentrt-env.sh and the launcher itself, where they need it, are written in
\* place, through the links to what is current
Rewrite(p) ==
  /\ At(p, "rewrite")
  /\ \/ Go(p, "prune") /\ UNCHANGED writing
     \/ current \in rels /\ writing' = [writing EXCEPT ![p] = current] /\ Go(p, "rewritten")
  /\ UNCHANGED <<disk, lock, art, rel, doomed, next, prev, bounds>>

\* A copy that failed leaves a part of the file, and is only warned of
Rewritten(p) ==
  /\ At(p, "rewritten") /\ writing' = [writing EXCEPT ![p] = None] /\ Go(p, "prune")
  /\ \/ UNCHANGED <<whole, faults>>
     \/ whole' = whole \ {writing[p]} /\ Fault
  /\ UNCHANGED <<rels, complete, age, current, intent, env, lock, art, rel, doomed, next, prev,
                 hist, ops, clock>>

\* rel_prune keeps the current release and the newest other one, which need
\* not be complete
Newest(S) == {n \in S : \A m \in S : age[m] <= age[n]}
\* (mutant: the current one is counted among the others)
Whichever(c) == rels
Others(c)    == rels \ {c}

Prune(p) ==
  /\ At(p, "prune")
  /\ \/ Others(current) = {} /\ Go(p, "unlock") /\ UNCHANGED <<doomed, next>>
     \/ \E n \in Newest(Others(current)) : Remove(p, Others(current) \ {n}, "unlock")
  /\ UNCHANGED <<disk, lock, art, rel, prev, writing, bounds>>

-----------------------------------------------------------------------------
(* The branch --rollback *)

\* rel_prev: the newest other release with a .complete
Pick(p) ==
  /\ At(p, "pick")
  /\ \/ Others(current) \cap complete = {} /\ Go(p, "unlock") /\ UNCHANGED <<rel, prev>>
     \/ \E n \in Newest(Others(current) \cap complete) :
          rel' = [rel EXCEPT ![p] = n] /\ prev' = [prev EXCEPT ![p] = current] /\ Go(p, "swap")
  /\ UNCHANGED <<disk, lock, art, doomed, next, writing, bounds>>

Swap(p) ==
  /\ At(p, "swap")
  /\ \/ Link(rel[p]) /\ Go(p, "undoEnv")
     \/ Refuse(rel[p]) /\ Go(p, "unlock")
  /\ UNCHANGED <<rels, complete, whole, age, intent, env, lock, local, hist, ops, clock>>

UndoEnv(p) ==
  /\ At(p, "undoEnv") /\ Sync(rel[p]) /\ Go(p, "leave")
  /\ UNCHANGED <<rels, complete, whole, age, current, intent, lock, local, bounds>>

\* The intent is cleared; the release that was left is removed
Leave(p) ==
  /\ At(p, "leave") /\ intent' = None /\ Remove(p, {prev[p]}, "unlock")
  /\ UNCHANGED <<rels, complete, whole, age, current, env, lock, art, rel, prev, writing, bounds>>

UndoClear(p) ==
  /\ At(p, "undoClear") /\ intent' = None /\ Go(p, "unlock")
  /\ UNCHANGED <<rels, complete, whole, age, current, env, lock, local, bounds>>

-----------------------------------------------------------------------------
\* rm -rf of the doomed ones: first some of the files, .complete or not among
\* them, then the rest; the directory becomes one changed just now if what is
\* taken is not deeper in it
Gnaw(p) ==
  /\ At(p, "rm")
  /\ \E n \in doomed[p] :
       /\ \/ n \in whole /\ UNCHANGED complete
          \/ n \in complete /\ complete' = complete \ {n}
       /\ whole' = whole \ {n}
       /\ age' \in {age, [age EXCEPT ![n] = clock]}
  /\ UNCHANGED <<rels, current, intent, env, lock, pc, local, bounds>>

Gone(p) ==
  /\ At(p, "rm")
  /\ \E n \in doomed[p] \ whole :
       /\ rels' = rels \ {n} /\ complete' = complete \ {n}
       /\ doomed' = [doomed EXCEPT ![p] = @ \ {n}]
  /\ UNCHANGED <<whole, age, current, intent, env, lock, pc, art, rel, next, prev, writing, bounds>>

Removed(p) ==
  /\ At(p, "rm") /\ doomed[p] = {} /\ Go(p, next[p])
  /\ UNCHANGED <<disk, lock, local, bounds>>

\* kill, power loss, or Ctrl+C: update runs before any trap is set
Die(p) ==
  /\ ~At(p, "idle") /\ Fault /\ Go(p, "idle") /\ lock' = (IF lock = p THEN "dead" ELSE lock)
  /\ whole' = whole \ {writing[p]} /\ writing' = [writing EXCEPT ![p] = None]
  /\ UNCHANGED <<rels, complete, age, current, intent, env, art, rel, doomed, next, prev,
                 hist, ops, clock>>

Step(p) ==
  \/ TakeLock(p) \/ Look(p) \/ BreakLock(p) \/ RetakeLock(p) \/ WritePid(p) \/ Unlock(p)
  \/ Recover(p) \/ Replay(p) \/ Settle(p)
  \/ Place(p) \/ Note(p) \/ Check(p) \/ Finish(p) \/ Commit(p) \/ Clear(p)
  \/ Config(p) \/ Rewrite(p) \/ Rewritten(p) \/ Prune(p)
  \/ Pick(p) \/ Swap(p) \/ UndoEnv(p) \/ Leave(p) \/ UndoClear(p)
  \/ Gnaw(p) \/ Gone(p) \/ Removed(p)
\* Nobody updates any more
Rest == (\A p \in Procs : At(p, "idle")) /\ UNCHANGED vars

Next == Rest \/ Reuse \/ \E p \in Procs : Begin(p) \/ Boot(p) \/ Step(p) \/ Die(p)

Spec == Init /\ [][Next]_vars
\* A launcher that runs goes on, and airymaxrt is started again while an
\* update is pending
FairSpec == Spec /\ \A p \in Procs : WF_vars(Step(p)) /\ WF_vars(Boot(p))

-----------------------------------------------------------------------------
\* The lock has kept the launchers apart and every mark could be written.
Sound == alone /\ marked

\* The link always names a release that exists and is marked complete, whenever
\* the launchers die, as long as the lock has kept them apart and no write of a
\* mark failed.
CurrentIsComplete == Sound => current \in complete

\* A pending update is finished or dropped by a later start, also when the
\* lock of a launcher that died is in its way, unless the pid in that lock
\* comes to another process.
IntentResolved == intent # None ~> intent = None \/ lock = "reused"

\* Documented at line 788 ("the link current is switched atomically"), as far
\* as the lock excludes and the marks are written: the launchers implement the
\* promise of Releases, whenever they die: a release becomes ready once, the
\* link goes from a ready one to a ready one in a single step, and what it
\* names is never withdrawn.
Promise     == INSTANCE Releases
               WITH Release <- Name, Initial <- Plain(First), ready <- complete, kept <- Sound
PromiseSpec == Promise!Spec

\* Documented at lines 789-790 ("the whole flow is mutually excluded by mkdir").
Mutex == alone

\* Documented at line 790 ("replay of the intent covers the whole flow"): at
\* rest and with nothing pending, install.env names the current release.
EnvIsCurrent ==
  (\A p \in Procs : At(p, "idle")) /\ intent = None => env = current.art

\* Documented by README.md:311 ("--rollback: return to the previously
\* installed version"): after an update the release before it can be had back.
RollbackKept == \A p \in Procs :
  At(p, "unlock") /\ art[p] \in Artifacts /\ rel[p] = current
    => prev[p] \in complete

\* Documented at line 789 ("a published version is never changed in place"):
\* nobody writes to what is marked complete.
NeverInPlace == \A p \in Procs : writing[p] \notin complete

\* Documented by what recovery says when it removes an incomplete release
\* (line 966, "the current version is not affected"): what is current is there.
CurrentUnaffected == alone => current \in rels

\* Documented at lines 790 and 804 ("replay of the intent", "the process with
\* the lock is gone"): a pending update is finished or dropped by a later start.
IntentReplayed == intent # None ~> intent = None
=============================================================================
