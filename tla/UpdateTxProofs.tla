---------------------------- MODULE UpdateTxProofs ----------------------------
(* Theorems about UpdateTx, for every set of launchers, artifacts and every  *)
(* number of operations and deaths: as long as the lock keeps the launchers  *)
(* apart and marks can be written, the link names a complete release. The    *)
(* argument follows the one launcher between lock and release: what it has   *)
(* marked for removal is not current, and what it is about to make current   *)
(* is complete. From there the launchers implement Releases, each step a     *)
(* step of it or a stutter.                                                  *)
EXTENDS UpdateTx, TLAPS

\* The two halves of TypeOK
Numbers == /\ age \in [Name -> 0..clock] /\ clock \in Nat
           /\ ops \in 0..MaxOps /\ faults \in 0..MaxFaults
Shapes ==
  /\ rels \subseteq Name /\ complete \subseteq rels /\ whole \subseteq rels /\ current \in Name
  /\ intent \in {None} \cup {Plain(a) : a \in Artifacts} /\ env \in Artifacts
  /\ lock \in Locks /\ pc \in [Procs -> Label]
  /\ art \in [Procs -> Artifacts \cup {"rollback", "boot"}]
  /\ rel \in [Procs -> Name \cup {None}] /\ prev \in [Procs -> Name]
  /\ doomed \in [Procs -> SUBSET Name] /\ next \in [Procs -> {"settle", "undoClear", "unlock"}]
  /\ writing \in [Procs -> Name \cup {None}] /\ alone \in BOOLEAN /\ marked \in BOOLEAN

\* A launcher that installs has an artifact; one that names a release has one.
Named(p) ==
  /\ pc[p] \in {"place", "note", "check", "finish", "commit", "clear", "config"}
       => art[p] \in Artifacts
  /\ pc[p] \in {"note", "check", "finish", "commit", "swap", "undoEnv", "leave"} => rel[p] \in Name

\* At most one launcher is between lock and release.
OneInside == alone => \A p, q \in Procs : pc[p] \in Held /\ pc[q] \in Held => p = q

\* What a launcher removes or may come to remove is not current, and what it
\* is about to make current is complete, if it is there at all.
Careful(p) ==
  /\ pc[p] = "rm" => current \notin doomed[p]
  /\ pc[p] \in {"note", "check", "finish", "commit"} => rel[p] # current
  /\ pc[p] = "commit" /\ rel[p] \in rels => rel[p] \in complete
  /\ pc[p] = "swap" => rel[p] \in complete /\ rel[p] # current /\ prev[p] = current
  /\ pc[p] \in {"undoEnv", "leave"} => prev[p] # current

IInv == /\ Numbers /\ Shapes /\ OneInside /\ CurrentIsComplete
        /\ \A p \in Procs : Named(p)
        /\ Sound => \A p \in Procs : Careful(p)

-----------------------------------------------------------------------------
LEMMA TypeParts == Numbers /\ Shapes => TypeOK
BY Zenon DEF Numbers, Shapes, TypeOK

LEMMA PlainIsName == \A a \in Artifacts : Plain(a) \in Name
BY UpdateAssumption DEF Plain, Name

LEMMA ArtOfName == \A n \in Name : n.art \in Artifacts
BY DEF Name

LEMMA InitHolds == Init => IInv
<1> SUFFICES ASSUME Init PROVE IInv
  OBVIOUS
<1>1. Plain(First) \in Name /\ First \in Artifacts
  BY PlainIsName, UpdateAssumption
<1>2. Numbers
  BY UpdateAssumption DEF Init, Numbers
<1>3. Shapes
  BY <1>1 DEF Init, Shapes, Locks, Label
<1>4. OneInside /\ CurrentIsComplete
  BY DEF Init, OneInside, CurrentIsComplete, Sound, Held
<1>5. \A p \in Procs : Named(p) /\ Careful(p)
  BY DEF Init, Named, Careful
<1>6. QED  BY <1>2, <1>3, <1>4, <1>5 DEF IInv

\* A step of a launcher that is between lock and release: while it is alone
\* there, only its own obligations are at stake, and only while what is due
\* has been marked.
LEMMA InsideMarks ==
  ASSUME IInv, NEW p \in Procs, NEW l \in Label, pc[p] \in Held, pc' = [pc EXCEPT ![p] = l],
         alone' = alone, Sound' => Sound, Numbers', Shapes', Named(p)',
         \A q \in Procs \ {p} : art'[q] = art[q] /\ rel'[q] = rel[q],
         Sound' => current' \in complete' /\ Careful(p)'
  PROVE  IInv'
<1>1. \A q \in Procs \ {p} : pc'[q] = pc[q]
  BY DEF IInv, Shapes
<1>2. alone => \A q \in Procs \ {p} : pc'[q] \notin Held
  BY <1>1 DEF IInv, OneInside
<1>3. OneInside'
  BY <1>2 DEF OneInside
<1>4. \A q \in Procs : Named(q)'
  BY <1>1 DEF IInv, Named
<1>5. alone => \A q \in Procs \ {p} : Careful(q)'
  BY <1>2 DEF Careful, Held
<1>6. Sound' => alone
  BY DEF Sound
<1>7. CurrentIsComplete'
  BY DEF CurrentIsComplete
<1>8. QED  BY <1>3, <1>4, <1>5, <1>6, <1>7 DEF IInv

\* The same for a step that marks nothing
LEMMA Inside ==
  ASSUME IInv, NEW p \in Procs, NEW l \in Label, pc[p] \in Held, pc' = [pc EXCEPT ![p] = l],
         UNCHANGED hist, Numbers', Shapes', Named(p)',
         \A q \in Procs \ {p} : art'[q] = art[q] /\ rel'[q] = rel[q],
         Sound => current' \in complete' /\ Careful(p)'
  PROVE  IInv'
<1>1. alone' = alone /\ (Sound' => Sound)
  BY DEF hist, Sound
<1>2. QED  BY <1>1, InsideMarks

\* A step that leaves the releases alone and leads out of, or just into, the
\* part between lock and release.
Lobby == {"idle", "mkdir", "look", "pid", "stale", "mkdir2", "recover"}

LEMMA Outside ==
  ASSUME IInv, NEW p \in Procs, NEW l \in Lobby, pc' = [pc EXCEPT ![p] = l],
         Numbers', Shapes', UNCHANGED <<rels, complete, current, marked>>,
         \A q \in Procs \ {p} : /\ art'[q] = art[q] /\ rel'[q] = rel[q]
                                /\ prev'[q] = prev[q] /\ doomed'[q] = doomed[q],
         alone' => alone /\ (l = "recover" => \A q \in Procs \ {p} : pc[q] \notin Held)
  PROVE  IInv'
<1>1. (\A q \in Procs \ {p} : pc'[q] = pc[q]) /\ pc'[p] = l
  BY DEF IInv, Shapes
<1>2. OneInside'
  BY <1>1 DEF IInv, OneInside, Lobby, Held
<1>3. \A q \in Procs : Named(q)'
  BY <1>1 DEF IInv, Named, Lobby
<1>4. Sound' => Sound
  BY DEF Sound
<1>5. Sound' => \A q \in Procs : Careful(q)'
  BY <1>1, <1>4 DEF IInv, Careful, Lobby
<1>6. CurrentIsComplete'
  BY <1>4 DEF IInv, CurrentIsComplete
<1>7. QED  BY <1>2, <1>3, <1>5, <1>6 DEF IInv

-----------------------------------------------------------------------------
(* Outside the lock: one lemma per action *)

LEMMA BeginStep == ASSUME IInv, NEW p \in Procs, Begin(p) PROVE IInv'
<1>1. /\ pc' = [pc EXCEPT ![p] = "mkdir"] /\ rel' = [rel EXCEPT ![p] = None]
      /\ UNCHANGED <<disk, lock, doomed, next, prev, writing, hist, faults, clock>>
      /\ ops < MaxOps /\ ops' = ops + 1
  BY DEF Begin, Go
<1>2. PICK a \in Artifacts \cup {"rollback"} : art' = [art EXCEPT ![p] = a]
  BY DEF Begin
<1>3. Numbers'
  BY <1>1, UpdateAssumption DEF IInv, Numbers, disk
<1>4. Shapes'
  BY <1>1, <1>2 DEF IInv, Shapes, Label, disk, hist
<1>5. \A q \in Procs \ {p} : art'[q] = art[q] /\ rel'[q] = rel[q]
                              /\ prev'[q] = prev[q] /\ doomed'[q] = doomed[q]
  BY <1>1, <1>2 DEF IInv, Shapes
<1>6. QED  BY <1>1, <1>3, <1>4, <1>5, Outside DEF Lobby, disk, hist

LEMMA BootStep == ASSUME IInv, NEW p \in Procs, Boot(p) PROVE IInv'
<1>1. /\ pc' = [pc EXCEPT ![p] = "mkdir"] /\ art' = [art EXCEPT ![p] = "boot"]
      /\ UNCHANGED <<disk, lock, rel, doomed, next, prev, writing, bounds>>
  BY DEF Boot, Go
<1>2. Numbers'
  BY <1>1 DEF IInv, Numbers, disk, bounds
<1>3. Shapes'
  BY <1>1 DEF IInv, Shapes, Label, disk, bounds, hist
<1>4. \A q \in Procs \ {p} : art'[q] = art[q] /\ rel'[q] = rel[q]
                              /\ prev'[q] = prev[q] /\ doomed'[q] = doomed[q]
  BY <1>1 DEF IInv, Shapes
<1>5. QED  BY <1>1, <1>2, <1>3, <1>4, Outside DEF Lobby, disk, bounds, hist

\* The steps at the lock itself touch the lock and the launcher's place.
LEMMA LockStep ==
  ASSUME IInv, NEW p \in Procs, NEW l \in Lobby \ {"recover"}, pc' = [pc EXCEPT ![p] = l],
         lock' \in Locks, UNCHANGED <<disk, local, bounds>>
  PROVE  IInv'
<1>1. Numbers'
  BY DEF IInv, Numbers, disk, bounds
<1>2. Shapes'
  BY DEF IInv, Shapes, Label, Lobby, disk, local, bounds, hist
<1>3. QED  BY <1>1, <1>2, Outside DEF disk, local, bounds, hist

LEMMA TryStep ==
  ASSUME IInv, NEW p \in Procs,
         TakeLock(p) \/ Look(p) \/ BreakLock(p) \/ RetakeLock(p) \/ Unlock(p)
  PROVE  IInv'
<1>1. lock \in Locks
  BY DEF IInv, Shapes
<1>2. CASE TakeLock(p)
  BY <1>1, <1>2, LockStep DEF TakeLock, Go, Lobby, Locks
<1>3. CASE BreakLock(p)
  BY <1>3, LockStep DEF BreakLock, Broken, Go, Lobby, Locks
<1>4. CASE RetakeLock(p)
  BY <1>1, <1>4, LockStep DEF RetakeLock, Go, Lobby, Locks
<1>5. CASE Unlock(p)
  BY <1>5, LockStep DEF Unlock, Go, Lobby, Locks
<1>6. CASE Look(p)
  <2>1. PICK l \in {"stale", "idle"} : pc' = [pc EXCEPT ![p] = l]
    BY <1>6 DEF Look, Go
  <2>2. QED  BY <1>1, <1>6, <2>1, LockStep DEF Look, Lobby
<1>7. QED  BY <1>2, <1>3, <1>4, <1>5, <1>6

\* What becomes of the pid of a dead owner is nothing to the launchers.
LEMMA ReuseStep == ASSUME IInv, Reuse PROVE IInv'
<1>1. UNCHANGED <<disk, pc, local, bounds>> /\ lock' \in Locks
  BY DEF Reuse, Locks
<1> USE <1>1 DEF disk, local, bounds, hist
<1>2. Numbers' /\ Shapes'
  BY DEF IInv, Numbers, Shapes
<1>3. OneInside' /\ CurrentIsComplete' /\ \A p \in Procs : Named(p)'
  BY DEF IInv, OneInside, CurrentIsComplete, Sound, Named
<1>4. Sound' => \A p \in Procs : Careful(p)'
  BY DEF IInv, Sound, Careful
<1>5. QED  BY <1>2, <1>3, <1>4 DEF IInv

LEMMA WritePidStep == ASSUME IInv, NEW p \in Procs, WritePid(p) PROVE IInv'
<1>1. /\ pc' = [pc EXCEPT ![p] = "recover"] /\ UNCHANGED <<disk, local, marked, ops, faults, clock>>
      /\ lock' \in Locks /\ alone' \in BOOLEAN
      /\ alone' => alone /\ \A q \in Procs \ {p} : pc[q] \notin Held
  BY DEF WritePid, Go, Locks
<1>2. Numbers'
  BY <1>1 DEF IInv, Numbers, disk
<1>3. Shapes'
  BY <1>1 DEF IInv, Shapes, Label, Held, disk, local
<1>4. QED  BY <1>1, <1>2, <1>3, Outside DEF Lobby, disk, local

LEMMA DieStep == ASSUME IInv, NEW p \in Procs, Die(p) PROVE IInv'
<1>1. /\ pc' = [pc EXCEPT ![p] = "idle"] /\ lock' \in Locks /\ faults < MaxFaults /\ faults' = faults + 1
      /\ whole' = whole \ {writing[p]} /\ writing' = [writing EXCEPT ![p] = None]
      /\ UNCHANGED <<rels, complete, age, current, intent, env, art, rel, doomed, next, prev,
                     hist, ops, clock>>
  BY DEF Die, Fault, Go, Locks, IInv, Shapes
<1>2. Numbers'
  BY <1>1, UpdateAssumption DEF IInv, Numbers
<1>3. Shapes'
  BY <1>1 DEF IInv, Shapes, Label, hist
<1>4. QED  BY <1>1, <1>2, <1>3, Outside DEF Lobby, hist

-----------------------------------------------------------------------------
(* Between lock and release: what each action does to the link, the complete *)
(* releases and the launcher's obligations                                   *)

\* What the invariant says of the launcher that is alone there
LEMMA Alone ==
  ASSUME IInv, NEW p \in Procs
  PROVE  Named(p) /\ (Sound => current \in complete /\ Careful(p))
BY DEF IInv, CurrentIsComplete

LEMMA FaultCounted ==
  ASSUME IInv, UNCHANGED <<age, ops, clock>>,
         UNCHANGED faults \/ (faults < MaxFaults /\ faults' = faults + 1)
  PROVE  Numbers'
BY UpdateAssumption DEF IInv, Numbers

LEMMA AfterRecoveryFacts ==
  ASSUME IInv, NEW p \in Procs
  PROVE  /\ AfterRecovery(p) \in {"unlock", "pick", "place"}
         /\ AfterRecovery(p) = "place" => art[p] \in Artifacts
BY DEF AfterRecovery, IInv, Shapes

LEMMA RecoverStep == ASSUME IInv, NEW p \in Procs, Recover(p) PROVE IInv'
<1>1. /\ pc[p] = "recover"
      /\ UNCHANGED <<rels, complete, whole, age, intent, env, lock, art, rel, prev, writing, hist, ops, clock>>
  BY DEF Recover, At
<1>2. CASE intent = None /\ Go(p, AfterRecovery(p)) /\ UNCHANGED <<current, doomed, next, faults>>
  <2>1. Numbers'
    BY <1>1, <1>2, FaultCounted
  <2>2. Shapes'
    BY <1>1, <1>2, AfterRecoveryFacts DEF IInv, Shapes, Go, Label, Held, hist
  <2>3. pc'[p] = AfterRecovery(p)
    BY <1>2 DEF IInv, Shapes, Go
  <2>4. Named(p)' /\ Careful(p)'
    BY <1>1, <2>3, AfterRecoveryFacts DEF Named, Careful
  <2>5. QED
    BY <1>1, <1>2, <2>1, <2>2, <2>4, Alone, AfterRecoveryFacts, Inside DEF Go, Label, Held
<1>3. CASE /\ intent # None /\ Committable(intent)
           /\ \/ Link(intent) /\ Go(p, "replay")
              \/ Refuse(intent) /\ Go(p, "unlock")
           /\ UNCHANGED <<doomed, next>>
  <2>1. PICK l \in {"replay", "unlock"} : pc' = [pc EXCEPT ![p] = l]
    BY <1>3 DEF Go
  <2>2. current' \in {current, intent} /\ intent \in complete /\ intent \in Name
    BY <1>3, PlainIsName DEF Link, Refuse, Committable, IInv, Shapes
  <2>3. Numbers'
    BY <1>1, <1>3, FaultCounted DEF Link, Refuse, Fault
  <2>4. Shapes'
    BY <1>1, <1>3, <2>1, <2>2 DEF IInv, Shapes, Label, Held, hist
  <2>5. Named(p)' /\ Careful(p)'
    BY <1>1, <2>1 DEF IInv, Shapes, Named, Careful
  <2>6. QED
    BY <1>1, <2>1, <2>2, <2>3, <2>4, <2>5, Alone, Inside DEF Label, Held
<1>4. CASE /\ intent \in rels /\ ~Committable(intent)
           /\ Remove(p, {intent}, "settle") /\ UNCHANGED <<current, faults>>
  <2>1. pc' = [pc EXCEPT ![p] = "rm"] /\ doomed' = [doomed EXCEPT ![p] = {intent}]
        /\ next' = [next EXCEPT ![p] = "settle"]
    BY <1>4 DEF Remove, Go
  <2>2. Numbers'
    BY <1>1, <1>4, FaultCounted
  <2>3. Shapes'
    BY <1>1, <1>4, <2>1 DEF IInv, Shapes, Label, Held, hist
  <2>4. Named(p)' /\ pc'[p] = "rm" /\ doomed'[p] = {intent}
    BY <2>1 DEF IInv, Shapes, Named
  <2>5. Sound => Careful(p)'
    BY <1>4, <2>4, Alone DEF Careful, Committable
  <2>6. QED
    BY <1>1, <1>4, <2>1, <2>2, <2>3, <2>4, <2>5, Alone, Inside DEF Label, Held
<1>5. CASE /\ intent \notin rels \cup {None}
           /\ Go(p, "settle") /\ UNCHANGED <<current, doomed, next, faults>>
  <2>1. pc' = [pc EXCEPT ![p] = "settle"]
    BY <1>5 DEF Go
  <2>2. Numbers'
    BY <1>1, <1>5, FaultCounted
  <2>3. Shapes'
    BY <1>1, <1>5, <2>1 DEF IInv, Shapes, Label, Held, hist
  <2>4. Named(p)' /\ Careful(p)'
    BY <2>1 DEF IInv, Shapes, Named, Careful
  <2>5. QED
    BY <1>1, <1>5, <2>1, <2>2, <2>3, <2>4, Alone, Inside DEF Label, Held
<1>6. QED  BY <1>2, <1>3, <1>4, <1>5 DEF Recover

\* A step that writes the intent or install.env and goes on
LEMMA PaperStep ==
  ASSUME IInv, NEW p \in Procs, NEW l \in Held, pc[p] \in Held, pc' = [pc EXCEPT ![p] = l],
         UNCHANGED <<rels, complete, whole, age, current, lock, local, bounds>>,
         intent' \in {None} \cup {Plain(a) : a \in Artifacts}, env' \in Artifacts,
         Named(p)', Sound => Careful(p)'
  PROVE  IInv'
<1>1. Numbers'
  BY FaultCounted DEF bounds
<1>2. Shapes'
  BY DEF IInv, Shapes, Label, local, bounds, hist
<1>3. QED  BY <1>1, <1>2, Alone, Inside DEF Label, local, bounds

\* install.env comes to name what is under releases/, or stays.
LEMMA SyncFact ==
  ASSUME IInv, NEW n, Sync(n)
  PROVE  env' \in Artifacts
BY ArtOfName DEF Sync, IInv, Shapes

LEMMA PapersStep ==
  ASSUME IInv, NEW p \in Procs,
         Replay(p) \/ Settle(p) \/ Note(p) \/ Clear(p) \/ Config(p) \/ UndoEnv(p) \/ UndoClear(p)
  PROVE  IInv'
<1>1. /\ intent \in {None} \cup {Plain(a) : a \in Artifacts} /\ env \in Artifacts
      /\ Named(p) /\ (Sound => Careful(p)) /\ pc \in [Procs -> Label]
  BY Alone DEF IInv, Shapes
<1>2. CASE Replay(p)
  <2>1. /\ pc[p] = "replay" /\ pc' = [pc EXCEPT ![p] = "settle"] /\ Sync(intent)
        /\ UNCHANGED <<rels, complete, whole, age, current, intent, lock, local, bounds>>
    BY <1>2 DEF Replay, Go, At
  <2>2. Named(p)' /\ Careful(p)'
    BY <1>1, <2>1 DEF Named, Careful
  <2>3. QED  BY <1>1, <2>1, <2>2, SyncFact, PaperStep DEF Held
<1>3. CASE Settle(p)
  <2>1. /\ pc[p] = "settle" /\ pc' = [pc EXCEPT ![p] = AfterRecovery(p)] /\ intent' = None
        /\ UNCHANGED <<rels, complete, whole, age, current, env, lock, local, bounds>>
    BY <1>3 DEF Settle, Go, At, Cleared
  <2>2. pc'[p] = AfterRecovery(p) /\ art' = art /\ AfterRecovery(p) \in Held
    BY <1>1, <2>1, AfterRecoveryFacts DEF local, Held
  <2>3. Named(p)' /\ Careful(p)'
    BY <2>2, AfterRecoveryFacts DEF Named, Careful
  <2>4. QED  BY <1>1, <2>1, <2>2, <2>3, PaperStep DEF Held
<1>4. CASE Note(p)
  <2>1. /\ pc[p] = "note" /\ pc' = [pc EXCEPT ![p] = "check"] /\ intent' = Plain(art[p])
        /\ UNCHANGED <<rels, complete, whole, age, current, env, lock, local, bounds>>
    BY <1>4 DEF Note, Go, At
  <2>2. Named(p)' /\ (Sound => Careful(p)') /\ art[p] \in Artifacts
    BY <1>1, <2>1 DEF Named, Careful, local
  <2>3. QED  BY <1>1, <2>1, <2>2, PaperStep DEF Held
<1>5. CASE Clear(p)
  <2>1. /\ pc[p] = "clear" /\ pc' = [pc EXCEPT ![p] = "config"] /\ intent' = None
        /\ UNCHANGED <<rels, complete, whole, age, current, env, lock, local, bounds>>
    BY <1>5 DEF Clear, Go, At
  <2>2. Named(p)' /\ Careful(p)'
    BY <1>1, <2>1 DEF Named, Careful, local
  <2>3. QED  BY <1>1, <2>1, <2>2, PaperStep DEF Held
<1>6. CASE Config(p)
  <2>1. /\ pc[p] = "config" /\ pc' = [pc EXCEPT ![p] = "rewrite"] /\ env' = art[p]
        /\ UNCHANGED <<rels, complete, whole, age, current, intent, lock, local, bounds>>
    BY <1>6 DEF Config, Go, At
  <2>2. Named(p)' /\ Careful(p)' /\ art[p] \in Artifacts
    BY <1>1, <2>1 DEF Named, Careful, local
  <2>3. QED  BY <1>1, <2>1, <2>2, PaperStep DEF Held
<1>7. CASE UndoEnv(p)
  <2>1. /\ pc[p] = "undoEnv" /\ pc' = [pc EXCEPT ![p] = "leave"] /\ Sync(rel[p])
        /\ UNCHANGED <<rels, complete, whole, age, current, intent, lock, local, bounds>>
    BY <1>7 DEF UndoEnv, Go, At
  <2>2. Named(p)' /\ (Sound => Careful(p)')
    BY <1>1, <2>1 DEF Named, Careful, local
  <2>3. QED  BY <1>1, <2>1, <2>2, SyncFact, PaperStep DEF Held
<1>8. CASE UndoClear(p)
  <2>1. /\ pc[p] = "undoClear" /\ pc' = [pc EXCEPT ![p] = "unlock"] /\ intent' = None
        /\ UNCHANGED <<rels, complete, whole, age, current, env, lock, local, bounds>>
    BY <1>8 DEF UndoClear, Go, At
  <2>2. Named(p)' /\ Careful(p)'
    BY <1>1, <2>1 DEF Named, Careful, local
  <2>3. QED  BY <1>1, <2>1, <2>2, PaperStep DEF Held
<1>9. QED  BY <1>2, <1>3, <1>4, <1>5, <1>6, <1>7, <1>8

\* Writing into what is current takes nothing from the releases but files.
LEMMA RewriteStep == ASSUME IInv, NEW p \in Procs, Rewrite(p) \/ Rewritten(p) PROVE IInv'
<1>1. PICK l \in {"rewritten", "prune"} : pc' = [pc EXCEPT ![p] = l]
  BY DEF Rewrite, Rewritten, Go
<1>2. /\ pc[p] \in {"rewrite", "rewritten"} /\ whole' \subseteq whole
      /\ writing' \in [Procs -> Name \cup {None}]
      /\ UNCHANGED <<rels, complete, age, current, intent, env, lock, art, rel, doomed, next, prev,
                     hist, ops, clock>>
      /\ UNCHANGED faults \/ (faults < MaxFaults /\ faults' = faults + 1)
  BY DEF Rewrite, Rewritten, At, Fault, disk, bounds, IInv, Shapes
<1>3. Numbers'
  BY <1>2, FaultCounted
<1>4. Shapes'
  BY <1>1, <1>2 DEF IInv, Shapes, Label, Held, hist
<1>5. pc'[p] = l
  BY <1>1 DEF IInv, Shapes
<1>6. Named(p)' /\ Careful(p)'
  BY <1>5 DEF Named, Careful
<1>7. QED  BY <1>1, <1>2, <1>3, <1>4, <1>6, Alone, Inside DEF Label, Held

\* rm -rf begins: what it is given is not current.
LEMMA RemoveStep ==
  ASSUME IInv, NEW p \in Procs, NEW S \in SUBSET Name, NEW i,
         NEW l \in {"settle", "undoClear", "unlock"}, Remove(p, S, l), pc[p] \in Held,
         i = intent', i \in {None} \cup {Plain(a) : a \in Artifacts},
         UNCHANGED <<rels, complete, whole, age, current, env, lock, art, rel, prev, writing, hist, ops, clock>>,
         UNCHANGED faults \/ (faults < MaxFaults /\ faults' = faults + 1),
         Sound => current \notin S
  PROVE  IInv'
<1>1. /\ pc' = [pc EXCEPT ![p] = "rm"] /\ doomed' = [doomed EXCEPT ![p] = S]
      /\ next' = [next EXCEPT ![p] = l]
  BY DEF Remove, Go
<1>2. Numbers'
  BY FaultCounted
<1>3. Shapes'
  BY <1>1 DEF IInv, Shapes, Label, Held, hist
<1>4. pc'[p] = "rm" /\ doomed'[p] = S
  BY <1>1 DEF IInv, Shapes
<1>5. Named(p)' /\ (Sound => Careful(p)')
  BY <1>4 DEF Named, Careful
<1>6. QED  BY <1>1, <1>2, <1>3, <1>5, Alone, Inside DEF Label, Held

\* A new directory is none that is there, so not the current one.
LEMMA PlaceStep == ASSUME IInv, NEW p \in Procs, Place(p) PROVE IInv'
<1>1. /\ pc[p] = "place"
      /\ UNCHANGED <<complete, current, intent, env, lock, art, doomed, next, prev, writing, bounds>>
  BY DEF Place, At
<1>2. CASE Go(p, "unlock") /\ UNCHANGED <<rels, whole, age, rel>>
  <2>1. pc' = [pc EXCEPT ![p] = "unlock"]
    BY <1>2 DEF Go
  <2>2. Named(p)' /\ Careful(p)'
    BY <2>1 DEF IInv, Shapes, Named, Careful
  <2>3. intent \in {None} \cup {Plain(a) : a \in Artifacts} /\ env \in Artifacts
    BY DEF IInv, Shapes
  <2>4. QED  BY <1>1, <1>2, <2>1, <2>2, <2>3, PaperStep DEF Held, local
<1>3. ASSUME NEW n \in Name, NEW t \in 0..clock, n \notin rels,
             rels' = rels \cup {n}, whole' = whole \cup {n}, age' = [age EXCEPT ![n] = t],
             rel' = [rel EXCEPT ![p] = n], Go(p, "note")
      PROVE  IInv'
  <2>1. pc' = [pc EXCEPT ![p] = "note"]
    BY <1>3 DEF Go
  <2>2. Numbers'
    BY <1>1, <1>3 DEF IInv, Numbers, bounds
  <2>3. Shapes'
    BY <1>1, <1>3, <2>1 DEF IInv, Shapes, Label, Held, bounds, hist
  <2>4. pc'[p] = "note" /\ rel'[p] = n /\ (\A q \in Procs \ {p} : rel'[q] = rel[q])
    BY <1>3, <2>1 DEF IInv, Shapes
  <2>5. Named(p) /\ (Sound => current \in rels)
    BY Alone DEF IInv, Shapes
  <2>6. Named(p)' /\ (Sound => Careful(p)')
    BY <1>1, <1>3, <2>4, <2>5 DEF Named, Careful
  <2>7. QED  BY <1>1, <2>1, <2>2, <2>3, <2>4, <2>6, Alone, Inside DEF Label, Held, bounds
<1>4. QED  BY <1>2, <1>3 DEF Place

LEMMA CheckStep == ASSUME IInv, NEW p \in Procs, Check(p) PROVE IInv'
<1>1. /\ pc[p] = "check" /\ UNCHANGED <<disk, lock, art, rel, prev, writing, bounds>>
      /\ intent \in {None} \cup {Plain(a) : a \in Artifacts} /\ env \in Artifacts
  BY DEF Check, At, IInv, Shapes
<1>2. Named(p) /\ (Sound => Careful(p)) /\ rel[p] \in Name
  BY <1>1, Alone DEF Named
<1>3. CASE Go(p, "finish") /\ UNCHANGED <<doomed, next>>
  <2>1. pc' = [pc EXCEPT ![p] = "finish"]
    BY <1>3 DEF Go
  <2>2. Named(p)' /\ (Sound => Careful(p)')
    BY <1>1, <1>2, <2>1 DEF IInv, Shapes, Named, Careful, disk
  <2>3. QED  BY <1>1, <1>3, <2>1, <2>2, PaperStep DEF Held, disk, local
<1>4. CASE Remove(p, {rel[p]}, "undoClear")
  BY <1>1, <1>2, <1>4, RemoveStep DEF Careful, Held, disk, bounds
<1>5. QED  BY <1>3, <1>4 DEF Check

\* The release is complete before it may be made current, if it could be
\* marked.
LEMMA FinishStep == ASSUME IInv, NEW p \in Procs, Finish(p) PROVE IInv'
<1>1. /\ pc[p] = "finish" /\ pc' = [pc EXCEPT ![p] = "commit"]
      /\ prev' = [prev EXCEPT ![p] = current]
      /\ UNCHANGED <<rels, current, intent, env, lock, art, rel, doomed, next, writing, alone, ops>>
  BY DEF Finish, At, Go
<1>2. Named(p) /\ (Sound => Careful(p) /\ current \in complete) /\ rel[p] \in Name
  BY <1>1, Alone DEF Named
<1>3. /\ whole' \subseteq whole /\ marked' \in BOOLEAN
      /\ UNCHANGED faults \/ (faults < MaxFaults /\ faults' = faults + 1)
  BY DEF Finish, Fault, IInv, Shapes
<1>4. \/ rel[p] \in rels /\ clock' = clock + 1 /\ age' = [age EXCEPT ![rel[p]] = clock + 1]
      \/ UNCHANGED <<age, clock>>
  BY DEF Finish, Present
<1>5. \/ rel[p] \in rels /\ complete' = complete \cup {rel[p]} /\ marked' = marked
      \/ complete' = complete /\ marked' = FALSE
      \/ rel[p] \notin rels /\ complete' = complete /\ marked' = marked
  BY DEF Finish, Present
<1>6. Numbers'
  <2>1. faults' \in 0..MaxFaults /\ ops' \in 0..MaxOps
    BY <1>1, <1>3, UpdateAssumption DEF IInv, Numbers
  <2>2. age' \in [Name -> 0..clock'] /\ clock' \in Nat
    BY <1>2, <1>4 DEF IInv, Numbers
  <2>3. QED  BY <2>1, <2>2 DEF Numbers
<1>7. Shapes'
  <2>1. complete' \subseteq rels
    BY <1>5 DEF IInv, Shapes
  <2>2. QED  BY <1>1, <1>3, <2>1 DEF IInv, Shapes, Label, Held
<1>8. Sound' => Sound /\ marked' # FALSE
  BY <1>1, <1>5 DEF Sound
<1>9. Named(p)'
  BY <1>1 DEF IInv, Shapes, Named
<1>10. Sound' => Careful(p)' /\ current' \in complete'
  BY <1>1, <1>2, <1>5, <1>8 DEF IInv, Shapes, Careful
<1>11. QED  BY <1>1, <1>6, <1>7, <1>8, <1>9, <1>10, InsideMarks DEF Label, Held

\* The link is set to a complete release, and not to one that is not there.
LEMMA CommitStep == ASSUME IInv, NEW p \in Procs, Commit(p) PROVE IInv'
<1>1. /\ pc[p] = "commit"
      /\ UNCHANGED <<rels, complete, whole, age, intent, env, lock, art, rel, prev, writing, hist, ops, clock>>
      /\ intent \in {None} \cup {Plain(a) : a \in Artifacts}
  BY DEF Commit, At, IInv, Shapes
<1>2. Named(p) /\ (Sound => Careful(p) /\ current \in complete) /\ rel[p] \in Name
  BY <1>1, Alone DEF Named
<1>3. CASE Link(rel[p]) /\ Go(p, "clear") /\ UNCHANGED <<doomed, next>>
  <2>1. /\ pc' = [pc EXCEPT ![p] = "clear"] /\ rel[p] \in rels /\ current' = rel[p]
        /\ UNCHANGED faults
    BY <1>3 DEF Go, Link, Present
  <2>2. Numbers'
    BY <1>1, <2>1, FaultCounted
  <2>3. Shapes'
    BY <1>1, <1>2, <1>3, <2>1 DEF IInv, Shapes, Label, Held, hist
  <2>4. Named(p)' /\ Careful(p)'
    BY <1>1, <1>2, <2>1 DEF IInv, Shapes, Named, Careful
  <2>5. Sound => current' \in complete'
    BY <1>1, <1>2, <2>1 DEF Careful
  <2>6. QED  BY <1>1, <2>1, <2>2, <2>3, <2>4, <2>5, Inside DEF Label, Held
<1>4. CASE Refuse(rel[p]) /\ Remove(p, {rel[p]}, "undoClear")
  <2>1. current' = current /\ (UNCHANGED faults \/ (faults < MaxFaults /\ faults' = faults + 1))
    BY <1>4 DEF Refuse, Fault
  <2>2. Sound => current \notin {rel[p]}
    BY <1>1, <1>2 DEF Careful
  <2>3. QED  BY <1>1, <1>2, <1>4, <2>1, <2>2, RemoveStep DEF Held
<1>5. QED  BY <1>3, <1>4 DEF Commit

LEMMA PruneStep == ASSUME IInv, NEW p \in Procs, Prune(p) PROVE IInv'
<1>1. /\ pc[p] = "prune" /\ UNCHANGED <<disk, lock, art, rel, prev, writing, bounds>>
      /\ intent \in {None} \cup {Plain(a) : a \in Artifacts} /\ env \in Artifacts
      /\ rels \subseteq Name
  BY DEF Prune, At, IInv, Shapes
<1>2. CASE Go(p, "unlock") /\ UNCHANGED <<doomed, next>>
  <2>1. pc' = [pc EXCEPT ![p] = "unlock"]
    BY <1>2 DEF Go
  <2>2. Named(p)' /\ Careful(p)'
    BY <2>1 DEF IInv, Shapes, Named, Careful
  <2>3. QED  BY <1>1, <1>2, <2>1, <2>2, PaperStep DEF Held, disk, local
<1>3. ASSUME NEW n \in Newest(Others(current)), Remove(p, Others(current) \ {n}, "unlock")
      PROVE  IInv'
  <2>1. Others(current) \ {n} \in SUBSET Name /\ current \notin Others(current) \ {n}
    BY <1>1 DEF Others
  <2>2. QED  BY <1>1, <1>3, <2>1, RemoveStep DEF Held, disk, bounds
<1>4. QED  BY <1>2, <1>3 DEF Prune

LEMMA PickStep == ASSUME IInv, NEW p \in Procs, Pick(p) PROVE IInv'
<1>1. /\ pc[p] = "pick" /\ UNCHANGED <<disk, lock, art, doomed, next, writing, bounds>>
      /\ intent \in {None} \cup {Plain(a) : a \in Artifacts} /\ env \in Artifacts
      /\ rels \subseteq Name
  BY DEF Pick, At, IInv, Shapes
<1>2. CASE Go(p, "unlock") /\ UNCHANGED <<rel, prev>>
  <2>1. pc' = [pc EXCEPT ![p] = "unlock"]
    BY <1>2 DEF Go
  <2>2. Named(p)' /\ Careful(p)'
    BY <2>1 DEF IInv, Shapes, Named, Careful
  <2>3. QED  BY <1>1, <1>2, <2>1, <2>2, PaperStep DEF Held, disk, local
<1>3. ASSUME NEW n \in Newest(Others(current) \cap complete), rel' = [rel EXCEPT ![p] = n],
             prev' = [prev EXCEPT ![p] = current], Go(p, "swap")
      PROVE  IInv'
  <2>1. pc' = [pc EXCEPT ![p] = "swap"]
    BY <1>3 DEF Go
  <2>2. n \in complete /\ n # current /\ n \in Name
    BY <1>1, <1>3 DEF Newest, Others
  <2>3. Numbers'
    BY <1>1, FaultCounted DEF disk, bounds
  <2>4. Shapes'
    BY <1>1, <1>3, <2>1, <2>2 DEF IInv, Shapes, Label, Held, disk, bounds, hist
  <2>5. /\ pc'[p] = "swap" /\ rel'[p] = n /\ prev'[p] = current
        /\ \A q \in Procs \ {p} : rel'[q] = rel[q]
    BY <1>3, <2>1 DEF IInv, Shapes
  <2>6. Named(p)' /\ Careful(p)'
    BY <1>1, <2>2, <2>5 DEF Named, Careful, disk
  <2>7. QED
    BY <1>1, <2>1, <2>3, <2>4, <2>5, <2>6, Alone, Inside DEF Label, Held, disk, bounds
<1>4. QED  BY <1>2, <1>3 DEF Pick

LEMMA SwapStep == ASSUME IInv, NEW p \in Procs, Swap(p) PROVE IInv'
<1>1. /\ pc[p] = "swap"
      /\ UNCHANGED <<rels, complete, whole, age, intent, env, lock, local, hist, ops, clock>>
  BY DEF Swap, At
<1>2. Named(p) /\ (Sound => Careful(p) /\ current \in complete) /\ rel[p] \in Name
  BY <1>1, Alone DEF Named
<1>3. \/ /\ pc' = [pc EXCEPT ![p] = "undoEnv"] /\ current' = rel[p] /\ UNCHANGED faults
      \/ /\ pc' = [pc EXCEPT ![p] = "unlock"] /\ UNCHANGED current
         /\ UNCHANGED faults \/ (faults < MaxFaults /\ faults' = faults + 1)
  BY DEF Swap, Link, Refuse, Fault, Go
<1>4. Numbers'
  BY <1>1, <1>3, FaultCounted
<1>5. Shapes'
  BY <1>1, <1>2, <1>3 DEF IInv, Shapes, Label, Held, local, hist
<1>6. Named(p)' /\ (Sound => Careful(p)' /\ current' \in complete')
  BY <1>1, <1>2, <1>3 DEF IInv, Shapes, Named, Careful, local
<1>7. QED  BY <1>1, <1>3, <1>4, <1>5, <1>6, Inside DEF Label, Held, local

LEMMA LeaveStep == ASSUME IInv, NEW p \in Procs, Leave(p) PROVE IInv'
<1>1. /\ pc[p] = "leave" /\ intent' = None /\ Remove(p, {prev[p]}, "unlock")
      /\ UNCHANGED <<rels, complete, whole, age, current, env, lock, art, rel, prev, writing, bounds>>
  BY DEF Leave, At
<1>2. prev[p] \in Name /\ (Sound => prev[p] # current)
  BY <1>1, Alone DEF IInv, Shapes, Careful
<1>3. QED  BY <1>1, <1>2, RemoveStep DEF Held, bounds

\* What is removed, and in whatever order, is not current.
LEMMA GnawStep == ASSUME IInv, NEW p \in Procs, Gnaw(p) PROVE IInv'
<1>1. /\ pc[p] = "rm"
      /\ UNCHANGED <<rels, current, intent, env, lock, pc, local, bounds>>
  BY DEF Gnaw, At
<1>2. PICK n \in doomed[p] :
        /\ whole' = whole \ {n} /\ (complete' = complete \/ complete' = complete \ {n})
        /\ age' \in {age, [age EXCEPT ![n] = clock]}
  BY DEF Gnaw
<1>3. Named(p) /\ (Sound => Careful(p) /\ current \in complete)
  BY Alone
<1>4. Numbers'
  BY <1>1, <1>2 DEF IInv, Numbers, bounds
<1>5. Shapes'
  BY <1>1, <1>2 DEF IInv, Shapes, local, bounds, hist
<1>6. Named(p)' /\ (Sound => Careful(p)' /\ current' \in complete')
  BY <1>1, <1>2, <1>3 DEF Named, Careful, local
<1>7. pc' = [pc EXCEPT ![p] = "rm"]
  BY <1>1 DEF IInv, Shapes
<1>8. QED  BY <1>1, <1>4, <1>5, <1>6, <1>7, Inside DEF Label, Held, local, bounds

LEMMA GoneStep == ASSUME IInv, NEW p \in Procs, Gone(p) PROVE IInv'
<1>1. /\ pc[p] = "rm"
      /\ UNCHANGED <<whole, age, current, intent, env, lock, pc, art, rel, next, prev, writing, bounds>>
  BY DEF Gone, At
<1>2. PICK n \in doomed[p] \ whole :
        /\ rels' = rels \ {n} /\ complete' = complete \ {n}
        /\ doomed' = [doomed EXCEPT ![p] = doomed[p] \ {n}]
  BY DEF Gone
<1>3. Named(p) /\ (Sound => Careful(p) /\ current \in complete)
  BY Alone
<1>4. Numbers'
  BY <1>1, FaultCounted DEF bounds
<1>5. Shapes'
  BY <1>1, <1>2 DEF IInv, Shapes, bounds, hist
<1>6. Named(p)' /\ (Sound => Careful(p)' /\ current' \in complete')
  <2>1. doomed'[p] = doomed[p] \ {n}
    BY <1>2 DEF IInv, Shapes
  <2>2. QED  BY <1>1, <1>2, <1>3, <2>1 DEF Named, Careful
<1>7. pc' = [pc EXCEPT ![p] = "rm"]
  BY <1>1 DEF IInv, Shapes
<1>8. QED  BY <1>1, <1>4, <1>5, <1>6, <1>7, Inside DEF Label, Held, bounds

LEMMA RemovedStep == ASSUME IInv, NEW p \in Procs, Removed(p) PROVE IInv'
<1>1. /\ pc[p] = "rm" /\ pc' = [pc EXCEPT ![p] = next[p]]
      /\ UNCHANGED <<disk, lock, local, bounds>>
  BY DEF Removed, At, Go
<1>2. next[p] \in {"settle", "undoClear", "unlock"} /\ pc'[p] = next[p]
      /\ intent \in {None} \cup {Plain(a) : a \in Artifacts} /\ env \in Artifacts
  BY <1>1 DEF IInv, Shapes
<1>3. Named(p)' /\ Careful(p)'
  BY <1>2 DEF Named, Careful
<1>4. QED  BY <1>1, <1>2, <1>3, PaperStep DEF Held, disk

-----------------------------------------------------------------------------
LEMMA StepHolds == ASSUME IInv, [Next]_vars PROVE IInv'
<1>1. ASSUME NEW p \in Procs, Step(p) PROVE IInv'
  BY <1>1, TryStep, WritePidStep, RecoverStep, PapersStep, RewriteStep, PlaceStep, CheckStep,
     FinishStep, CommitStep, PruneStep, PickStep, SwapStep, LeaveStep, GnawStep, GoneStep, RemovedStep DEF Step
<1>2. ASSUME NEW p \in Procs, Begin(p) \/ Boot(p) \/ Die(p) PROVE IInv'
  BY <1>2, BeginStep, BootStep, DieStep
<1>3. CASE UNCHANGED vars
  <2> USE <1>3 DEF vars, disk, local, bounds, hist
  <2>1. Numbers' /\ Shapes'
    BY DEF IInv, Numbers, Shapes
  <2>2. OneInside' /\ CurrentIsComplete' /\ \A p \in Procs : Named(p)'
    BY DEF IInv, OneInside, CurrentIsComplete, Sound, Named
  <2>3. Sound' => \A p \in Procs : Careful(p)'
    BY DEF IInv, Sound, Careful
  <2>4. QED  BY <2>1, <2>2, <2>3 DEF IInv
<1>4. QED  BY <1>1, <1>2, <1>3, ReuseStep DEF Next, Rest

\* The conjunction of the types and the parts above holds in every reachable state.
THEOREM Inductive == Spec => []IInv
BY InitHolds, StepHolds, PTL DEF Spec

\* Every variable keeps its type, for any number of operations and deaths.
THEOREM TypeCorrect == Spec => []TypeOK
<1>1. IInv => TypeOK  BY TypeParts DEF IInv
<1>2. QED  BY <1>1, Inductive, PTL

\* The link current of latest/airymaxrt names a release with .complete at every
\* moment, wherever a launcher dies, while the lock has kept launchers apart
\* and no mark failed to be written.
THEOREM LinkIsComplete == Spec => []CurrentIsComplete
<1>1. IInv => CurrentIsComplete  BY DEF IInv
<1>2. QED  BY <1>1, Inductive, PTL

-----------------------------------------------------------------------------
(* The promise of Releases *)

\* What is put in place is not ready before it is finished: its name was free
\* when it was placed, and only Finish marks anything complete.
Placed == {"note", "check", "finish"}
Fresh  == Sound => \A p \in Procs : pc[p] \in Placed => rel[p] \notin complete

\* One step, as far as Fresh can tell: only a launcher at "finish" adds to
\* what is complete, and a name that is placed was free.
LEMMA OneStep ==
  ASSUME IInv, NEW q \in Procs, Begin(q) \/ Boot(q) \/ Step(q) \/ Die(q)
  PROVE  /\ \A r \in Procs \ {q} : pc'[r] = pc[r] /\ rel'[r] = rel[r]
         /\ Sound' => Sound
         /\ complete' \subseteq complete \/ (pc[q] = "finish" /\ pc'[q] = "commit")
         /\ pc'[q] \in Placed => \/ pc[q] \in Placed /\ rel'[q] = rel[q]
                                 \/ rel'[q] \notin complete
<1>1. pc \in [Procs -> Label] /\ rel \in [Procs -> Name \cup {None}] /\ complete \subseteq rels
      /\ next[q] \in {"settle", "undoClear", "unlock"}
      /\ AfterRecovery(q) \in {"unlock", "pick", "place"}
  BY AfterRecoveryFacts DEF IInv, Shapes
<1> USE <1>1 DEF Go, At, Placed, disk, local, bounds, hist, Sound
<1>2. CASE Begin(q) \/ Boot(q) \/ Die(q)
  BY <1>2 DEF Begin, Boot, Die
<1>3. CASE TakeLock(q) \/ Look(q) \/ BreakLock(q) \/ RetakeLock(q) \/ WritePid(q) \/ Unlock(q)
  <2>1. \E l \in {"idle", "look", "pid", "stale", "mkdir2", "recover"} : pc' = [pc EXCEPT ![q] = l]
    BY <1>3 DEF TakeLock, Look, BreakLock, RetakeLock, WritePid, Unlock
  <2>2. UNCHANGED <<complete, rel>>
    BY <1>3 DEF TakeLock, Look, BreakLock, RetakeLock, WritePid, Unlock
  <2>3. Sound' => Sound
    BY <1>3, Zenon DEF TakeLock, Look, BreakLock, RetakeLock, WritePid, Unlock
  <2>4. QED  BY <2>1, <2>2, <2>3
<1>4. CASE Recover(q)
  BY <1>4 DEF Recover, Remove
<1>5. CASE Replay(q) \/ Settle(q) \/ Note(q) \/ Clear(q) \/ Config(q)
           \/ Rewrite(q) \/ Rewritten(q) \/ UndoEnv(q) \/ UndoClear(q)
  BY <1>5 DEF Replay, Settle, Note, Clear, Config, Rewrite, Rewritten, UndoEnv, UndoClear
<1>6. CASE Place(q)
  <2>1. CASE Go(q, "unlock") /\ UNCHANGED <<rels, whole, age, rel>>
    BY <1>6, <2>1 DEF Place
  <2>2. ASSUME NEW n \in Name, n \notin rels, rel' = [rel EXCEPT ![q] = n], Go(q, "note")
        PROVE  rel'[q] \notin complete /\ \A r \in Procs \ {q} : pc'[r] = pc[r] /\ rel'[r] = rel[r]
    BY <2>2
  <2>3. QED  BY <1>6, <2>1, <2>2 DEF Place
<1>7. CASE Check(q) \/ Prune(q)
  BY <1>7 DEF Check, Prune, Remove
<1>8. CASE Finish(q)
  <2>1. Sound' => Sound
    BY <1>8, Zenon DEF Finish
  <2>2. QED  BY <1>8, <2>1 DEF Finish
<1>9. CASE Commit(q) \/ Swap(q)
  BY <1>9 DEF Commit, Swap, Remove
<1>10. CASE Pick(q)
  BY <1>10 DEF Pick
<1>11. CASE Leave(q)
  BY <1>11 DEF Leave, Remove
<1>12. CASE Gnaw(q) \/ Gone(q) \/ Removed(q)
  BY <1>12 DEF Gnaw, Gone, Removed
<1>13. QED
  BY <1>2, <1>3, <1>4, <1>5, <1>6, <1>7, <1>8, <1>9, <1>10, <1>11, <1>12 DEF Step

LEMMA FreshStep == ASSUME IInv, Fresh, [Next]_vars PROVE Fresh'
<1>1. ASSUME NEW q \in Procs, Begin(q) \/ Boot(q) \/ Step(q) \/ Die(q),
             Sound', NEW r \in Procs, pc'[r] \in Placed
      PROVE  rel'[r] \notin complete'
  <2>1. Sound /\ alone /\ \A p \in Procs : pc[p] \in Placed => rel[p] \notin complete
    BY <1>1, OneStep DEF Fresh, Sound
  <2>2. CASE r = q
    <3>1. rel'[q] \notin complete /\ complete' \subseteq complete
      BY <1>1, <2>1, <2>2, OneStep DEF Placed
    <3>2. QED  BY <2>2, <3>1
  <2>3. CASE r # q
    <3>1. pc[r] \in Placed /\ rel'[r] = rel[r]
      BY <1>1, <2>3, OneStep
    <3>2. pc[q] # "finish"
      BY <2>1, <2>3, <3>1 DEF IInv, OneInside, Held, Placed
    <3>3. complete' \subseteq complete
      BY <1>1, <3>2, OneStep
    <3>4. QED  BY <2>1, <3>1, <3>3
  <2>4. QED  BY <2>2, <2>3
<1>2. CASE UNCHANGED vars
  BY <1>2 DEF vars, disk, local, bounds, hist, Fresh, Sound
<1>3. CASE Reuse
  BY <1>3 DEF Reuse, disk, local, bounds, hist, Fresh, Sound
<1>4. QED  BY <1>1, <1>2, <1>3 DEF Next, Rest, Fresh

\* rm -rf takes a complete release that is not current, or none.
LEMMA RemovalRefines ==
  ASSUME IInv, NEW p \in Procs, NEW n \in doomed[p], pc[p] = "rm", Sound,
         complete' = complete \/ complete' = complete \ {n}, UNCHANGED current, Sound' = Sound
  PROVE  [Promise!Next]_(Promise!vars)
<1>1. n \in Name /\ n # current
  BY Alone DEF Careful, IInv, Shapes
<1>2. CASE n \in complete /\ complete' = complete \ {n}
  BY <1>1, <1>2 DEF Promise!Next, Promise!Withdraw
<1>3. CASE complete' = complete
  BY <1>3 DEF Promise!vars
<1>4. QED  BY <1>2, <1>3

\* Once the launchers met or a mark failed, nothing is promised.
LEMMA Unpromised ==
  ASSUME Sound \in BOOLEAN, Sound' \in BOOLEAN, Sound' => Sound,
         Sound => UNCHANGED <<complete, current>>
  PROVE  [Promise!Next]_(Promise!vars)
<1>1. CASE ~Sound
  BY <1>1 DEF Promise!Next, Promise!Apart
<1>2. CASE Sound /\ ~Sound'
  BY <1>2 DEF Promise!Next, Promise!Collide
<1>3. CASE Sound /\ Sound'
  BY <1>3 DEF Promise!vars
<1>4. QED  BY <1>1, <1>2, <1>3

\* Every step of a launcher is a step of the promise, or one it does not see.
LEMMA PromiseStep ==
  ASSUME IInv, Fresh, [Next]_vars
  PROVE  [Promise!Next]_(Promise!vars)
<1>1. CASE UNCHANGED vars \/ Reuse
  <2>1. UNCHANGED <<complete, current>> /\ Sound' = Sound
    BY <1>1 DEF vars, disk, bounds, hist, Sound, Reuse
  <2>2. QED  BY <2>1 DEF Promise!vars
<1>2. ASSUME NEW p \in Procs, Begin(p) \/ Boot(p) \/ Step(p) \/ Die(p)
      PROVE  [Promise!Next]_(Promise!vars)
  <2>1. Sound \in BOOLEAN /\ Sound' \in BOOLEAN /\ (Sound' => Sound)
    BY <1>2, OneStep DEF Sound
  <2>2. CASE ~Sound
    BY <2>1, <2>2, Unpromised
  <2>3. CASE Sound
    <3>1. Named(p) /\ Careful(p) /\ current \in complete /\ complete \subseteq rels /\ rels \subseteq Name
      BY <2>3, Alone DEF IInv, Shapes
    <3>2. UNCHANGED hist => Sound' = Sound
      BY DEF hist, Sound
    <3> USE DEF disk, local, bounds
    <3>3. CASE Begin(p) \/ Boot(p) \/ Die(p)
      BY <2>1, <3>3, Unpromised DEF Begin, Boot, Die
    <3>4. CASE TakeLock(p) \/ Look(p) \/ BreakLock(p) \/ RetakeLock(p) \/ WritePid(p) \/ Unlock(p)
      BY <2>1, <3>4, Unpromised DEF TakeLock, Look, BreakLock, RetakeLock, WritePid, Unlock
    <3>5. CASE Recover(p)
      <4>1. /\ UNCHANGED <<complete, hist>>
            /\ current' = current \/ (Link(intent) /\ Committable(intent))
        BY <3>5 DEF Recover, Refuse
      <4>2. CASE Link(intent) /\ Committable(intent)
        BY <2>3, <3>1, <3>2, <4>1, <4>2 DEF Link, Committable, Promise!Next, Promise!Switch
      <4>3. QED  BY <2>1, <4>1, <4>2, Unpromised
    <3>6. CASE Replay(p) \/ Settle(p) \/ Note(p) \/ Clear(p) \/ Config(p) \/ Rewrite(p) \/ Rewritten(p)
               \/ UndoEnv(p) \/ UndoClear(p)
      BY <2>1, <3>6, Unpromised DEF Replay, Settle, Note, Clear, Config, Rewrite, Rewritten, UndoEnv, UndoClear
    <3>7. CASE Place(p) \/ Check(p) \/ Prune(p) \/ Pick(p) \/ Leave(p) \/ Removed(p)
      BY <2>1, <3>7, Unpromised DEF Place, Check, Prune, Pick, Leave, Removed
    <3>8. CASE Finish(p)
      <4>1. rel[p] \in Name /\ rel[p] \notin complete
        BY <2>3, <3>1, <3>8 DEF Finish, At, Named, Fresh, Placed
      <4>2. /\ UNCHANGED <<current, alone>>
            /\ complete' = complete \/ (complete' = complete \cup {rel[p]} /\ marked' = marked)
        BY <3>8 DEF Finish
      <4>3. CASE complete' = complete \cup {rel[p]} /\ marked' = marked
        BY <2>3, <3>2, <4>1, <4>2, <4>3 DEF hist, Promise!Next, Promise!Publish
      <4>4. QED  BY <2>1, <4>2, <4>3, Unpromised
    <3>9. CASE Commit(p) \/ Swap(p)
      <4>1. rel[p] \in rels => rel[p] \in complete
        BY <3>1, <3>9 DEF Commit, Swap, At, Careful
      <4>2. UNCHANGED <<complete, hist>> /\ (current' = current \/ Link(rel[p]))
        BY <3>9 DEF Commit, Swap, Refuse
      <4>3. CASE Link(rel[p])
        BY <2>3, <3>1, <3>2, <4>1, <4>2, <4>3 DEF Link, Present, Promise!Next, Promise!Switch
      <4>4. QED  BY <2>1, <4>2, <4>3, Unpromised
    <3>10. CASE Gnaw(p) \/ Gone(p)
      BY <2>3, <3>2, <3>10, RemovalRefines DEF Gnaw, Gone, At
    <3>11. QED
      BY <1>2, <3>3, <3>4, <3>5, <3>6, <3>7, <3>8, <3>9, <3>10 DEF Step
  <2>4. QED  BY <2>2, <2>3
<1>3. QED  BY <1>1, <1>2 DEF Next, Rest

\* A name is placed only where nothing is, and so is not ready before it is
\* finished.
THEOREM PlacedIsFresh == Spec => []Fresh
<1>1. Init => Fresh
  BY DEF Init, Fresh, Placed
<1>2. QED  BY <1>1, FreshStep, Inductive, PTL DEF Spec

\* The launchers of latest/airymaxrt implement Releases: to whoever starts the
\* program an update is one step, wherever a launcher dies.
THEOREM KeepsPromise == Spec => PromiseSpec
<1>1. Init => Promise!Init
  BY DEF Init, Sound, Promise!Init
<1>2. QED
  BY <1>1, PromiseStep, Inductive, PlacedIsFresh, PTL DEF Spec, PromiseSpec, Promise!Spec
=============================================================================
