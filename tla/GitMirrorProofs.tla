--------------------------- MODULE GitMirrorProofs ---------------------------
(***************************************************************************)
(* Safety of the mirror protocol of GitMirror, for any set of runs and     *)
(* repositories and any number of crashes.                                 *)
(***************************************************************************)
EXTENDS GitMirror, TLAPS

USE RunsAssumption DEF Goto, NoMirror, NoWorktree, MaxAttempts

MirrorStates   == [content : {"absent", "partial", "complete"}, repo : Repos \cup {Scratch}]
WorktreeStates == [state : {"none", "intact", "broken"}, repo : Repos \cup {Scratch}]

LEMMA BrokenType ==
  ASSUME NEW wt \in [Runs -> WorktreeStates]
  PROVE  Broken(wt) \in [Runs -> WorktreeStates]
BY DEF Broken, WorktreeStates

LEMMA InitInductive == Init => Inductive
<1> SUFFICES ASSUME Init PROVE Inductive
  OBVIOUS
<1> USE DEF Init
<1>1. mirror \in MirrorStates /\ worktree \in [Runs -> WorktreeStates]
  BY DEF MirrorStates, WorktreeStates
<1>2. pc \in [Runs -> Places]
  BY DEF Places
<1>3. tries \in [Runs -> 0..MaxAttempts]
  OBVIOUS
<1>4. ended \subseteq Runs /\ doubted \subseteq Runs /\ misled \subseteq Runs /\ crashes \in 0..MaxCrashes
  OBVIOUS
<1>4a. locked \in BOOLEAN
  OBVIOUS
<1>5. TypeOK
  BY <1>1, <1>2, <1>3, <1>4, <1>4a DEF TypeOK, MirrorStates, WorktreeStates
<1>6. OneCloner /\ ClonerOwnsMirror /\ LockHasHolder
  BY DEF OneCloner, ClonerOwnsMirror, LockHasHolder, Cloning
<1>7. \A r \in Runs : PlaceInv(r)
  BY DEF PlaceInv, Cloning, Waiting
<1> QED BY <1>5, <1>6, <1>7 DEF Inductive

\* A step of one run, or of the environment, keeps the types.
LEMMA TypeStep == Inductive /\ [Next]_vars => TypeOK'
<1> SUFFICES ASSUME Inductive, [Next]_vars PROVE TypeOK'
  OBVIOUS
<1> USE DEF Inductive, TypeOK, Places, Creating, Waiting, Cloning, Ended
<1>1. ASSUME NEW r \in Runs, BeginCreate(r) PROVE TypeOK'
  BY <1>1 DEF BeginCreate
<1>2. ASSUME NEW r \in Runs, CheckMirror(r) PROVE TypeOK'
  BY <1>2 DEF CheckMirror, Remember
<1>3. ASSUME NEW r \in Runs, TakeLock(r) PROVE TypeOK'
  BY <1>3 DEF TakeLock
<1>4. ASSUME NEW r \in Runs, FindLock(r) \/ WaitOver(r) \/ WaitGivesUp(r) PROVE TypeOK'
  BY <1>4 DEF FindLock, WaitOver, WaitGivesUp
<1>5. ASSUME NEW r \in Runs, Recheck(r) PROVE TypeOK'
  BY <1>5 DEF Recheck
<1>6. ASSUME NEW r \in Runs, RemoveMirror(r) PROVE TypeOK'
  <2>1. mirror' \in [content : {"absent", "partial", "complete"}, repo : Repos \cup {Scratch}]
    BY <1>6 DEF RemoveMirror
  <2>2. worktree' \in [Runs -> WorktreeStates]
    BY <1>6, BrokenType DEF RemoveMirror, WorktreeStates
  <2> QED BY <1>6, <2>1, <2>2 DEF RemoveMirror, WorktreeStates
<1>7. ASSUME NEW r \in Runs, StartClone(r) PROVE TypeOK'
  <2>1. mirror' \in [content : {"absent", "partial", "complete"}, repo : Repos \cup {Scratch}]
    BY <1>7 DEF StartClone
  <2>2. pc' \in [Runs -> Places]
    BY <1>7 DEF StartClone
  <2> QED BY <1>7, <2>1, <2>2 DEF StartClone
<1>8. ASSUME NEW r \in Runs, CloneSucceeds(r) PROVE TypeOK'
  BY <1>8 DEF CloneSucceeds
<1>9. ASSUME NEW r \in Runs, CloneFails(r) PROVE TypeOK'
  <2>1. mirror' \in [content : {"absent", "partial", "complete"}, repo : Repos \cup {Scratch}]
    BY <1>9 DEF CloneFails
  <2>2. worktree' \in [Runs -> WorktreeStates]
    BY <1>9, BrokenType DEF CloneFails, WorktreeStates
  <2>3. pc' \in [Runs -> Places]
    BY <1>9 DEF CloneFails
  <2> QED BY <1>9, <2>1, <2>2, <2>3 DEF CloneFails, WorktreeStates
<1>10. ASSUME NEW r \in Runs, Backoff(r) PROVE TypeOK'
  <2>1. tries[r] < MaxAttempts
    BY <1>10 DEF Backoff, PlaceInv
  <2> QED BY <1>10, <2>1 DEF Backoff
<1>11. ASSUME NEW r \in Runs, Unlock(r) PROVE TypeOK'
  <2>1. tries' \in [Runs -> 0..MaxAttempts]
    BY <1>11 DEF Unlock
  <2>2. pc' \in [Runs -> Places]
    BY <1>11 DEF Unlock
  <2> QED BY <1>11, <2>1, <2>2 DEF Unlock
<1>12. ASSUME NEW r \in Runs, AddWorktree(r) PROVE TypeOK'
  BY <1>12 DEF AddWorktree
<1>13. ASSUME NEW r \in Runs, AddFails(r) PROVE TypeOK'
  BY <1>13 DEF AddFails
<1>14. ASSUME NEW r \in Runs, Destroy(r) PROVE TypeOK'
  <2>1. NoWorktree \in [state : {"none", "intact", "broken"}, repo : Repos \cup {Scratch}]
    OBVIOUS
  <2> QED BY <1>14, <2>1 DEF Destroy
<1>15. ASSUME NEW r \in Runs, Cancel(r) PROVE TypeOK'
  BY <1>15 DEF Cancel
<1>16. CASE Crash
  BY <1>16 DEF Crash
<1>17. CASE UNCHANGED vars
  BY <1>17 DEF vars
<1> QED
  BY <1>1, <1>2, <1>3, <1>4, <1>5, <1>6, <1>7, <1>8, <1>9, <1>10, <1>11,
     <1>12, <1>13, <1>14, <1>15, <1>16, <1>17 DEF Next, Run, Clone

\* Outside ensureMirror's locked part, a step leaves the mirror and the lock
\* alone and brings nobody into that part.
LEMMA OtherStep ==
  ASSUME Inductive, NEW r \in Runs,
         \/ BeginCreate(r) \/ CheckMirror(r) \/ FindLock(r) \/ WaitOver(r)
         \/ WaitGivesUp(r) \/ Recheck(r) \/ AddWorktree(r) \/ AddFails(r) \/ Destroy(r)
  PROVE  /\ UNCHANGED <<mirror, locked, tries, ended, crashes>>
         /\ pc' \in [Runs -> Places] /\ pc[r] \notin Cloning /\ pc'[r] \notin Cloning
         /\ \A s \in Runs \ {r} : pc'[s] = pc[s]
         /\ doubted \subseteq doubted' /\ misled \subseteq misled'
         /\ pc'[r] \in {"lock"} \cup Waiting => r \in doubted' \cup misled' \cup ended
<1> USE DEF Inductive, TypeOK, PlaceInv, Places, Creating, Waiting, Cloning, Ended
<1>1. CASE BeginCreate(r)
  BY <1>1 DEF BeginCreate
<1>2. CASE CheckMirror(r)
  BY <1>2 DEF CheckMirror, MirrorValidAnswers, Remember
<1>3. CASE FindLock(r) \/ WaitOver(r) \/ WaitGivesUp(r)
  <2>1. CASE FindLock(r)
    BY <2>1 DEF FindLock
  <2>2. CASE WaitOver(r)
    BY <2>2 DEF WaitOver
  <2>3. CASE WaitGivesUp(r)
    BY <2>3 DEF WaitGivesUp
  <2> QED BY <1>3, <2>1, <2>2, <2>3
<1>4. CASE Recheck(r)
  BY <1>4 DEF Recheck
<1>5. CASE AddWorktree(r) \/ AddFails(r) \/ Destroy(r)
  BY <1>5 DEF AddWorktree, AddFails, Destroy
<1> QED BY <1>1, <1>2, <1>3, <1>4, <1>5

\* The holder of the lock is the only run whose step touches the mirror.
LEMMA CloneStep ==
  ASSUME Inductive, NEW r \in Runs, Clone(r)
  PROVE  /\ pc[r] \in Cloning /\ locked
         /\ \A s \in Runs \ {r} : pc[s] \notin Cloning /\ pc'[s] = pc[s]
         /\ pc'[r] \in Cloning \cup {"add", "failed"}
         /\ pc'[r] \in Cloning <=> locked'
         /\ pc'[r] = "backoff" => tries'[r] < MaxAttempts
         /\ pc'[r] = "fetching" => mirror' = [content |-> "partial", repo |-> RepoOf[r]]
         /\ pc'[r] = "ready" => mirror' = [content |-> "complete", repo |-> RepoOf[r]]
         /\ UNCHANGED <<ended, crashes, doubted, misled>>
<1> USE DEF Inductive, TypeOK, PlaceInv, Places, Creating, Waiting, Cloning, Ended
<1>1. pc[r] \in Cloning
  BY DEF Clone, RemoveMirror, StartClone, CloneSucceeds, CloneFails, Backoff, Unlock
<1>2. locked /\ \A s \in Runs \ {r} : pc[s] \notin Cloning
  BY <1>1 DEF OneCloner
<1>3. CASE RemoveMirror(r)
  BY <1>1, <1>2, <1>3 DEF RemoveMirror
<1>4. CASE StartClone(r)
  BY <1>1, <1>2, <1>4 DEF StartClone
<1>5. CASE CloneSucceeds(r)
  BY <1>1, <1>2, <1>5 DEF CloneSucceeds, ClonerOwnsMirror
<1>6. CASE CloneFails(r)
  BY <1>1, <1>2, <1>6 DEF CloneFails
<1>7. CASE Backoff(r)
  BY <1>1, <1>2, <1>7 DEF Backoff
<1>8. CASE Unlock(r)
  BY <1>1, <1>2, <1>8 DEF Unlock
<1> QED BY <1>3, <1>4, <1>5, <1>6, <1>7, <1>8 DEF Clone

LEMMA StepInductive == Inductive /\ [Next]_vars => Inductive'
<1> SUFFICES ASSUME Inductive, [Next]_vars PROVE Inductive'
  OBVIOUS
<1>0. TypeOK'
  BY TypeStep
<1> USE DEF OneCloner, ClonerOwnsMirror, LockHasHolder, PlaceInv
<1>1. ASSUME NEW r \in Runs,
             \/ BeginCreate(r) \/ CheckMirror(r) \/ FindLock(r) \/ WaitOver(r)
             \/ WaitGivesUp(r) \/ Recheck(r) \/ AddWorktree(r) \/ AddFails(r) \/ Destroy(r)
      PROVE Inductive'
  <2>1. /\ UNCHANGED <<mirror, locked, tries, ended, crashes>>
        /\ pc[r] \notin Cloning /\ pc'[r] \notin Cloning
        /\ \A s \in Runs \ {r} : pc'[s] = pc[s]
        /\ doubted \subseteq doubted' /\ misled \subseteq misled'
        /\ pc'[r] \in {"lock"} \cup Waiting => r \in doubted' \cup misled' \cup ended
    BY <1>1, OtherStep
  <2>2. OneCloner' /\ ClonerOwnsMirror' /\ LockHasHolder'
    BY <2>1 DEF Inductive, Cloning
  <2>3. \A s \in Runs : PlaceInv(s)'
    BY <2>1 DEF Inductive, Cloning
  <2> QED BY <1>0, <2>2, <2>3 DEF Inductive
<1>2. ASSUME NEW r \in Runs, TakeLock(r) PROVE Inductive'
  <2>1. \A s \in Runs : pc[s] \notin Cloning
    BY <1>2 DEF TakeLock, Inductive
  <2>2. pc'[r] = "remove" /\ locked' /\ \A s \in Runs \ {r} : pc'[s] = pc[s] /\ tries'[s] = tries[s]
    BY <1>2 DEF TakeLock, Inductive, TypeOK
  <2>3. UNCHANGED <<mirror, ended, crashes, doubted, misled>> /\ pc[r] = "lock"
    BY <1>2 DEF TakeLock
  <2>4. OneCloner' /\ ClonerOwnsMirror' /\ LockHasHolder'
    BY <2>1, <2>2, <2>3 DEF Inductive, Cloning
  <2>5. \A s \in Runs : PlaceInv(s)'
    BY <2>1, <2>2, <2>3 DEF Inductive, Cloning, Waiting
  <2> QED BY <1>0, <2>4, <2>5 DEF Inductive
<1>3. ASSUME NEW r \in Runs, Clone(r) PROVE Inductive'
  <2>1. /\ \A s \in Runs \ {r} : pc[s] \notin Cloning /\ pc'[s] = pc[s]
        /\ pc'[r] \in Cloning <=> locked'
        /\ pc'[r] = "backoff" => tries'[r] < MaxAttempts
        /\ pc'[r] = "fetching" => mirror' = [content |-> "partial", repo |-> RepoOf[r]]
        /\ pc'[r] = "ready" => mirror' = [content |-> "complete", repo |-> RepoOf[r]]
        /\ UNCHANGED <<ended, crashes, doubted, misled>>
        /\ pc[r] \in Cloning /\ pc'[r] \in Cloning \cup {"add", "failed"}
    BY <1>3, CloneStep
  <2>2. OneCloner' /\ ClonerOwnsMirror' /\ LockHasHolder'
    BY <2>1 DEF Cloning
  <2>3. \A s \in Runs : PlaceInv(s)'
    BY <2>1 DEF Inductive, Cloning, Waiting
  <2> QED BY <1>0, <2>2, <2>3 DEF Inductive
<1>4. ASSUME NEW r \in Runs, Cancel(r) PROVE Inductive'
  BY <1>0, <1>4 DEF Cancel, Inductive
<1>5. CASE Crash
  <2>1. \A s \in Runs : pc'[s] = "dead" \/ (pc'[s] = pc[s] /\ pc[s] \notin Creating)
    BY <1>5 DEF Crash
  <2>2. \A s \in Runs : pc'[s] \notin {"lock"} \cup Waiting \cup Cloning
    BY <2>1 DEF Creating, Waiting, Cloning
  <2>3. crashes' # 0
    BY <1>5 DEF Crash, Inductive, TypeOK
  <2> QED BY <1>0, <2>2, <2>3 DEF Inductive, Cloning
<1>6. CASE UNCHANGED vars
  BY <1>0, <1>6 DEF vars, Inductive
<1> QED
  BY <1>1, <1>2, <1>3, <1>4, <1>5, <1>6 DEF Next, Run

LEMMA InductiveInvariant == Spec => []Inductive
BY InitInductive, StepInductive, PTL DEF Spec

\* Every reachable state is of the declared types; the attempts of a run stay
\* within ensureMirror's three.
THEOREM TypeCorrect == Spec => []TypeOK
<1>1. Inductive => TypeOK
  BY DEF Inductive
<1> QED BY <1>1, InductiveInvariant, PTL

\* The lock file is mutual exclusion: never do two runs remove or clone the
\* mirror at a time, whatever fails, is cancelled or is killed.
THEOREM MutualExclusion == Spec => []OneCloner
<1>1. Inductive => OneCloner
  BY DEF Inductive
<1> QED BY <1>1, InductiveInvariant, PTL

\* The mirror a run lets go of is complete and of the run's own repository.
THEOREM CloneIntact == Spec => []ClonerOwnsMirror
<1>1. Inductive => ClonerOwnsMirror
  BY DEF Inductive
<1> QED BY <1>1, InductiveInvariant, PTL

\* Only a crash can leave the lock file without a holder.
THEOREM NoStrayLock == Spec => []LockHasHolder
<1>1. Inductive => LockHasHolder
  BY DEF Inductive
<1> QED BY <1>1, InductiveInvariant, PTL

\* A complete mirror is only ever replaced by a run that had looked for it too
\* early, whose own git failed when it looked, or whose context ended: a run that
\* git answered, about a mirror that was complete, never removes one.
THEOREM StaleCheckOnly == Spec => ReplacedOnlyOnStaleCheck
<1> DEFINE Replacing == mirror.content = "complete" /\ mirror'.content # "complete"
                          => \E r \in doubted \cup misled \cup ended : pc[r] = "remove"
<1>1. Inductive /\ [Next]_vars => [Replacing]_vars
  <2> SUFFICES ASSUME Inductive, [Next]_vars, mirror.content = "complete",
                      mirror'.content # "complete"
               PROVE  \E r \in doubted \cup misled \cup ended : pc[r] = "remove"
    OBVIOUS
  <2>1. PICK r \in Runs : Clone(r)
    BY OtherStep DEF Next, Run, TakeLock, Cancel, Crash, vars
  <2>2. pc[r] \in Cloning /\ r \in doubted \cup misled \cup ended
    BY <2>1, CloneStep DEF Inductive, PlaceInv
  <2>3. CASE RemoveMirror(r)
    BY <2>2, <2>3 DEF RemoveMirror
  <2>4. CASE StartClone(r)
    BY <2>4 DEF StartClone, Inductive, PlaceInv
  <2>5. CASE CloneSucceeds(r)
    BY <2>5 DEF CloneSucceeds, Inductive, ClonerOwnsMirror
  <2>6. CASE CloneFails(r)
    BY <2>6 DEF CloneFails, Inductive, ClonerOwnsMirror
  <2>7. CASE Backoff(r) \/ Unlock(r)
    BY <2>7 DEF Backoff, Unlock
  <2> QED BY <2>1, <2>3, <2>4, <2>5, <2>6, <2>7 DEF Clone
<1> QED BY <1>1, InductiveInvariant, PTL DEF Spec, ReplacedOnlyOnStaleCheck
=============================================================================
