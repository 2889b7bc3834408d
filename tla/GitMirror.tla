------------------------------- MODULE GitMirror -------------------------------
(***************************************************************************)
(* The git workspaces of internal/workspace/git/git.go: every run takes a  *)
(* worktree of one bare mirror, which the first run clones under a lock    *)
(* file.  The mirror, the lock and the worktrees are directories that the  *)
(* workers of one benchmark, and other harness processes, share.           *)
(*                                                                         *)
(* A run is one Create ... Destroy of a run id.  Git's own work (fetching  *)
(* objects, checking files out) is abstracted to whether it succeeds.      *)
(***************************************************************************)
EXTENDS Integers, FiniteSets

CONSTANTS
  Runs,        \* run ids
  Repos,       \* repositories, without Scratch
  Scratch,     \* the empty Repo: a scratch directory, no git
  RepoOf,      \* Spec.Repo of each run
  MayCancel,   \* can a run's context end?
  MayFail,     \* can git commands and file operations fail on their own?
  MaxCrashes   \* bound: how often the running processes may be killed

ASSUME RunsAssumption ==
  /\ Scratch \notin Repos
  /\ RepoOf \in [Runs -> Repos \cup {Scratch}]
  /\ MayCancel \in BOOLEAN
  /\ MayFail \in BOOLEAN
  /\ MaxCrashes \in Nat

VARIABLES
  mirror,    \* mirror.git: [content, repo]; content is "absent", "partial" or "complete"
  locked,    \* mirror.git.lock exists
  pc,        \* each run's place
  tries,     \* ensureMirror: the clone attempt of each run
  ended,     \* the runs whose context has ended
  worktree,  \* each run's worktree: [state, repo]
  crashes,   \* crashes so far
  doubted,   \* history: the runs that saw no mirror because it was not complete
  misled     \* history: the runs that saw no mirror although it was complete

vars == <<mirror, locked, pc, tries, ended, worktree, crashes, doubted, misled>>

MaxAttempts == 3

NoMirror   == [content |-> "absent", repo |-> Scratch]
NoWorktree == [state |-> "none", repo |-> Scratch]

\* The places of a run: before Create; in ensureMirror up to the lock; in the
\* wait for another's lock; holding the lock; after ensureMirror; the end.
Cloning  == {"remove", "clone", "fetching", "backoff", "ready", "giveup"}
Waiting  == {"wait", "recheck"}
Creating == {"check", "lock", "add"} \cup Waiting \cup Cloning
Ended    == {"done", "failed", "dead"}
Places   == {"idle", "using"} \cup Creating \cup Ended

\* What breaks when mirror.git goes away: a worktree's git directory is in it.
Broken(wt) == [r \in Runs |-> IF wt[r].state = "intact" /\ wt[r].repo # Scratch
                              THEN [wt[r] EXCEPT !.state = "broken"] ELSE wt[r]]

TypeOK ==
  /\ mirror \in [content : {"absent", "partial", "complete"}, repo : Repos \cup {Scratch}]
  /\ locked \in BOOLEAN
  /\ pc \in [Runs -> Places]
  /\ tries \in [Runs -> 0..MaxAttempts]
  /\ ended \subseteq Runs
  /\ worktree \in [Runs -> [state : {"none", "intact", "broken"}, repo : Repos \cup {Scratch}]]
  /\ crashes \in 0..MaxCrashes
  /\ doubted \subseteq Runs
  /\ misled \subseteq Runs

Init ==
  /\ mirror = NoMirror
  /\ locked = FALSE
  /\ pc = [r \in Runs |-> "idle"]
  /\ tries = [r \in Runs |-> 0]
  /\ ended = {}
  /\ worktree = [r \in Runs |-> NoWorktree]
  /\ crashes = 0
  /\ doubted = {}
  /\ misled = {}

Goto(r, place) == pc' = [pc EXCEPT ![r] = place]

-----------------------------------------------------------------------------
(* Create *)

\* With no repository, a directory of its own, if it can be made; otherwise
\* through the mirror.
BeginCreate(r) ==
  /\ pc[r] = "idle"
  /\ \/ /\ RepoOf[r] = Scratch
        /\ worktree' = [worktree EXCEPT ![r].state = "intact"]
        /\ Goto(r, "using")
     \/ /\ RepoOf[r] = Scratch
        /\ MayFail
        /\ Goto(r, "failed")
        /\ UNCHANGED worktree
     \/ /\ RepoOf[r] # Scratch
        /\ Goto(r, "check")
        /\ UNCHANGED worktree
  /\ UNCHANGED <<mirror, locked, tries, ended, crashes, doubted, misled>>

\* mirrorValid: the path exists and git accepts it as a bare repository.  A
\* clone in progress (or abandoned) may or may not look valid; git does not
\* even start once the context has ended, and a git that fails for a reason of
\* its own says "no" to a complete mirror as well.
MirrorValidAnswers(r) ==
  IF r \in ended \/ mirror.content = "absent" THEN {FALSE}
  ELSE IF mirror.content = "partial" \/ MayFail THEN BOOLEAN
  ELSE {TRUE}

\* Why run r saw no mirror: it was not complete, or its git failed on it.
Remember(r, valid) ==
  /\ doubted' = IF ~valid /\ mirror.content # "complete" THEN doubted \cup {r} ELSE doubted
  /\ misled' = IF ~valid /\ mirror.content = "complete" THEN misled \cup {r} ELSE misled

\* Fault: the fast path is missing, every run goes for the lock.
CheckMirrorNever(r) ==
  /\ pc[r] = "check"
  /\ Goto(r, "lock")
  /\ Remember(r, mirror.content = "complete")
  /\ UNCHANGED <<mirror, locked, tries, ended, worktree, crashes>>

\* The fast path, which does not look at the lock; otherwise on to the lock, in a
\* root directory that may fail to be made.
CheckMirror(r) ==
  /\ pc[r] = "check"
  /\ \E valid \in MirrorValidAnswers(r) :
       /\ \/ valid /\ Goto(r, "add")
          \/ ~valid /\ Goto(r, "lock")
          \/ ~valid /\ MayFail /\ Goto(r, "failed")
       /\ Remember(r, valid)
  /\ UNCHANGED <<mirror, locked, tries, ended, worktree, crashes>>

\* Fault: the lock file is created without O_EXCL.
TakeLockShared(r) ==
  /\ pc[r] = "lock"
  /\ locked' = TRUE
  /\ tries' = [tries EXCEPT ![r] = 1]
  /\ Goto(r, "remove")
  /\ UNCHANGED <<mirror, ended, worktree, crashes, doubted, misled>>

\* os.OpenFile with O_EXCL succeeds for one run.
TakeLock(r) ==
  /\ pc[r] = "lock"
  /\ ~locked
  /\ locked' = TRUE
  /\ tries' = [tries EXCEPT ![r] = 1]
  /\ Goto(r, "remove")
  /\ UNCHANGED <<mirror, ended, worktree, crashes, doubted, misled>>

\* Any error of that call is taken for another run's lock.
FindLock(r) ==
  /\ pc[r] = "lock"
  /\ locked \/ MayFail
  /\ Goto(r, "wait")
  /\ UNCHANGED <<mirror, locked, tries, ended, worktree, crashes, doubted, misled>>

\* The wait ends when the lock file is gone, when the context has ended, or at
\* the deadline of two minutes, which may come at any time.
WaitOver(r) ==
  /\ pc[r] = "wait"
  /\ ~locked
  /\ Goto(r, "recheck")
  /\ UNCHANGED <<mirror, locked, tries, ended, worktree, crashes, doubted, misled>>

\* Fault: the wait has no deadline, only the context can end it.
WaitGivesUpNever(r) ==
  /\ pc[r] = "wait"
  /\ locked
  /\ r \in ended
  /\ Goto(r, "failed")
  /\ UNCHANGED <<mirror, locked, tries, ended, worktree, crashes, doubted, misled>>

\* Fault: at the deadline the waiter takes the lock for stale and clones.
WaitGivesUpSteals(r) ==
  /\ pc[r] = "wait"
  /\ locked
  /\ tries' = [tries EXCEPT ![r] = 1]
  /\ Goto(r, "remove")
  /\ UNCHANGED <<mirror, locked, ended, worktree, crashes, doubted, misled>>

WaitGivesUp(r) ==
  /\ pc[r] = "wait"
  /\ locked
  /\ Goto(r, "failed")
  /\ UNCHANGED <<mirror, locked, tries, ended, worktree, crashes, doubted, misled>>

\* "mirror missing after lock release" is an error, not another attempt.
Recheck(r) ==
  /\ pc[r] = "recheck"
  /\ \E valid \in MirrorValidAnswers(r) : Goto(r, IF valid THEN "add" ELSE "failed")
  /\ UNCHANGED <<mirror, locked, tries, ended, worktree, crashes, doubted, misled>>

-----------------------------------------------------------------------------
(* ensureMirror with the lock held *)

\* os.RemoveAll(mirror), whatever is there; its error is ignored, and then all of
\* the mirror or a part of it is left.
RemoveMirror(r) ==
  /\ pc[r] = "remove"
  /\ \/ mirror' = NoMirror /\ worktree' = Broken(worktree)
     \/ /\ MayFail
        /\ mirror.content # "absent"
        /\ mirror' = [mirror EXCEPT !.content = "partial"]
        /\ worktree' = Broken(worktree)
     \/ MayFail /\ UNCHANGED <<mirror, worktree>>
  /\ Goto(r, "clone")
  /\ UNCHANGED <<locked, tries, ended, crashes, doubted, misled>>

\* git clone --mirror starts, unless the context has ended already; it refuses a
\* directory that holds something.
StartClone(r) ==
  /\ pc[r] = "clone"
  /\ IF r \in ended \/ mirror.content # "absent"
     THEN /\ Goto(r, IF tries[r] < MaxAttempts THEN "backoff" ELSE "giveup")
          /\ UNCHANGED mirror
     ELSE /\ mirror' = [content |-> "partial", repo |-> RepoOf[r]]
          /\ Goto(r, "fetching")
  /\ UNCHANGED <<locked, tries, ended, worktree, crashes, doubted, misled>>

CloneSucceeds(r) ==
  /\ pc[r] = "fetching"
  /\ mirror' = [mirror EXCEPT !.content = "complete"]
  /\ Goto(r, "ready")
  /\ UNCHANGED <<locked, tries, ended, worktree, crashes, doubted, misled>>

\* A failed clone may clear up after itself; a killed one does not.
CloneFails(r) ==
  /\ pc[r] = "fetching"
  /\ MayFail \/ r \in ended
  /\ \/ mirror' = NoMirror /\ worktree' = Broken(worktree)
     \/ UNCHANGED <<mirror, worktree>>
  /\ Goto(r, IF tries[r] < MaxAttempts THEN "backoff" ELSE "giveup")
  /\ UNCHANGED <<locked, tries, ended, crashes, doubted, misled>>

\* Fault: the return at the end of the context skips the removal of the lock.
BackoffLeaksLock(r) ==
  /\ pc[r] = "backoff"
  /\ \/ /\ tries' = [tries EXCEPT ![r] = @ + 1]
        /\ Goto(r, "remove")
     \/ /\ r \in ended
        /\ Goto(r, "failed")
        /\ UNCHANGED tries
  /\ UNCHANGED <<mirror, locked, ended, worktree, crashes, doubted, misled>>

\* The select between the delay and the end of the context.
Backoff(r) ==
  /\ pc[r] = "backoff"
  /\ \/ /\ tries' = [tries EXCEPT ![r] = @ + 1]
        /\ Goto(r, "remove")
     \/ /\ r \in ended
        /\ Goto(r, "giveup")
        /\ UNCHANGED tries
  /\ UNCHANGED <<mirror, locked, ended, worktree, crashes, doubted, misled>>

\* The deferred os.Remove(lock), on every way out of ensureMirror.
Unlock(r) ==
  /\ pc[r] \in {"ready", "giveup"}
  /\ locked' = FALSE
  /\ tries' = [tries EXCEPT ![r] = 0]
  /\ Goto(r, IF pc[r] = "ready" THEN "add" ELSE "failed")
  /\ UNCHANGED <<mirror, ended, worktree, crashes, doubted, misled>>

-----------------------------------------------------------------------------
(* The worktree *)

\* git worktree add on whatever the mirror holds now; a half-fetched mirror
\* may or may not have the commit.
AddWorktree(r) ==
  /\ pc[r] = "add"
  /\ r \notin ended
  /\ mirror.content # "absent"
  /\ worktree' = [worktree EXCEPT ![r] = [state |-> "intact", repo |-> mirror.repo]]
  /\ Goto(r, "using")
  /\ UNCHANGED <<mirror, locked, tries, ended, crashes, doubted, misled>>

AddFails(r) ==
  /\ pc[r] = "add"
  /\ MayFail \/ r \in ended \/ mirror.content # "complete"
  /\ Goto(r, "failed")
  /\ UNCHANGED <<mirror, locked, tries, ended, worktree, crashes, doubted, misled>>

\* Destroy, on a context of its own; a worktree the mirror does not know is
\* removed as a directory.
Destroy(r) ==
  /\ pc[r] = "using"
  /\ worktree' = [worktree EXCEPT ![r] = NoWorktree]
  /\ Goto(r, "done")
  /\ UNCHANGED <<mirror, locked, tries, ended, crashes, doubted, misled>>

-----------------------------------------------------------------------------
(* The environment *)

\* Only Create reads the context.
Cancel(r) ==
  /\ MayCancel
  /\ pc[r] \in Creating
  /\ r \notin ended
  /\ ended' = ended \cup {r}
  /\ UNCHANGED <<mirror, locked, pc, tries, worktree, crashes, doubted, misled>>

\* The processes are killed: what is on disk stays as it is, the lock included.
\* Runs that have not begun belong to processes started later.
Crash ==
  /\ crashes < MaxCrashes
  /\ \E r \in Runs : pc[r] \in Creating \cup {"using"}
  /\ crashes' = crashes + 1
  /\ pc' = [r \in Runs |-> IF pc[r] \in Creating \cup {"using"} THEN "dead" ELSE pc[r]]
  /\ tries' = [r \in Runs |-> 0]
  /\ UNCHANGED <<mirror, locked, ended, worktree, doubted, misled>>

Clone(r) == RemoveMirror(r) \/ StartClone(r) \/ CloneSucceeds(r) \/ CloneFails(r)
              \/ Backoff(r) \/ Unlock(r)
Run(r) == BeginCreate(r) \/ CheckMirror(r) \/ TakeLock(r) \/ FindLock(r)
            \/ WaitOver(r) \/ WaitGivesUp(r) \/ Recheck(r) \/ Clone(r)
            \/ AddWorktree(r) \/ AddFails(r) \/ Destroy(r)

Next == (\E r \in Runs : Run(r) \/ Cancel(r)) \/ Crash

Spec == Init /\ [][Next]_vars

\* Each run's goroutine keeps going: git commands end, sleeps end, and the
\* deadline of the wait comes.
FairSpec == Spec /\ \A r \in Runs : WF_vars(Run(r))
-----------------------------------------------------------------------------
(* Properties. *)

\* The lock file admits one cloner at a time (git.go 73-96).
OneCloner ==
  \A r, s \in Runs : pc[r] \in Cloning /\ pc[s] \in Cloning => r = s

\* What the holder cloned is what is there when it lets go of the lock: nobody
\* else has touched the mirror meanwhile, and it is a clone of its own Repo.
ClonerOwnsMirror ==
  \A r \in Runs :
    /\ pc[r] = "fetching" => mirror = [content |-> "partial", repo |-> RepoOf[r]]
    /\ pc[r] = "ready" => mirror = [content |-> "complete", repo |-> RepoOf[r]]

\* Every way out of ensureMirror removes the lock (the defer of git.go:96, with
\* three failed clones and the cancelled backoff among them): only a killed
\* process leaves it behind.
LockHasHolder ==
  locked /\ crashes = 0 => \E r \in Runs : pc[r] \in Cloning

\* The inductive invariant behind the safety properties: what each place of
\* ensureMirror says about the lock, the mirror, the attempts and the check.
PlaceInv(r) ==
  /\ pc[r] \in Cloning => locked
  /\ pc[r] = "backoff" => tries[r] < MaxAttempts
  /\ pc[r] \in {"lock"} \cup Waiting \cup Cloning => r \in doubted \cup misled \cup ended

Inductive ==
  /\ TypeOK
  /\ OneCloner
  /\ ClonerOwnsMirror
  /\ LockHasHolder
  /\ \A r \in Runs : PlaceInv(r)

\* A complete mirror is thrown away only by a run that looked for it before it was
\* complete and came for the lock after, whose own git failed on it, or whose
\* context ended: any other run reuses it (66-69), whatever the others did.
ReplacedOnlyOnStaleCheck ==
  [][ mirror.content = "complete" /\ mirror'.content # "complete"
        => \E r \in doubted \cup misled \cup ended : pc[r] = "remove" ]_vars

\* A run that starts creating its workspace gets it or gives up, in spite of
\* failing clones, of locks left behind and of runs that keep the lock.
CreateEnds ==
  \A r \in Runs : pc[r] \in Creating ~> pc[r] \in {"using"} \cup Ended

\* The package "keeps concurrent runs fully isolated" (git.go:4): nothing another
\* run does takes away the mirror under a run's worktree.
Isolated == \A r \in Runs : worktree[r].state # "broken"
=============================================================================
