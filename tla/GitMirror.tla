----------------------------- MODULE GitMirror -----------------------------
(***************************************************************************)
(* GitMirrorWitness.witness (witness.py): append the head to a file of a   *)
(* repository, git add, git commit, git rev-parse.  Nothing keeps two      *)
(* calls apart but git itself, each command may fail or run into its       *)
(* timeout before or after it took effect, and the caller may die between  *)
(* any two of them.                                                        *)
(*                                                                         *)
(* Of git, which is outside this repository, what matters here: a command  *)
(* that changes the index holds index.lock meanwhile and fails at once     *)
(* when it is held; one that is killed leaves it behind; a commit records  *)
(* the index as it was when it began, fails when that is what HEAD holds,  *)
(* and moves HEAD only if HEAD has not moved.                              *)
(***************************************************************************)
EXTENDS Naturals, SequencesExt

CONSTANTS
    Callers,  \* the calls; each witnesses a head of its own
    None,     \* nobody
    Dead      \* holds the lock a killed git has left behind

ASSUME CallersAssumption == None \notin Callers /\ Dead \notin Callers /\ None # Dead

(***************************************************************************)
(* A call's line is named by the call.  A write that fails on the way may  *)
(* leave a piece of it, which is no whole line; what is appended next goes *)
(* on right behind it.                                                     *)
(***************************************************************************)
Torn(c) == [torn |-> c]

ASSUME TornAssumption == \A c \in Callers : Torn(c) \notin Callers

VARIABLES
    pc,        \* pc[c]: where call c is
    worktree,  \* the lines of the file in the working tree
    index,     \* the lines of the file as staged
    commits,   \* the lines of the file in each commit, HEAD last
    lock,      \* who holds index.lock
    tree,      \* tree[c]: the lines the commit of c will record
    parent,    \* parent[c]: how many commits there were when it began
    commit,    \* commit[c]: which commit c was told
    faulted,   \* the calls something went wrong under
    disturbed  \* the calls that have run while another one did

vars == <<pc, worktree, index, commits, lock, tree, parent, commit, faulted, disturbed>>

HEAD == IF commits = <<>> THEN <<>> ELSE Last(commits)

Over == {"ok", "error", "crashed"}

Running == {c \in Callers : pc[c] \notin {"append"} \cup Over}

Go(c, label) == pc' = [pc EXCEPT ![c] = label]

(***************************************************************************)
(* The step of c goes wrong by itself: an exception, caught by witness(),  *)
(* or the end of the calling process.                                      *)
(***************************************************************************)
Fault(c) ==
    /\ \E how \in {"error", "crashed"} : Go(c, how)
    /\ faulted' = faulted \cup {c}

-----------------------------------------------------------------------------
(***************************************************************************)
(* open(path, "a") and write.  The call begins here.                       *)
(***************************************************************************)
Begin(c) ==
    /\ pc[c] = "append"
    /\ disturbed' = IF Running = {} THEN disturbed ELSE disturbed \cup Running \cup {c}
    /\ UNCHANGED <<index, commits, lock, tree, parent, commit>>

WriteFails(c) == Fault(c) /\ worktree' \in {worktree, Append(worktree, Torn(c))}

(***************************************************************************)
(* Mutant: open(path, "w").                                                *)
(***************************************************************************)
AppendOverwrites(c) ==
    /\ Begin(c)
    /\ \/ worktree' = <<c>> /\ Go(c, "add") /\ UNCHANGED faulted
       \/ WriteFails(c)

(***************************************************************************)
(* Mutant: a file with uncommitted lines is left alone.                    *)
(***************************************************************************)
AppendIfClean(c) ==
    /\ Begin(c)
    /\ \/ /\ worktree = HEAD
          /\ worktree' = Append(worktree, c) /\ Go(c, "add") /\ UNCHANGED faulted
       \/ worktree # HEAD /\ Go(c, "error") /\ UNCHANGED <<worktree, faulted>>
       \/ WriteFails(c)

AppendLine(c) ==
    /\ Begin(c)
    /\ \/ worktree' = Append(worktree, c) /\ Go(c, "add") /\ UNCHANGED faulted
       \/ WriteFails(c)

(***************************************************************************)
(* Mutant: git add waits for the lock.                                     *)
(***************************************************************************)
StartAddWaiting(c) ==
    /\ pc[c] = "add"
    /\ lock = None
    /\ lock' = c /\ Go(c, "adding") /\ UNCHANGED faulted
    /\ UNCHANGED <<worktree, index, commits, tree, parent, commit, disturbed>>

(***************************************************************************)
(* git add begins: it takes the lock or fails.                             *)
(***************************************************************************)
StartAdd(c) ==
    /\ pc[c] = "add"
    /\ \/ lock = None /\ lock' = c /\ Go(c, "adding") /\ UNCHANGED faulted
       \/ lock # None /\ Go(c, "error") /\ UNCHANGED <<lock, faulted>>
       \/ Fault(c) /\ UNCHANGED lock
    /\ UNCHANGED <<worktree, index, commits, tree, parent, commit, disturbed>>

(***************************************************************************)
(* It ends: having staged the file, the caller learning so or not; or      *)
(* killed at the timeout, its lock left behind.                            *)
(***************************************************************************)
FinishAdd(c) ==
    /\ pc[c] = "adding"
    /\ \/ /\ index' = worktree /\ lock' = None
          /\ (Go(c, "commit") /\ UNCHANGED faulted) \/ Fault(c)
       \/ Fault(c) /\ lock' = Dead /\ UNCHANGED index
    /\ UNCHANGED <<worktree, commits, tree, parent, commit, disturbed>>

(***************************************************************************)
(* git commit begins: locked out, nothing to commit, or under way.         *)
(***************************************************************************)
StartCommit(c) ==
    /\ pc[c] = "commit"
    /\ \/ /\ lock # None \/ index = HEAD
          /\ Go(c, "error")
          /\ UNCHANGED <<tree, parent, faulted>>
       \/ /\ lock = None /\ index # HEAD
          /\ Go(c, "committing")
          /\ tree' = [tree EXCEPT ![c] = index]
          /\ parent' = [parent EXCEPT ![c] = Len(commits)]
          /\ UNCHANGED faulted
       \/ Fault(c) /\ UNCHANGED <<tree, parent>>
    /\ UNCHANGED <<worktree, index, commits, lock, commit, disturbed>>

(***************************************************************************)
(* Mutant: subprocess.run without check=True.                              *)
(***************************************************************************)
FinishCommitUnchecked(c) ==
    /\ pc[c] = "committing"
    /\ \/ /\ parent[c] = Len(commits)
          /\ commits' = Append(commits, tree[c])
          /\ UNCHANGED lock
          /\ (Go(c, "rev-parse") /\ UNCHANGED faulted) \/ Fault(c)
       \/ /\ parent[c] # Len(commits)
          /\ Go(c, "rev-parse")
          /\ UNCHANGED <<commits, lock, faulted>>
       \/ Fault(c) /\ lock' \in {lock, IF lock = None THEN Dead ELSE lock} /\ UNCHANGED commits
    /\ UNCHANGED <<worktree, index, tree, parent, commit, disturbed>>

(***************************************************************************)
(* It ends: HEAD moved, the caller learning so or not; refused, for HEAD   *)
(* is not where it was; or killed, perhaps with the lock in its hands.     *)
(***************************************************************************)
FinishCommit(c) ==
    /\ pc[c] = "committing"
    /\ \/ /\ parent[c] = Len(commits)
          /\ commits' = Append(commits, tree[c])
          /\ UNCHANGED lock
          /\ (Go(c, "rev-parse") /\ UNCHANGED faulted) \/ Fault(c)
       \/ /\ parent[c] # Len(commits)
          /\ Go(c, "error")
          /\ UNCHANGED <<commits, lock, faulted>>
       \/ Fault(c) /\ lock' \in {lock, IF lock = None THEN Dead ELSE lock} /\ UNCHANGED commits
    /\ UNCHANGED <<worktree, index, tree, parent, commit, disturbed>>

(***************************************************************************)
(* Mutant: the commit before HEAD is reported.                             *)
(***************************************************************************)
RevParsePrevious(c) ==
    /\ pc[c] = "rev-parse"
    /\ \/ Go(c, "ok") /\ commit' = [commit EXCEPT ![c] = Len(commits) - 1] /\ UNCHANGED faulted
       \/ Fault(c) /\ UNCHANGED commit
    /\ UNCHANGED <<worktree, index, commits, lock, tree, parent, disturbed>>

(***************************************************************************)
(* git rev-parse HEAD: where HEAD is now.                                  *)
(***************************************************************************)
RevParse(c) ==
    /\ pc[c] = "rev-parse"
    /\ \/ Go(c, "ok") /\ commit' = [commit EXCEPT ![c] = Len(commits)] /\ UNCHANGED faulted
       \/ Fault(c) /\ UNCHANGED commit
    /\ UNCHANGED <<worktree, index, commits, lock, tree, parent, disturbed>>

-----------------------------------------------------------------------------
Init ==
    /\ pc = [c \in Callers |-> "append"]
    /\ worktree = <<>> /\ index = <<>> /\ commits = <<>>
    /\ lock = None
    /\ tree = [c \in Callers |-> <<>>]
    /\ parent = [c \in Callers |-> 0]
    /\ commit = [c \in Callers |-> 0]
    /\ faulted = {} /\ disturbed = {}

GitStep(c) ==
    StartAdd(c) \/ FinishAdd(c) \/ StartCommit(c) \/ FinishCommit(c) \/ RevParse(c)

Next == \E c \in Callers : AppendLine(c) \/ GitStep(c)

(***************************************************************************)
(* Every command is waited for no longer than its timeout, so a call that  *)
(* has begun goes on; no call has to be made.                              *)
(***************************************************************************)
Spec == Init /\ [][Next]_vars /\ \A c \in Callers : WF_vars(GitStep(c))

-----------------------------------------------------------------------------
Texts == Callers \cup {Torn(c) : c \in Callers}

Lines == Seq(Texts)

TypeOK ==
    /\ pc \in [Callers -> {"append", "add", "adding", "commit", "committing", "rev-parse"}
                          \cup Over]
    /\ worktree \in Lines /\ index \in Lines
    /\ commits \in Seq(Lines)
    /\ lock \in Callers \cup {None, Dead}
    /\ tree \in [Callers -> Lines]
    /\ parent \in [Callers -> Nat]
    /\ commit \in [Callers -> Nat]
    /\ faulted \subseteq Callers /\ disturbed \subseteq Callers
    /\ \A c \in Callers :
          /\ pc[c] = "adding" <=> lock = c
          /\ commit[c] \in IF pc[c] = "ok" THEN 1..Len(commits) ELSE {0}

(***************************************************************************)
(* An ok-witness is evidence: the commit it names holds the text of its    *)
(* line, although HEAD may be the work of another call by the time it is   *)
(* read, and a piece of another's line may stand before it.                *)
(***************************************************************************)
OkIsEvidence ==
    \A c \in Callers : pc[c] = "ok" => c \in Range(commits[commit[c]])

(***************************************************************************)
(* What a failed or dead call leaves behind, a line or a piece of one that *)
(* was appended or staged and never committed, does not fail the next: a   *)
(* call that ran alone and under which nothing went wrong fails only when  *)
(* git's lock was left behind.                                             *)
(***************************************************************************)
LeftoversHarmless ==
    \A c \in Callers :
        pc[c] = "error" /\ c \notin faulted \cup disturbed => lock = Dead

(***************************************************************************)
(* The mirror is a register of heads: HEAD's file only grows, and holds    *)
(* what each call wrote once, whatever the calls do to each other.         *)
(***************************************************************************)
Told == [c \in Callers |-> IF pc[c] = "ok" THEN "ok"
                           ELSE IF pc[c] \in Over THEN "failed" ELSE "pending"]

Register == INSTANCE HeadRegister WITH log <- HEAD, told <- Told

ImplementsRegister == Register!Spec

(***************************************************************************)
(* witness() returns: no call hangs on another one or on what another one  *)
(* has left behind.                                                        *)
(***************************************************************************)
WitnessReturns == \A c \in Callers : c \in Running ~> c \notin Running

=============================================================================
