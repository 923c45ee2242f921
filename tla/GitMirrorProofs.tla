--------------------------- MODULE GitMirrorProofs ---------------------------
(***************************************************************************)
(* Theorems about GitMirror, for any number of calls.                      *)
(***************************************************************************)
EXTENDS GitMirror, SequenceTheorems, TLAPS

-----------------------------------------------------------------------------
(***************************************************************************)
(* Prefixes, element by element.                                           *)
(***************************************************************************)
\* A prefix is no longer than the sequence and agrees with it.
LEMMA PrefixElements ==
  ASSUME NEW S, NEW s \in Seq(S), NEW t \in Seq(S)
  PROVE  IsPrefix(s, t) <=> Len(s) <= Len(t) /\ \A n \in 1..Len(s) : s[n] = t[n]
  <1>1. ASSUME Len(s) <= Len(t)
        PROVE  SubSeq(s, 1, Len(s)) = SubSeq(t, 1, Len(s)) <=> \A n \in 1..Len(s) : s[n] = t[n]
    <2>1. SubSeq(s, 1, Len(s)) = s
      BY SubSeqFull
    <2>2. SubSeq(t, 1, Len(s)) \in Seq(S) /\ Len(SubSeq(t, 1, Len(s))) = Len(s)
          /\ \A n \in 1..Len(s) : SubSeq(t, 1, Len(s))[n] = t[n]
      BY <1>1
    <2> QED
      BY <2>1, <2>2
  <1> QED
    BY <1>1 DEF IsPrefix

\* A sequence is a prefix of itself.
LEMMA PrefixReflexive ==
  ASSUME NEW S, NEW s \in Seq(S)
  PROVE  IsPrefix(s, s)
  BY PrefixElements

\* A prefix of a prefix is a prefix.
LEMMA PrefixTransitive ==
  ASSUME NEW S, NEW s \in Seq(S), NEW t \in Seq(S), NEW u \in Seq(S),
         IsPrefix(s, t), IsPrefix(t, u)
  PROVE  IsPrefix(s, u)
  BY PrefixElements

\* A sequence is a prefix of itself with one more element.
LEMMA PrefixOfAppend ==
  ASSUME NEW S, NEW s \in Seq(S), NEW e \in S
  PROVE  /\ Append(s, e) \in Seq(S)
         /\ IsPrefix(s, Append(s, e))
         /\ Range(Append(s, e)) = Range(s) \cup {e}
  <1>1. /\ Append(s, e) \in Seq(S) /\ Len(Append(s, e)) = Len(s) + 1
        /\ \A n \in 1..Len(s) : Append(s, e)[n] = s[n]
        /\ Append(s, e)[Len(s) + 1] = e
    BY AppendProperties
  <1>2. IsPrefix(s, Append(s, e))
    <2> DEFINE t == Append(s, e)
    <2>1. t \in Seq(S) /\ Len(s) <= Len(t) /\ \A n \in 1..Len(s) : s[n] = t[n]
      BY <1>1
    <2> HIDE DEF t
    <2>2. IsPrefix(s, t)
      BY <2>1, PrefixElements
    <2> QED
      BY <2>2 DEF t
  <1>3. DOMAIN s = 1..Len(s) /\ DOMAIN Append(s, e) = 1..(Len(s) + 1) /\ Len(s) \in Nat
    BY <1>1
  <1>4. Range(Append(s, e)) = Range(s) \cup {e}
    BY <1>1, <1>3 DEF Range
  <1> QED
    BY <1>1, <1>2, <1>4

\* What is in a prefix is in the sequence.
LEMMA PrefixRange ==
  ASSUME NEW S, NEW s \in Seq(S), NEW t \in Seq(S), IsPrefix(s, t)
  PROVE  Range(s) \subseteq Range(t)
  BY PrefixElements DEF Range

\* A prefix of a sequence without repetitions has none.
LEMMA PrefixInjective ==
  ASSUME NEW S, NEW s \in Seq(S), NEW t \in Seq(S), IsPrefix(s, t), IsInjective(t)
  PROVE  IsInjective(s)
  BY PrefixElements DEF IsInjective

\* An element that is not there yet may be appended without repeating one.
LEMMA FreshAppendInjective ==
  ASSUME NEW S, NEW s \in Seq(S), NEW e \in S, IsInjective(s), e \notin Range(s)
  PROVE  IsInjective(Append(s, e))
  <1>1. /\ DOMAIN s = 1..Len(s) /\ DOMAIN Append(s, e) = 1..(Len(s) + 1) /\ Len(s) \in Nat
        /\ \A n \in 1..Len(s) : Append(s, e)[n] = s[n]
        /\ Append(s, e)[Len(s) + 1] = e
    BY AppendProperties
  <1>2. \A n \in 1..Len(s) : s[n] # e
    BY <1>1 DEF Range
  <1>3. ASSUME NEW a \in 1..(Len(s) + 1), NEW b \in 1..(Len(s) + 1),
               Append(s, e)[a] = Append(s, e)[b]
        PROVE  a = b
    <2>1. CASE a = Len(s) + 1 /\ b = Len(s) + 1
      BY <2>1
    <2>2. CASE a = Len(s) + 1 /\ b \in 1..Len(s)
      BY <1>1, <1>2, <1>3, <2>2
    <2>3. CASE a \in 1..Len(s) /\ b = Len(s) + 1
      BY <1>1, <1>2, <1>3, <2>3
    <2>4. CASE a \in 1..Len(s) /\ b \in 1..Len(s)
      BY <1>1, <1>3, <2>4 DEF IsInjective
    <2> QED
      BY <1>1, <2>1, <2>2, <2>3, <2>4
  <1> QED
    BY <1>1, <1>3 DEF IsInjective

-----------------------------------------------------------------------------
(***************************************************************************)
(* The inductive invariant.  Every line goes from the working tree to the  *)
(* index to HEAD and none is ever lost on the way (Grown); how far the     *)
(* line of a call has come follows from where the call is (Placed); and a  *)
(* commit under way that may still move HEAD extends it (Current).         *)
(***************************************************************************)
Grown ==
    /\ IsPrefix(HEAD, index)
    /\ IsPrefix(index, worktree)
    /\ IsInjective(worktree)

Placed(c) ==
    /\ pc[c] = "append" => c \notin Range(worktree) /\ Torn(c) \notin Range(worktree)
    /\ pc[c] \in {"add", "adding"} => c \in Range(worktree)
    /\ pc[c] = "commit" => c \in Range(index)
    /\ pc[c] = "committing" => c \in Range(tree[c])
    /\ pc[c] = "rev-parse" => c \in Range(HEAD)
    /\ pc[c] = "ok" => c \in Range(commits[commit[c]])

Current(c) ==
    pc[c] = "committing" =>
        /\ IsPrefix(tree[c], index)
        /\ parent[c] <= Len(commits)
        /\ parent[c] = Len(commits) => IsPrefix(HEAD, tree[c])

IInv == TypeOK /\ Grown /\ \A c \in Callers : Placed(c) /\ Current(c)

\* HEAD holds lines; when there is no commit it holds none.
LEMMA HeadTyped ==
  ASSUME commits \in Seq(Lines)
  PROVE  /\ HEAD \in Lines
         /\ commits # <<>> => HEAD = commits[Len(commits)] /\ Len(commits) \in 1..Len(commits)
         /\ commits = <<>> => HEAD = <<>> /\ Range(HEAD) = {}
  <1>1. CASE commits = <<>>
    BY <1>1 DEF HEAD, Lines, Range
  <1>2. CASE commits # <<>>
    BY <1>2 DEF HEAD, Last
  <1> QED
    BY <1>1, <1>2

\* The inductive invariant holds before any call.
LEMMA InitOK == Init => IInv
  <1> SUFFICES ASSUME Init
               PROVE  IInv
    OBVIOUS
  <1>1. TypeOK
    BY CallersAssumption DEF Init, TypeOK, Lines, Over
  <1>2. HEAD = <<>> /\ index = <<>> /\ worktree = <<>> /\ <<>> \in Seq(Texts)
    BY DEF Init, HEAD
  <1>3. Range(worktree) = {} /\ IsInjective(worktree)
    BY <1>2 DEF Range, IsInjective
  <1>4. Grown
    BY <1>2, <1>3, PrefixReflexive DEF Grown
  <1>5. \A c \in Callers : Placed(c) /\ Current(c)
    BY <1>3 DEF Init, Placed, Current
  <1> QED
    BY <1>1, <1>4, <1>5 DEF IInv

-----------------------------------------------------------------------------
(***************************************************************************)
(* One lemma per step of a call.                                           *)
(***************************************************************************)
\* A call that moves on moves nobody else.
LEMMA GoMoves ==
  ASSUME TypeOK, NEW c \in Callers, NEW label, Go(c, label)
  PROVE  /\ pc' = [pc EXCEPT ![c] = label]
         /\ pc'[c] = label
         /\ \A d \in Callers \ {c} : pc'[d] = pc[d]
         /\ label \in {"append", "add", "adding", "commit", "committing", "rev-parse"} \cup Over
            => pc' \in [Callers -> {"append", "add", "adding", "commit", "committing",
                                    "rev-parse"} \cup Over]
  BY DEF Go, TypeOK

\* A call that goes wrong is over, and nobody else moves.
LEMMA FaultMoves ==
  ASSUME TypeOK, NEW c \in Callers, Fault(c)
  PROVE  /\ pc' \in [Callers -> {"append", "add", "adding", "commit", "committing",
                                 "rev-parse"} \cup Over]
         /\ pc'[c] \in {"error", "crashed"}
         /\ \A d \in Callers \ {c} : pc'[d] = pc[d]
         /\ faulted' \subseteq Callers
  BY DEF Fault, Go, TypeOK, Over

\* What calls write, and the pieces of it, are texts of their own.
LEMMA TextsDiffer ==
  /\ \A c, d \in Callers : Torn(c) = Torn(d) => c = d
  /\ \A c, d \in Callers : Torn(c) # d
  /\ \A c \in Callers : c \in Texts /\ Torn(c) \in Texts
  <1>1. \A c, d \in Callers : Torn(c) = Torn(d) => c = d
    BY DEF Torn
  <1> QED
    BY <1>1, TornAssumption DEF Texts

\* Appending a text that is not there yet keeps the order of the three files.
LEMMA FreshTextGrows ==
  ASSUME IInv, NEW e \in Texts, e \notin Range(worktree), worktree' = Append(worktree, e),
         UNCHANGED <<index, commits>>
  PROVE  /\ worktree' \in Lines /\ Range(worktree') = Range(worktree) \cup {e}
         /\ Grown'
  <1>1. worktree \in Lines /\ IsInjective(worktree)
    BY DEF IInv, TypeOK, Grown
  <1>2. /\ worktree' \in Lines
        /\ IsPrefix(worktree, worktree')
        /\ Range(worktree') = Range(worktree) \cup {e}
    BY <1>1, PrefixOfAppend DEF Lines
  <1>3. IsInjective(worktree')
    <2>1. worktree \in Seq(Texts)
      BY <1>1 DEF Lines
    <2>2. IsInjective(Append(worktree, e))
      BY <1>1, <2>1, FreshAppendInjective
    <2> QED
      BY <2>2
  <1>4. IsPrefix(index, worktree) /\ index \in Lines
    BY DEF IInv, Grown, TypeOK
  <1>5. IsPrefix(index, worktree')
    BY <1>1, <1>2, <1>4, PrefixTransitive DEF Lines
  <1>6. HEAD' = HEAD
    BY DEF HEAD
  <1> QED
    BY <1>2, <1>3, <1>5, <1>6 DEF IInv, Grown

\* Appending a line keeps the inductive invariant.
LEMMA AppendLineKeeps ==
  ASSUME IInv, NEW c \in Callers, AppendLine(c)
  PROVE  IInv'
  <1>1. TypeOK /\ pc[c] = "append" /\ UNCHANGED <<index, commits, lock, tree, parent, commit>>
    BY DEF IInv, AppendLine, Begin
  <1>2. disturbed' \subseteq Callers
    BY <1>1 DEF AppendLine, Begin, Running, TypeOK
  <1>3. HEAD' = HEAD /\ HEAD \in Lines
    BY <1>1, HeadTyped DEF HEAD, TypeOK
  <1>4. CASE Fault(c) /\ UNCHANGED worktree
    <2>1. TypeOK'
      BY <1>1, <1>2, <1>4, FaultMoves DEF TypeOK
    <2>2. Grown'
      BY <1>1, <1>3, <1>4 DEF IInv, Grown
    <2>3. \A d \in Callers : (Placed(d) /\ Current(d))'
      BY <1>1, <1>3, <1>4, FaultMoves DEF IInv, Placed, Current
    <2> QED
      BY <2>1, <2>2, <2>3 DEF IInv
  <1>5. CASE worktree' = Append(worktree, c) /\ Go(c, "add") /\ UNCHANGED faulted
    <2>1. /\ pc'[c] = "add" /\ \A d \in Callers \ {c} : pc'[d] = pc[d]
          /\ pc' \in [Callers -> {"append", "add", "adding", "commit", "committing",
                                  "rev-parse"} \cup Over]
      BY <1>1, <1>5, GoMoves
    <2>2. c \in Texts /\ c \notin Range(worktree)
      BY <1>1, TextsDiffer DEF IInv, Placed
    <2>3. worktree' \in Lines /\ Range(worktree') = Range(worktree) \cup {c} /\ Grown'
      BY <1>1, <1>5, <2>2, FreshTextGrows
    <2>4. TypeOK'
      BY <1>1, <1>2, <1>5, <2>1, <2>3 DEF TypeOK
    <2>5. \A d \in Callers : Placed(d)'
      <3> TAKE d \in Callers
      <3>1. d # c => Torn(d) # c /\ pc'[d] = pc[d]
        BY <2>1, TextsDiffer
      <3> QED
        BY <1>1, <1>3, <2>1, <2>3, <3>1 DEF IInv, Placed
    <2>6. \A d \in Callers : Current(d)'
      BY <1>1, <1>3, <2>1 DEF IInv, Current
    <2> QED
      BY <2>3, <2>4, <2>5, <2>6 DEF IInv
  <1>6. CASE Fault(c) /\ worktree' = Append(worktree, Torn(c))
    <2>1. /\ pc'[c] \in {"error", "crashed"} /\ \A d \in Callers \ {c} : pc'[d] = pc[d]
          /\ pc' \in [Callers -> {"append", "add", "adding", "commit", "committing",
                                  "rev-parse"} \cup Over]
          /\ faulted' \subseteq Callers
      BY <1>1, <1>6, FaultMoves
    <2>2. Torn(c) \in Texts /\ Torn(c) \notin Range(worktree)
      BY <1>1, TextsDiffer DEF IInv, Placed
    <2>3. worktree' \in Lines /\ Range(worktree') = Range(worktree) \cup {Torn(c)} /\ Grown'
      BY <1>1, <1>6, <2>2, FreshTextGrows
    <2>4. TypeOK'
      BY <1>1, <1>2, <2>1, <2>3 DEF TypeOK
    <2>5. \A d \in Callers : Placed(d)'
      <3> TAKE d \in Callers
      <3>1. d # c => Torn(d) # Torn(c) /\ d # Torn(c) /\ pc'[d] = pc[d]
        BY <2>1, TextsDiffer
      <3> QED
        BY <1>1, <1>3, <2>1, <2>3, <3>1 DEF IInv, Placed
    <2>6. \A d \in Callers : Current(d)'
      BY <1>1, <1>3, <2>1 DEF IInv, Current
    <2> QED
      BY <2>3, <2>4, <2>5, <2>6 DEF IInv
  <1> QED
    BY <1>4, <1>5, <1>6 DEF AppendLine, WriteFails

\* Taking the lock, or failing to, keeps the inductive invariant.
LEMMA StartAddKeeps ==
  ASSUME IInv, NEW c \in Callers, StartAdd(c)
  PROVE  IInv'
  <1>1. /\ TypeOK /\ pc[c] = "add"
        /\ UNCHANGED <<worktree, index, commits, tree, parent, commit, disturbed>>
    BY DEF IInv, StartAdd
  <1>2. HEAD' = HEAD
    BY <1>1 DEF HEAD
  <1>3. Grown'
    BY <1>1, <1>2 DEF IInv, Grown
  <1>4. CASE lock = None /\ lock' = c /\ Go(c, "adding") /\ UNCHANGED faulted
    <2>1. TypeOK'
      BY <1>1, <1>4, GoMoves, CallersAssumption DEF TypeOK
    <2>2. \A d \in Callers : (Placed(d) /\ Current(d))'
      BY <1>1, <1>2, <1>4, GoMoves DEF IInv, Placed, Current
    <2> QED
      BY <1>3, <2>1, <2>2 DEF IInv
  <1>5. CASE lock # None /\ Go(c, "error") /\ UNCHANGED <<lock, faulted>>
    <2>1. TypeOK'
      BY <1>1, <1>5, GoMoves DEF TypeOK, Over
    <2>2. \A d \in Callers : (Placed(d) /\ Current(d))'
      BY <1>1, <1>2, <1>5, GoMoves DEF IInv, Placed, Current
    <2> QED
      BY <1>3, <2>1, <2>2 DEF IInv
  <1>6. CASE Fault(c) /\ UNCHANGED lock
    <2>1. TypeOK'
      BY <1>1, <1>6, FaultMoves DEF TypeOK
    <2>2. \A d \in Callers : (Placed(d) /\ Current(d))'
      BY <1>1, <1>2, <1>6, FaultMoves DEF IInv, Placed, Current
    <2> QED
      BY <1>3, <2>1, <2>2 DEF IInv
  <1> QED
    BY <1>4, <1>5, <1>6 DEF StartAdd

\* Staging the file, or being killed while at it, keeps the inductive invariant.
LEMMA FinishAddKeeps ==
  ASSUME IInv, NEW c \in Callers, FinishAdd(c)
  PROVE  IInv'
  <1>1. /\ TypeOK /\ pc[c] = "adding" /\ lock = c
        /\ UNCHANGED <<worktree, commits, tree, parent, commit, disturbed>>
    BY DEF IInv, FinishAdd, TypeOK
  <1>2. HEAD' = HEAD /\ HEAD \in Lines /\ index \in Lines /\ worktree \in Lines
    BY <1>1, HeadTyped DEF HEAD, TypeOK
  <1>3. \A d \in Callers \ {c} : pc[d] # "adding"
    BY <1>1 DEF TypeOK
  <1>4. CASE Fault(c) /\ lock' = Dead /\ UNCHANGED index
    <2>1. TypeOK'
      BY <1>1, <1>3, <1>4, FaultMoves, CallersAssumption DEF TypeOK
    <2>2. Grown'
      BY <1>1, <1>2, <1>4 DEF IInv, Grown
    <2>3. \A d \in Callers : (Placed(d) /\ Current(d))'
      BY <1>1, <1>2, <1>4, FaultMoves DEF IInv, Placed, Current
    <2> QED
      BY <2>1, <2>2, <2>3 DEF IInv
  <1>5. ASSUME index' = worktree, lock' = None,
               (Go(c, "commit") /\ UNCHANGED faulted) \/ Fault(c)
        PROVE  IInv'
    <2>1. /\ pc' \in [Callers -> {"append", "add", "adding", "commit", "committing",
                                  "rev-parse"} \cup Over]
          /\ pc'[c] \in {"commit", "error", "crashed"}
          /\ \A d \in Callers \ {c} : pc'[d] = pc[d]
          /\ faulted' \subseteq Callers
      <3>1. CASE Go(c, "commit") /\ UNCHANGED faulted
        BY <1>1, <3>1, GoMoves DEF TypeOK
      <3>2. CASE Fault(c)
        BY <1>1, <3>2, FaultMoves
      <3> QED
        BY <1>5, <3>1, <3>2
    <2>2. TypeOK'
      BY <1>1, <1>2, <1>3, <1>5, <2>1, CallersAssumption DEF TypeOK
    <2>3. IsPrefix(HEAD, index) /\ IsPrefix(index, worktree)
      BY DEF IInv, Grown
    <2>4. IsPrefix(HEAD, worktree) /\ IsPrefix(worktree, worktree)
      BY <1>2, <2>3, PrefixTransitive, PrefixReflexive DEF Lines
    <2>5. Grown'
      BY <1>1, <1>2, <1>5, <2>4 DEF IInv, Grown
    <2>6. Range(index) \subseteq Range(worktree)
      BY <1>2, <2>3, PrefixRange DEF Lines
    <2>7. \A d \in Callers : Placed(d)'
      BY <1>1, <1>2, <1>5, <2>1, <2>6 DEF IInv, Placed
    <2>8. ASSUME NEW d \in Callers, pc'[d] = "committing"
          PROVE  Current(d)'
      <3>1. pc[d] = "committing" /\ tree[d] \in Lines
        BY <1>1, <2>1, <2>8 DEF TypeOK
      <3>2. /\ IsPrefix(tree[d], index) /\ parent[d] <= Len(commits)
            /\ parent[d] = Len(commits) => IsPrefix(HEAD, tree[d])
        BY <3>1 DEF IInv, Current
      <3>3. IsPrefix(tree[d], worktree)
        BY <1>2, <2>3, <3>1, <3>2, PrefixTransitive DEF Lines
      <3> QED
        BY <1>1, <1>2, <1>5, <3>2, <3>3 DEF Current
    <2>9. \A d \in Callers : Current(d)'
      BY <2>8 DEF Current
    <2> QED
      BY <2>2, <2>5, <2>7, <2>9 DEF IInv
  <1> QED
    BY <1>4, <1>5 DEF FinishAdd

\* A commit that begins, or fails to, keeps the inductive invariant.
LEMMA StartCommitKeeps ==
  ASSUME IInv, NEW c \in Callers, StartCommit(c)
  PROVE  IInv'
  <1>1. /\ TypeOK /\ pc[c] = "commit"
        /\ UNCHANGED <<worktree, index, commits, lock, commit, disturbed>>
    BY DEF IInv, StartCommit
  <1>2. HEAD' = HEAD
    BY <1>1 DEF HEAD
  <1>3. Grown'
    BY <1>1, <1>2 DEF IInv, Grown
  <1>4. CASE Go(c, "error") /\ UNCHANGED <<tree, parent, faulted>>
    <2>1. TypeOK'
      BY <1>1, <1>4, GoMoves DEF TypeOK, Over
    <2>2. \A d \in Callers : (Placed(d) /\ Current(d))'
      BY <1>1, <1>2, <1>4, GoMoves DEF IInv, Placed, Current
    <2> QED
      BY <1>3, <2>1, <2>2 DEF IInv
  <1>5. CASE Fault(c) /\ UNCHANGED <<tree, parent>>
    <2>1. TypeOK'
      BY <1>1, <1>5, FaultMoves DEF TypeOK
    <2>2. \A d \in Callers : (Placed(d) /\ Current(d))'
      BY <1>1, <1>2, <1>5, FaultMoves DEF IInv, Placed, Current
    <2> QED
      BY <1>3, <2>1, <2>2 DEF IInv
  <1>6. CASE /\ Go(c, "committing")
             /\ tree' = [tree EXCEPT ![c] = index]
             /\ parent' = [parent EXCEPT ![c] = Len(commits)]
             /\ UNCHANGED faulted
    <2>1. index \in Lines /\ Len(commits) \in Nat /\ c \in Range(index) /\ IsPrefix(HEAD, index)
      BY <1>1 DEF IInv, TypeOK, Placed, Grown
    <2>2. /\ tree' \in [Callers -> Lines] /\ tree'[c] = index
          /\ \A d \in Callers \ {c} : tree'[d] = tree[d]
      BY <1>1, <1>6, <2>1 DEF TypeOK
    <2>3. /\ parent' \in [Callers -> Nat] /\ parent'[c] = Len(commits)
          /\ \A d \in Callers \ {c} : parent'[d] = parent[d]
      BY <1>1, <1>6, <2>1 DEF TypeOK
    <2>4. TypeOK'
      BY <1>1, <1>6, <2>2, <2>3, GoMoves DEF TypeOK, Over
    <2>5. IsPrefix(index, index)
      BY <2>1, PrefixReflexive DEF Lines
    <2>6. \A d \in Callers : (Placed(d) /\ Current(d))'
      BY <1>1, <1>2, <1>6, <2>1, <2>2, <2>3, <2>5, GoMoves DEF IInv, Placed, Current
    <2> QED
      BY <1>3, <2>4, <2>6 DEF IInv
  <1> QED
    BY <1>4, <1>5, <1>6 DEF StartCommit

\* A commit that ends keeps the inductive invariant: the new HEAD extends the
\* old one, for the commit is refused when HEAD has moved under it.
LEMMA FinishCommitKeeps ==
  ASSUME IInv, NEW c \in Callers, FinishCommit(c)
  PROVE  IInv' /\ IsPrefix(HEAD, HEAD')
  <1>1. /\ TypeOK /\ pc[c] = "committing"
        /\ UNCHANGED <<worktree, index, tree, parent, commit, disturbed>>
    BY DEF IInv, FinishCommit
  <1>2. /\ HEAD \in Lines /\ index \in Lines /\ tree[c] \in Lines /\ Len(commits) \in Nat
        /\ commits \in Seq(Lines)
    BY <1>1, HeadTyped DEF TypeOK
  <1>3. /\ IsPrefix(tree[c], index) /\ c \in Range(tree[c])
        /\ parent[c] = Len(commits) => IsPrefix(HEAD, tree[c])
    BY <1>1 DEF IInv, Current, Placed
  <1>4. ASSUME UNCHANGED commits, lock' \in {lock, IF lock = None THEN Dead ELSE lock},
               (Go(c, "error") /\ UNCHANGED faulted) \/ Fault(c)
        PROVE  IInv' /\ IsPrefix(HEAD, HEAD')
    <2>1. /\ pc' \in [Callers -> {"append", "add", "adding", "commit", "committing",
                                  "rev-parse"} \cup Over]
          /\ pc'[c] \in {"error", "crashed"}
          /\ \A d \in Callers \ {c} : pc'[d] = pc[d]
          /\ faulted' \subseteq Callers
      <3>1. CASE Go(c, "error") /\ UNCHANGED faulted
        BY <1>1, <3>1, GoMoves DEF TypeOK, Over
      <3>2. CASE Fault(c)
        BY <1>1, <3>2, FaultMoves
      <3> QED
        BY <1>4, <3>1, <3>2
    <2>2. HEAD' = HEAD
      BY <1>4 DEF HEAD
    <2>3. TypeOK'
      BY <1>1, <1>4, <2>1, CallersAssumption DEF TypeOK
    <2>4. Grown'
      BY <1>1, <2>2 DEF IInv, Grown
    <2>5. \A d \in Callers : (Placed(d) /\ Current(d))'
      BY <1>1, <1>4, <2>1, <2>2 DEF IInv, Placed, Current
    <2>6. IsPrefix(HEAD, HEAD')
      BY <1>2, <2>2, PrefixReflexive DEF Lines
    <2> QED
      BY <2>3, <2>4, <2>5, <2>6 DEF IInv
  <1>5. ASSUME parent[c] = Len(commits), commits' = Append(commits, tree[c]), UNCHANGED lock,
               (Go(c, "rev-parse") /\ UNCHANGED faulted) \/ Fault(c)
        PROVE  IInv' /\ IsPrefix(HEAD, HEAD')
    <2>1. /\ pc' \in [Callers -> {"append", "add", "adding", "commit", "committing",
                                  "rev-parse"} \cup Over]
          /\ pc'[c] \in {"rev-parse", "error", "crashed"}
          /\ \A d \in Callers \ {c} : pc'[d] = pc[d]
          /\ faulted' \subseteq Callers
      <3>1. CASE Go(c, "rev-parse") /\ UNCHANGED faulted
        BY <1>1, <3>1, GoMoves DEF TypeOK
      <3>2. CASE Fault(c)
        BY <1>1, <3>2, FaultMoves
      <3> QED
        BY <1>5, <3>1, <3>2
    <2>2. /\ commits' \in Seq(Lines) /\ Len(commits') = Len(commits) + 1
          /\ commits'[Len(commits) + 1] = tree[c]
          /\ \A n \in 1..Len(commits) : commits'[n] = commits[n]
      BY <1>2, <1>5, AppendProperties
    <2>3. HEAD' = tree[c]
      <3>1. commits' # <<>>
        BY <1>2, <2>2
      <3> QED
        BY <2>2, <3>1 DEF HEAD, Last
    <2>4. IsPrefix(HEAD, HEAD')
      BY <1>3, <1>5, <2>3
    <2>5. Range(HEAD) \subseteq Range(HEAD')
      <3>1. IsPrefix(HEAD, tree[c])
        BY <1>3, <1>5
      <3>2. Range(HEAD) \subseteq Range(tree[c])
        BY <1>2, <3>1, PrefixRange DEF Lines
      <3> QED
        BY <2>3, <3>2
    <2>6. TypeOK'
      <3>1. \A d \in Callers :
              /\ pc'[d] = "adding" <=> lock' = d
              /\ commit'[d] \in IF pc'[d] = "ok" THEN 1..Len(commits') ELSE {0}
        <4> TAKE d \in Callers
        <4>1. /\ pc[d] = "adding" <=> lock = d
              /\ commit[d] \in IF pc[d] = "ok" THEN 1..Len(commits) ELSE {0}
          BY <1>1 DEF TypeOK
        <4>2. CASE d = c
          BY <1>1, <1>5, <2>1, <4>1, <4>2
        <4>3. CASE d # c
          BY <1>1, <1>2, <1>5, <2>1, <2>2, <4>1, <4>3
        <4> QED
          BY <4>2, <4>3
      <3> QED
        BY <1>1, <1>5, <2>1, <2>2, <3>1 DEF TypeOK
    <2>7. Grown'
      BY <1>1, <1>3, <2>3 DEF IInv, Grown
    <2>8. ASSUME NEW d \in Callers
          PROVE  Placed(d)'
      <3>1. CASE d = c
        BY <1>3, <2>1, <2>3, <3>1 DEF Placed
      <3>2. CASE d # c
        <4>1. Placed(d) /\ pc'[d] = pc[d] /\ (pc[d] = "ok" => commit[d] \in 1..Len(commits))
          BY <1>1, <2>1, <3>2 DEF IInv, TypeOK
        <4>2. pc[d] = "ok" => commits'[commit'[d]] = commits[commit[d]]
          BY <1>1, <2>2, <4>1
        <4> QED
          BY <1>1, <2>5, <4>1, <4>2 DEF Placed
      <3> QED
        BY <3>1, <3>2
    <2>9. ASSUME NEW d \in Callers
          PROVE  Current(d)'
      <3>1. CASE d = c
        BY <2>1, <3>1 DEF Current
      <3>2. CASE d # c
        <4>1. Current(d) /\ pc'[d] = pc[d] /\ parent[d] \in Nat
          BY <1>1, <2>1, <3>2 DEF IInv, TypeOK
        <4>2. UNCHANGED <<tree, index, parent>>
          BY <1>1
        <4> QED
          BY <1>2, <2>2, <4>1, <4>2 DEF Current
      <3> QED
        BY <3>1, <3>2
    <2> QED
      BY <2>4, <2>6, <2>7, <2>8, <2>9 DEF IInv
  <1>6. CASE /\ parent[c] = Len(commits)
             /\ commits' = Append(commits, tree[c])
             /\ UNCHANGED lock
             /\ (Go(c, "rev-parse") /\ UNCHANGED faulted) \/ Fault(c)
    BY <1>5, <1>6
  <1>7. CASE Go(c, "error") /\ UNCHANGED <<commits, lock, faulted>>
    BY <1>4, <1>7
  <1>8. CASE Fault(c) /\ lock' \in {lock, IF lock = None THEN Dead ELSE lock} /\ UNCHANGED commits
    BY <1>4, <1>8
  <1> QED
    BY <1>6, <1>7, <1>8 DEF FinishCommit

\* Reading where HEAD is keeps the inductive invariant: HEAD exists, and holds
\* the line of the call that reads it.
LEMMA RevParseKeeps ==
  ASSUME IInv, NEW c \in Callers, RevParse(c)
  PROVE  IInv'
  <1>1. /\ TypeOK /\ pc[c] = "rev-parse" /\ c \in Range(HEAD)
        /\ UNCHANGED <<worktree, index, commits, lock, tree, parent, disturbed>>
    BY DEF IInv, RevParse, Placed
  <1>2. /\ HEAD' = HEAD /\ HEAD = commits[Len(commits)]
        /\ Len(commits) \in Nat /\ Len(commits) \in 1..Len(commits)
    <2>1. HEAD' = HEAD /\ commits \in Seq(Lines) /\ Len(commits) \in Nat
      BY <1>1 DEF HEAD, TypeOK
    <2>2. Range(HEAD) # {}
      BY <1>1
    <2> QED
      BY <2>1, <2>2, HeadTyped
  <1>3. Grown'
    BY <1>1, <1>2 DEF IInv, Grown
  <1>4. CASE Go(c, "ok") /\ commit' = [commit EXCEPT ![c] = Len(commits)] /\ UNCHANGED faulted
    <2>1. /\ pc'[c] = "ok" /\ \A d \in Callers \ {c} : pc'[d] = pc[d]
          /\ pc' \in [Callers -> {"append", "add", "adding", "commit", "committing",
                                  "rev-parse"} \cup Over]
      BY <1>1, <1>4, GoMoves DEF Over
    <2>2. /\ commit' \in [Callers -> Nat] /\ commit'[c] = Len(commits)
          /\ \A d \in Callers \ {c} : commit'[d] = commit[d]
      BY <1>1, <1>2, <1>4 DEF TypeOK
    <2>3. TypeOK'
      BY <1>1, <1>2, <1>4, <2>1, <2>2 DEF TypeOK
    <2>4. \A d \in Callers : (Placed(d) /\ Current(d))'
      BY <1>1, <1>2, <2>1, <2>2 DEF IInv, Placed, Current
    <2> QED
      BY <1>3, <2>3, <2>4 DEF IInv
  <1>5. CASE Fault(c) /\ UNCHANGED commit
    <2>1. TypeOK'
      BY <1>1, <1>5, FaultMoves DEF TypeOK
    <2>2. \A d \in Callers : (Placed(d) /\ Current(d))'
      BY <1>1, <1>2, <1>5, FaultMoves DEF IInv, Placed, Current
    <2> QED
      BY <1>3, <2>1, <2>2 DEF IInv
  <1> QED
    BY <1>4, <1>5 DEF RevParse

\* Every step, of whichever call, keeps the inductive invariant.
LEMMA NextKeeps == IInv /\ [Next]_vars => IInv'
  <1> SUFFICES ASSUME IInv, [Next]_vars
               PROVE  IInv'
    OBVIOUS
  <1>1. CASE UNCHANGED vars
    <2>1. TypeOK' /\ HEAD' = HEAD
      BY <1>1 DEF vars, IInv, TypeOK, HEAD
    <2>2. Grown'
      BY <1>1, <2>1 DEF vars, IInv, Grown
    <2>3. \A c \in Callers : (Placed(c) /\ Current(c))'
      BY <1>1, <2>1 DEF vars, IInv, Placed, Current
    <2> QED
      BY <2>1, <2>2, <2>3 DEF IInv
  <1>2. CASE Next
    <2>1. PICK c \in Callers : AppendLine(c) \/ GitStep(c)
      BY <1>2 DEF Next
    <2> QED
      BY <2>1, AppendLineKeeps, StartAddKeeps, FinishAddKeeps, StartCommitKeeps,
         FinishCommitKeeps, RevParseKeeps DEF GitStep
  <1> QED
    BY <1>1, <1>2

-----------------------------------------------------------------------------
\* The inductive invariant holds in every state of every behaviour.
THEOREM Invariance == Spec => []IInv
  <1>1. Init => IInv
    BY InitOK
  <1>2. IInv /\ [Next]_vars => IInv'
    BY NextKeeps
  <1> QED
    BY <1>1, <1>2, PTL DEF Spec

\* The variables keep their types, index.lock is held by exactly the call whose
\* git add is running, and a call has been told a commit that exists exactly
\* when it ended well.
THEOREM TypeCorrect == Spec => []TypeOK
  <1>1. IInv => TypeOK
    BY DEF IInv
  <1> QED
    BY <1>1, Invariance, PTL

\* The commit an ok-witness names holds the line the call appended, however many
\* calls ran meanwhile and whatever went wrong under them.
THEOREM OkEvidence == Spec => []OkIsEvidence
  <1>1. IInv => OkIsEvidence
    BY DEF IInv, Placed, OkIsEvidence
  <1> QED
    BY <1>1, Invariance, PTL

-----------------------------------------------------------------------------
\* A step that leaves HEAD alone grows the register, and so does one that extends it.
LEMMA StepGrows == IInv /\ [Next]_vars => Register!Grow
  <1> SUFFICES ASSUME IInv, [Next]_vars
               PROVE  Register!Grow
    OBVIOUS
  <1>1. IInv' /\ HEAD \in Lines
    BY NextKeeps, HeadTyped DEF IInv, TypeOK
  <1>2. IsPrefix(HEAD, HEAD')
    <2>1. CASE UNCHANGED commits
      <3>1. HEAD' = HEAD
        BY <2>1 DEF HEAD
      <3> QED
        BY <1>1, <3>1, PrefixReflexive DEF Lines
    <2>2. CASE \E c \in Callers : FinishCommit(c)
      BY <2>2, FinishCommitKeeps
    <2> QED
      BY <2>1, <2>2 DEF vars, Next, GitStep, AppendLine, WriteFails, Begin, StartAdd, FinishAdd,
         StartCommit, RevParse
  <1>3. IsInjective(HEAD')
    <2>1. HEAD' \in Lines /\ index' \in Lines /\ worktree' \in Lines
      <3>1. commits' \in Seq(Lines) /\ index' \in Lines /\ worktree' \in Lines
        BY <1>1 DEF IInv, TypeOK
      <3>2. CASE commits' = <<>>
        BY <3>1, <3>2 DEF HEAD, Lines
      <3>3. CASE commits' # <<>>
        BY <3>1, <3>3 DEF HEAD, Last
      <3> QED
        BY <3>1, <3>2, <3>3
    <2>2. IsPrefix(HEAD, index)' /\ IsPrefix(index, worktree)' /\ IsInjective(worktree)'
      BY <1>1 DEF IInv, Grown
    <2>3. IsInjective(index')
      BY <2>1, <2>2, PrefixInjective DEF Lines
    <2> QED
      BY <2>1, <2>2, <2>3, PrefixInjective DEF Lines
  <1> QED
    BY <1>2, <1>3 DEF Register!Grow, IsPrefix, Register!IsPrefix, IsInjective, Register!IsInjective

\* A step tells at most one caller something, and "ok" only when its line is in.
LEMMA StepTells == IInv /\ [Next]_vars => Register!Tell
  <1> SUFFICES ASSUME IInv, [Next]_vars
               PROVE  Register!Tell
    OBVIOUS
  <1>1. TypeOK
    BY DEF IInv
  <1>2. CASE UNCHANGED vars
    BY <1>2 DEF vars, Register!Tell, Told
  <1>3. CASE Next
    <2>1. PICK c \in Callers : AppendLine(c) \/ GitStep(c)
      BY <1>3 DEF Next
    <2>2. pc[c] \notin Over
      BY <2>1 DEF GitStep, AppendLine, WriteFails, Begin, StartAdd, FinishAdd, StartCommit, FinishCommit,
         RevParse, Over
    <2>3. \A d \in Callers \ {c} : pc'[d] = pc[d]
      BY <1>1, <2>1 DEF GitStep, AppendLine, WriteFails, StartAdd, FinishAdd, StartCommit, FinishCommit,
         RevParse, Fault, Go, TypeOK
    <2>4. pc'[c] = "ok" => c \in Range(HEAD')
      <3>1. CASE RevParse(c)
        BY <3>1 DEF IInv, Placed, RevParse, HEAD
      <3>2. CASE ~RevParse(c)
        BY <1>1, <2>1, <3>2 DEF GitStep, AppendLine, WriteFails, StartAdd, FinishAdd, StartCommit,
           FinishCommit, Fault, Go, TypeOK
      <3> QED
        BY <3>1, <3>2
    <2>5. ASSUME NEW d \in Callers
          PROVE  \/ Told'[d] = Told[d]
                 \/ Told[d] = "pending" /\ Told'[d] = "failed"
                 \/ Told[d] = "pending" /\ Told'[d] = "ok" /\ d \in Range(HEAD')
      <3>1. CASE d = c
        BY <2>2, <2>4, <3>1 DEF Told, Over
      <3>2. CASE d # c
        BY <2>3, <3>2 DEF Told
      <3> QED
        BY <3>1, <3>2
    <2> QED
      BY <2>5 DEF Register!Tell, Range, Register!Range
  <1> QED
    BY <1>2, <1>3

\* The mirror is an append-only register of heads: HEAD's file starts empty and
\* every step of a call is a step of HeadRegister or leaves it alone.
THEOREM Refinement == Spec => ImplementsRegister
  <1>1. Init => Register!Init
    BY DEF Init, Register!Init, HEAD, Told, Over
  <1>2. IInv /\ [Next]_vars => [Register!Next]_(Register!vars)
    BY StepGrows, StepTells DEF Register!Next
  <1> QED
    BY <1>1, <1>2, Invariance, PTL DEF Spec, ImplementsRegister, Register!Spec

-----------------------------------------------------------------------------
(***************************************************************************)
(* A call no other one ran beside: it is the only one running, its line is *)
(* not in HEAD before its own commit puts it there, HEAD stays where that  *)
(* commit found it, and so it fails only by a lock nobody will release.    *)
(***************************************************************************)
Quiet(c) ==
    c \notin disturbed =>
        /\ c \in Running => \A d \in Running : d = c
        /\ pc[c] \in {"add", "adding", "commit", "committing"} => c \notin Range(HEAD)
        /\ pc[c] = "committing" => parent[c] = Len(commits)
        /\ pc[c] = "error" /\ c \notin faulted => lock = Dead

\* What every step of a call does to the calls and to the lock.
LEMMA StepMoves ==
  ASSUME TypeOK, NEW c \in Callers, AppendLine(c) \/ GitStep(c)
  PROVE  /\ \A d \in Callers \ {c} : pc'[d] = pc[d]
         /\ pc[c] = "append" \/ c \in Running
         /\ faulted \subseteq faulted'
         /\ lock = Dead => lock' = Dead
  <1>1. \A d \in Callers \ {c} : pc'[d] = pc[d]
    BY DEF GitStep, AppendLine, WriteFails, StartAdd, FinishAdd, StartCommit, FinishCommit,
       RevParse, Fault, Go, TypeOK
  <1>2. pc[c] = "append" \/ c \in Running
    BY DEF GitStep, AppendLine, WriteFails, Begin, StartAdd, FinishAdd, StartCommit, FinishCommit,
       RevParse, Running, Over
  <1>3. faulted \subseteq faulted'
    BY DEF GitStep, AppendLine, WriteFails, StartAdd, FinishAdd, StartCommit, FinishCommit, RevParse, Fault
  <1>4. lock = Dead => lock' = Dead
    BY CallersAssumption DEF GitStep, AppendLine, WriteFails, Begin, StartAdd, FinishAdd, StartCommit,
       FinishCommit, RevParse, TypeOK
  <1> QED
    BY <1>1, <1>2, <1>3, <1>4

\* A step disturbs nobody, except that a call beginning beside others disturbs them all.
LEMMA StepDisturbs ==
  ASSUME NEW c \in Callers, AppendLine(c) \/ GitStep(c)
  PROVE  /\ disturbed \subseteq disturbed'
         /\ pc[c] = "append" /\ Running # {} => Running \cup {c} \subseteq disturbed'
  BY DEF GitStep, AppendLine, WriteFails, Begin, StartAdd, FinishAdd, StartCommit, FinishCommit, RevParse

\* A call that is alone in running finds the lock free or dead when it looks.
LEMMA LockOfAlone ==
  ASSUME TypeOK, NEW c \in Callers, \A d \in Running : d = c, pc[c] # "adding"
  PROVE  lock \in {None, Dead}
  BY DEF TypeOK, Running, Over

\* Nobody else's step touches what a call that is alone relies on.
LEMMA QuietOther ==
  ASSUME IInv, NEW c \in Callers, AppendLine(c) \/ GitStep(c),
         NEW d \in Callers \ {c}, Quiet(d)
  PROVE  Quiet(d)'
  <1> SUFFICES ASSUME d \notin disturbed'
               PROVE  Quiet(d)'
    BY DEF Quiet
  <1>1. TypeOK /\ d \notin disturbed /\ pc'[d] = pc[d]
    BY StepMoves, StepDisturbs DEF IInv
  <1>2. d \notin Running
    <2> SUFFICES ASSUME d \in Running
                 PROVE  FALSE
      OBVIOUS
    <2>1. c \notin Running
      BY <1>1 DEF Quiet
    <2> QED
      BY <1>1, <2>1, StepMoves, StepDisturbs
  <1>3. d \notin Running' /\ pc'[d] \notin {"add", "adding", "commit", "committing"}
    BY <1>1, <1>2 DEF Running, Over
  <1>4. pc'[d] = "error" /\ d \notin faulted' => lock' = Dead
    BY <1>1, StepMoves DEF Quiet
  <1> QED
    BY <1>3, <1>4 DEF Quiet

\* A call that is alone stays so, and what it does next it does undisturbed.
LEMMA QuietMover ==
  ASSUME IInv, NEW c \in Callers, AppendLine(c) \/ GitStep(c), Quiet(c)
  PROVE  Quiet(c)'
  <1> SUFFICES ASSUME c \notin disturbed'
               PROVE  Quiet(c)'
    BY DEF Quiet
  <1>1. TypeOK /\ c \notin disturbed
    BY StepDisturbs DEF IInv
  <1>2. \A d \in Running : d = c
    BY <1>1, StepMoves, StepDisturbs DEF Quiet
  <1>3. \A d \in Running' : d = c
    BY <1>1, <1>2, StepMoves DEF Running
  <1>4. CASE AppendLine(c)
    <2>1. HEAD' = HEAD /\ HEAD \in Lines /\ index \in Lines /\ worktree \in Lines
      BY <1>1, <1>4, HeadTyped DEF AppendLine, Begin, HEAD, TypeOK
    <2>2. c \notin Range(worktree) /\ IsPrefix(HEAD, index) /\ IsPrefix(index, worktree)
      BY <1>4 DEF IInv, Grown, Placed, AppendLine, Begin
    <2>3. c \notin Range(HEAD')
      BY <2>1, <2>2, PrefixRange DEF Lines
    <2>4. pc'[c] = "add" \/ (c \in faulted' /\ pc'[c] \in {"error", "crashed"})
      BY <1>1, <1>4 DEF AppendLine, WriteFails, Fault, Go, TypeOK
    <2> QED
      BY <1>3, <2>3, <2>4 DEF Quiet
  <1>5. CASE StartAdd(c)
    <2>1. HEAD' = HEAD /\ c \notin Range(HEAD)
      BY <1>1, <1>5 DEF StartAdd, HEAD, Quiet
    <2>2. pc'[c] = "adding" \/ c \in faulted' \/ (lock # None /\ lock' = lock)
      BY <1>1, <1>5 DEF StartAdd, Fault, Go, TypeOK
    <2>3. lock \in {None, Dead}
      BY <1>1, <1>2, <1>5, LockOfAlone DEF StartAdd
    <2>4. pc'[c] \in {"adding", "error", "crashed"}
      BY <1>1, <1>5 DEF StartAdd, Fault, Go, TypeOK
    <2> QED
      BY <1>3, <2>1, <2>2, <2>3, <2>4 DEF Quiet
  <1>6. CASE FinishAdd(c)
    <2>1. HEAD' = HEAD /\ c \notin Range(HEAD)
      BY <1>1, <1>6 DEF FinishAdd, HEAD, Quiet
    <2>2. pc'[c] = "commit" \/ (c \in faulted' /\ pc'[c] \in {"error", "crashed"})
      BY <1>1, <1>6 DEF FinishAdd, Fault, Go, TypeOK
    <2> QED
      BY <1>3, <2>1, <2>2 DEF Quiet
  <1>7. CASE StartCommit(c)
    <2>1. HEAD' = HEAD /\ c \notin Range(HEAD)
      BY <1>1, <1>7 DEF StartCommit, HEAD, Quiet
    <2>2. c \in Range(index)
      BY <1>7 DEF IInv, Placed, StartCommit
    <2>3. index # HEAD
      BY <2>1, <2>2
    <2>4. lock \in {None, Dead} /\ lock' = lock
      BY <1>1, <1>2, <1>7, LockOfAlone DEF StartCommit
    <2>5. \/ pc'[c] = "committing" /\ parent'[c] = Len(commits')
          \/ pc'[c] \in {"error", "crashed"} /\ (c \in faulted' \/ lock # None)
      BY <1>1, <1>7, <2>3 DEF StartCommit, Fault, Go, TypeOK
    <2> QED
      BY <1>3, <2>1, <2>4, <2>5 DEF Quiet
  <1>8. CASE FinishCommit(c)
    <2>1. parent[c] = Len(commits)
      BY <1>1, <1>8 DEF FinishCommit, Quiet
    <2>2. pc'[c] = "rev-parse" \/ (c \in faulted' /\ pc'[c] \in {"error", "crashed"})
      BY <1>1, <1>8, <2>1 DEF FinishCommit, Fault, Go, TypeOK
    <2> QED
      BY <1>3, <2>2 DEF Quiet
  <1>9. CASE RevParse(c)
    <2>1. pc'[c] = "ok" \/ (c \in faulted' /\ pc'[c] \in {"error", "crashed"})
      BY <1>1, <1>9 DEF RevParse, Fault, Go, TypeOK
    <2> QED
      BY <1>3, <2>1 DEF Quiet
  <1> QED
    BY <1>4, <1>5, <1>6, <1>7, <1>8, <1>9 DEF GitStep

\* What failed or dead calls have left behind does not fail a call that runs
\* alone and under which nothing goes wrong: only a lock left behind does.
THEOREM Harmless == Spec => []LeftoversHarmless
  <1> DEFINE AllQuiet == \A c \in Callers : Quiet(c)
  <1>1. Init => AllQuiet
    BY DEF Init, Quiet, Running
  <1>2. IInv /\ AllQuiet /\ [Next]_vars => AllQuiet'
    <2> SUFFICES ASSUME IInv, AllQuiet, [Next]_vars
                 PROVE  AllQuiet'
      OBVIOUS
    <2>1. CASE UNCHANGED vars
      BY <2>1 DEF vars, Quiet, Running, HEAD
    <2>2. CASE Next
      <3>1. PICK c \in Callers : AppendLine(c) \/ GitStep(c)
        BY <2>2 DEF Next
      <3>2. \A d \in Callers : Quiet(d)'
        BY <3>1, QuietMover, QuietOther
      <3> QED
        BY <3>2
    <2> QED
      BY <2>1, <2>2
  <1>3. AllQuiet => LeftoversHarmless
    BY DEF Quiet, LeftoversHarmless
  <1> HIDE DEF AllQuiet
  <1> QED
    BY <1>1, <1>2, <1>3, Invariance, PTL DEF Spec

=============================================================================
