----------------------------- MODULE OnDiskProofs -----------------------------
(***************************************************************************)
(* What is proved of the files that several hands write, part by part: for *)
(* each the inductive invariant, one lemma for each action that can        *)
(* disturb it, and the theorem. The actions of the other parts leave a     *)
(* part as it is (Next), so only its own are looked at.                    *)
(***************************************************************************)
EXTENDS OnDisk, DataLemmas, TLAPS

(***************************************************************************)
(* The ledger of a session                                                 *)
(*                                                                         *)
(* A write follows its intent, or the note that the ledger failed for it;  *)
(* neither is ever taken back.                                             *)
(***************************************************************************)
Announced == intents \cup ledgerErrors

OrphanInv ==
    /\ wrote \subseteq Announced
    /\ pc \in {"mutate", "commit"} => i \in Announced
    /\ pc = "booted" => orphans = Orphans

\* One step of a session keeps the account of its intents.
LEMMA OrphanStep == OrphanInv /\ SessionNext => OrphanInv'
<1> SUFFICES ASSUME OrphanInv, SessionNext PROVE OrphanInv'
  OBVIOUS
<1> USE DEF OrphanInv, Announced, Orphans
<1>1. CASE RateLimited \/ Examine \/ Settle \/ Restored \/ Uncreated
  BY <1>1 DEF RateLimited, Examine, Settle, Restored, Uncreated, Fails, NextChange, disk, memory,
              outcome
<1>2. CASE Backup
  BY <1>2 DEF Backup, Fails, NextChange, outcome
<1>3. CASE Intent
  BY <1>3 DEF Intent, outcome
<1>4. CASE Mutate
  BY <1>4 DEF Mutate, Fails, NextChange, memory, outcome
<1>5. CASE Commit
  BY <1>5 DEF Commit, NextChange, outcome
<1>6. CASE Restore \/ Uncreate
  BY <1>6 DEF Restore, Uncreate, memory
<1>7. CASE Report \/ Crash \/ Spoil
  BY <1>7 DEF Report, Crash, Spoil, disk, memory, outcome
<1>8. CASE Boot
  BY <1>8 DEF Boot, disk, memory
<1> QED BY <1>1, <1>2, <1>3, <1>4, <1>5, <1>6, <1>7, <1>8 DEF SessionNext, Session

\* A restart finds every write that was not confirmed, whatever the crash, the
\* ledger's faults and the number of changes.
THEOREM OrphansAreTold == Spec => []OrphansTellAll
<1>1. Init => OrphanInv
  BY DEF Init, SessionInit, OrphanInv, Announced
<1>2. OrphanInv /\ [Next]_vars => OrphanInv'
  <2>1. [Next]_vars => SessionNext \/ UNCHANGED sessionVars
    BY DEF Next, vars
  <2>2. OrphanInv /\ UNCHANGED sessionVars => OrphanInv'
    BY DEF OrphanInv, Announced, Orphans, sessionVars, disk, memory, outcome
  <2> QED BY <2>1, <2>2, OrphanStep
<1>3. OrphanInv => OrphansTellAll
  BY DEF OrphanInv, OrphansTellAll, Announced, Orphans
<1> QED BY <1>1, <1>2, <1>3, PTL DEF Spec

(***************************************************************************)
(* The session: what it tells of the tree                                  *)
(*                                                                         *)
(* While changes are applied, a file is what the changes that reached it   *)
(* made of it. A backup made before the first write to its file holds the  *)
(* original, and the first write to a file that was there has one. So the  *)
(* roll-back, newest backup first, ends each file with the original, or    *)
(* with the removal of what the session created, or names it.              *)
(***************************************************************************)
Applying == {"examine", "backup", "intent", "mutate", "commit"}
Of(s, f) == {k \in s : change[k].file = f}
ChangeRow == [file : File, act : Action]
ResultRow == [success : BOOLEAN, attempted : BOOLEAN, complete : BOOLEAN]

SessionTyped ==
    /\ base \in [File -> Nat] /\ tree \in [File -> Nat]
    /\ change \in Seq(ChangeRow) /\ Len(change) <= MaxChanges
    /\ saved \in [1..MaxChanges -> Nat]
    /\ failed \in BOOLEAN /\ rejected \in BOOLEAN /\ result \in ResultRow
    /\ baks \subseteq Index /\ mine \subseteq Index /\ wrote \subseteq Index /\ undo \subseteq Index
    /\ created \subseteq wrote

\* Where the session is in its list.
Placed ==
    /\ i \in Nat /\ i > 0
    /\ pc \in Applying => i <= Len(change) + 1 /\ mine \subseteq 1..i /\ wrote \subseteq 1..i
    /\ pc \in Applying \ {"examine"} => i <= Len(change)
    /\ pc \in {"examine", "backup"} => i \notin mine
    /\ pc \in Applying \ {"commit"} => i \notin wrote
    /\ pc \in {"backup", "intent", "mutate"} =>
           (Act = "create" <=> tree[Target] = Absent)
    /\ pc = "backup" => Act # "create"
    /\ pc \in {"intent", "mutate", "commit"} /\ Act # "create" => i \in mine

\* Every write is remembered.
Remembered ==
    /\ \A k \in created : change[k].act = "create"
    /\ \A k \in wrote :
        /\ change[k].act # "create" => k \in mine
        /\ change[k].act = "create" /\ pc \notin {"crashed", "booted"} =>
               k \in created \/ (pc = "commit" /\ k = i)

BackedUp ==
    /\ \A k \in mine : (\A l \in Of(wrote, change[k].file) : k <= l) =>
           saved[k] = Plain(base[change[k].file])
    /\ \A f \in File : base[f] # Absent /\ Of(wrote, f) # {} =>
           \E k \in Of(mine, f) : \A l \in Of(wrote, f) : k <= l
    /\ \A k \in mine : Cardinality(Own(change[k].file)) <= Retention /\ k \notin spoilt => k \in baks

TreeIsMade ==
    /\ \A f \in File : Of(wrote, f) = {} => Clean(f)
    /\ pc \in Applying => \A f \in File : tree[f] = MadeBy(Of(wrote, f), f)

\* Files that were there are not created, files that were not are.
Creations ==
    /\ ~Remade => \A k \in wrote : base[change[k].file] # Absent => change[k].act # "create"
    /\ \A k \in mine \cup wrote : base[change[k].file] = Absent =>
           \E l \in Of(wrote, change[k].file) : change[l].act = "create"

AllTold ==
    /\ ~failed /\ pc \in Applying => \A k \in Index : k < i => k \in wrote
    /\ pc = "restore" => failed \/ rejected
    /\ pc = "uncreate" => failed
    /\ ~failed /\ ~rejected /\ pc \in {"report", "done"} =>
           wrote = Index /\ \A f \in File : tree[f] = MadeBy(Own(f), f)
    /\ result.success => ~failed /\ ~rejected /\ pc \in {"done", "booted"}

\* What a roll-back still has to do for a file, or has done.
ToRestore(f) ==
    IF base[f] = Absent THEN Of(created, f) # {} \/ (Of(undo, f) = {} /\ tree[f] = Absent)
    ELSE \/ Of(undo, f) = {} /\ Clean(f)
         \/ \E k \in Of(undo, f) : saved[k] = Plain(base[f]) /\ \A l \in Of(undo, f) : k <= l
ToUncreate(f) ==
    IF base[f] = Absent THEN Of(undo, f) # {} \/ tree[f] = Absent
    ELSE Of(undo, f) = {} /\ Clean(f)

RollsBack ==
    /\ pc = "restore" => undo \subseteq mine
    /\ pc = "uncreate" => undo \subseteq created
    /\ ~Remade /\ failed => \A f \in File :
           /\ pc = "restore" => f \in residual \/ ToRestore(f)
           /\ pc = "uncreate" => f \in residual \/ ToUncreate(f)
           /\ pc \in {"report", "done"} => f \in residual \/ Clean(f)

SessionInv ==
    /\ SessionTyped /\ Placed /\ Remembered /\ BackedUp /\ TreeIsMade /\ Creations
    /\ AllTold /\ RollsBack

LEMMA SessionFacts ==
    ASSUME SessionInv
    PROVE  /\ Len(change) \in Nat /\ Index = 1..Len(change) /\ Index \subseteq 1..MaxChanges
           /\ \A k \in Index : change[k].file \in File /\ change[k].act \in Action
           /\ MaxChanges \in Nat /\ Retention \in Nat /\ Retention > 0
           /\ i \in Index => Target \in File
<1>1. /\ change \in Seq(ChangeRow) /\ Len(change) <= MaxChanges
      /\ MaxChanges \in Nat /\ Retention \in Nat /\ Retention > 0
  BY ApplyAssumption DEF SessionInv, SessionTyped
<1>2. Len(change) \in Nat /\ \A k \in 1..Len(change) : change[k] \in ChangeRow
  BY <1>1, SeqFacts
<1>3. Index \subseteq 1..MaxChanges
  BY <1>1, <1>2 DEF Index
<1> QED BY <1>1, <1>2, <1>3 DEF Index, ChangeRow, Target

LEMMA NewestIs ==
    ASSUME NEW s, s \subseteq Nat, NEW x \in s, \A l \in s : l <= x PROVE Newest(s) = x
<1>1. \A k \in s : (\A l \in s : l <= k) => k = x
  <2> SUFFICES ASSUME NEW k \in s, \A l \in s : l <= k PROVE k = x
    OBVIOUS
  <2>1. k \in Nat /\ x \in Nat /\ x <= k /\ k <= x
    OBVIOUS
  <2> QED BY <2>1
<1> QED BY <1>1 DEF Newest

LEMMA NewestIn ==
    ASSUME SessionInv, NEW s, s \subseteq Index, s # {}
    PROVE  Newest(s) \in s /\ \A l \in s : l <= Newest(s)
<1>1. \E x \in s : \A l \in s : l <= x
  BY SessionFacts, GreatestOf
<1> QED BY <1>1 DEF Newest

\* What stays when the list of changes, the backups and the writes do.
LEMMA SameBackups ==
    ASSUME SessionInv, UNCHANGED <<base, change, saved, mine, baks, spoilt, wrote>>
    PROVE  BackedUp'
BY DEF SessionInv, BackedUp, Of, Own, Index, Plain

LEMMA SameCreations ==
    ASSUME SessionInv, UNCHANGED <<base, change, mine, wrote>>
    PROVE  Creations' /\ Remade' = Remade
BY DEF SessionInv, Creations, Of, Remade, Index

LEMMA SameTree ==
    ASSUME SessionInv, UNCHANGED <<base, change, tree, wrote>>, pc \in Applying \/ pc' \notin Applying
    PROVE  TreeIsMade'
<1>1. \A f \in File : Of(wrote, f)' = Of(wrote, f)
  BY DEF Of
<1>2. \A f \in File : Clean(f)' <=> Clean(f)
  BY DEF Clean, Plain
<1>3. \A f \in File : MadeBy(Of(wrote, f), f)' = MadeBy(Of(wrote, f), f)
  BY <1>1 DEF MadeBy
<1> QED BY <1>1, <1>2, <1>3 DEF SessionInv, TreeIsMade

LEMMA ExamineStep == SessionInv /\ (RateLimited \/ Examine) => SessionInv'
<1> SUFFICES ASSUME SessionInv, RateLimited \/ Examine PROVE SessionInv'
  OBVIOUS
<1>1. /\ pc = "examine" /\ i <= Len(change)
      /\ UNCHANGED <<input, disk, memory, undo, outcome, faults, wrote>>
      /\ \/ pc' = "examine" /\ i' = i + 1 /\ failed' = TRUE
         \/ pc' \in {"intent", "backup"} /\ UNCHANGED <<i, failed>> /\ ~Refused
            /\ (pc' = "intent" <=> Act = "create")
  BY DEF RateLimited, Examine, Fails, NextChange
<1>2. UNCHANGED <<base, change, rejected, tree, saved, baks, spoilt, mine, created, undo, residual,
                  result, wrote>>
  BY <1>1 DEF input, disk, memory, outcome
<1>3. i \in Nat /\ i > 0 /\ mine \subseteq 1..i /\ wrote \subseteq 1..i /\ i \notin mine /\ i \notin wrote
  BY <1>1 DEF SessionInv, Placed, Applying
<1>4. Len(change) \in Nat /\ Index = 1..Len(change) /\ Index' = Index /\ i \in Index
  BY <1>1, <1>2, <1>3, SessionFacts DEF Index
<1>5. SessionTyped'
  BY <1>1, <1>2, <1>4 DEF SessionInv, SessionTyped
<1>6. Placed'
  <2>1. CASE pc' = "examine" /\ i' = i + 1
    <3>1. mine \subseteq 1..(i + 1) /\ wrote \subseteq 1..(i + 1) /\ i + 1 \notin mine /\ i + 1 \notin wrote
      BY <1>3
    <3> QED BY <1>1, <1>2, <1>3, <1>4, <2>1, <3>1 DEF Placed, Applying
  <2>2. CASE pc' \in {"intent", "backup"} /\ i' = i /\ ~Refused /\ (pc' = "intent" <=> Act = "create")
    BY <1>1, <1>2, <1>3, <1>4, <2>2 DEF Placed, Applying, Refused, Target, Act
  <2> QED BY <1>1, <2>1, <2>2
<1>7. Remembered'
  BY <1>1, <1>2 DEF SessionInv, Remembered
<1>8. BackedUp' /\ Creations' /\ TreeIsMade'
  BY <1>1, <1>2, SameBackups, SameCreations, SameTree DEF Applying
<1>9. AllTold'
  BY <1>1, <1>2, <1>3, <1>4 DEF SessionInv, AllTold, Applying
<1>10. RollsBack'
  BY <1>1 DEF RollsBack
<1> QED BY <1>5, <1>6, <1>7, <1>8, <1>9, <1>10 DEF SessionInv

LEMMA BackupStep == SessionInv /\ Backup => SessionInv'
<1> SUFFICES ASSUME SessionInv, Backup PROVE SessionInv'
  OBVIOUS
<1>1. /\ pc = "backup" /\ saved' = [saved EXCEPT ![i] = Plain(tree[Target])]
      /\ \/ baks' = (baks \cup {i}) \ Pruned(i) /\ mine' = mine \cup {i} /\ pc' = "intent"
            /\ UNCHANGED <<i, failed>>
         \/ pc' = "examine" /\ i' = i + 1 /\ failed' = TRUE /\ baks' \in {baks, baks \cup {i}} /\ mine' = mine
      /\ UNCHANGED <<base, change, rejected, tree, spoilt, created, undo, residual, result, wrote>>
  BY DEF Backup, Fails, NextChange, input, outcome
<1>2. /\ i \in Nat /\ i > 0 /\ i <= Len(change) /\ mine \subseteq 1..i /\ wrote \subseteq 1..i
      /\ i \notin mine /\ i \notin wrote /\ (Act = "create" <=> tree[Target] = Absent)
  BY <1>1 DEF SessionInv, Placed, Applying
<1>3. /\ Len(change) \in Nat /\ Index = 1..Len(change) /\ Index' = Index /\ i \in Index
      /\ Target \in File /\ change[i].file = Target /\ i \in 1..MaxChanges
      /\ MaxChanges \in Nat /\ Retention \in Nat /\ Retention > 0
  BY <1>1, <1>2, SessionFacts DEF Index, Target
<1>4. tree[Target] \in Nat /\ Plain(tree[Target]) \in Nat
  BY <1>3 DEF SessionInv, SessionTyped, Plain, Lf
<1>5. saved' \in [1..MaxChanges -> Nat] /\ saved'[i] = Plain(tree[Target])
      /\ \A k \in Index : k # i => saved'[k] = saved[k]
  <2>1. saved \in [1..MaxChanges -> Nat] /\ Index \subseteq 1..MaxChanges
    BY SessionFacts DEF SessionInv, SessionTyped
  <2> QED BY <1>1, <1>3, <1>4, <2>1
<1>6. SessionTyped'
  BY <1>1, <1>3, <1>5 DEF SessionInv, SessionTyped
<1>7. Act # "create"
  BY <1>1 DEF SessionInv, Placed
<1>8. Placed'
  <2>1. CASE pc' = "intent" /\ mine' = mine \cup {i} /\ UNCHANGED <<i, failed>>
    BY <1>1, <1>2, <1>3, <1>7, <2>1 DEF Placed, Applying, Target, Act
  <2>2. CASE pc' = "examine" /\ i' = i + 1 /\ mine' = mine
    <3>1. mine \subseteq 1..(i + 1) /\ wrote \subseteq 1..(i + 1) /\ i + 1 \notin mine /\ i + 1 \notin wrote
      BY <1>2
    <3> QED BY <1>1, <1>2, <1>3, <2>2, <3>1 DEF Placed, Applying
  <2> QED BY <1>1, <2>1, <2>2
<1>9. Remembered'
  BY <1>1 DEF SessionInv, Remembered
<1>10. TreeIsMade' /\ Remade' = Remade
  BY <1>1, SameTree DEF Applying, Remade, Index
<1>11. Of(wrote, Target) = {} => tree[Target] = base[Target]
  <2>1. tree[Target] = MadeBy(Of(wrote, Target), Target)
    BY <1>1, <1>3 DEF SessionInv, TreeIsMade, Applying
  <2> QED BY <2>1 DEF MadeBy
<1>12. Creations'
  <2> DEFINE Made(k) == \E l \in Of(wrote, change[k].file) : change[l].act = "create"
  <2>1. \A k \in mine \cup wrote : base[change[k].file] = Absent => Made(k)
    BY DEF SessionInv, Creations
  <2>2. base[Target] = Absent => Made(i)
    <3> SUFFICES ASSUME base[Target] = Absent PROVE Made(i)
      OBVIOUS
    <3>1. PICK l \in Of(wrote, Target) : TRUE
      BY <1>2, <1>7, <1>11
    <3>2. l \in wrote /\ change[l].file = Target
      BY <3>1 DEF Of
    <3> QED BY <1>3, <2>1, <3>2
  <2>3. \A k \in mine' \cup wrote' : (base[change[k].file] = Absent => Made(k))'
    <3> SUFFICES ASSUME NEW k \in mine \cup wrote \cup {i}, base[change[k].file] = Absent PROVE Made(k)'
      BY <1>1
    <3>1. Made(k)
      BY <1>3, <2>1, <2>2
    <3> QED BY <1>1, <3>1 DEF Of
  <2>4. ~Remade => \A k \in wrote : base[change[k].file] # Absent => change[k].act # "create"
    BY DEF SessionInv, Creations
  <2> QED BY <1>1, <1>10, <2>3, <2>4 DEF Creations
<1>13. BackedUp'
  <2> DEFINE f == change[i].file
  <2>1. ASSUME NEW k \in mine', \A l \in Of(wrote, change[k].file) : k <= l
        PROVE  saved'[k] = Plain(base[change[k].file])
    <3>1. CASE k = i
      <4>1. Of(wrote, Target) = {}
        BY <1>2, <1>3, <2>1, <3>1 DEF Of
      <4> QED BY <1>3, <1>5, <1>11, <3>1, <4>1
    <3>2. CASE k # i
      <4>1. k \in mine /\ k \in Index
        BY <1>1, <3>2 DEF SessionInv, SessionTyped
      <4> QED BY <1>5, <2>1, <3>2, <4>1 DEF SessionInv, BackedUp
    <3> QED BY <3>1, <3>2
  <2>2. \A g \in File : base[g] # Absent /\ Of(wrote, g) # {} =>
           \E k \in Of(mine', g) : \A l \in Of(wrote, g) : k <= l
    <3>1. \A g \in File : Of(mine, g) \subseteq Of(mine', g)
      BY <1>1 DEF Of
    <3> QED BY <3>1 DEF SessionInv, BackedUp
  <2>3. ASSUME NEW k \in mine', Cardinality(Own(change[k].file)) <= Retention, k \notin spoilt
        PROVE  k \in baks'
    <3>1. CASE mine' = mine
      <4>1. k \in baks
        BY <2>3, <3>1 DEF SessionInv, BackedUp
      <4>2. baks \subseteq baks'
        BY <1>1, <1>2, <3>1
      <4> QED BY <4>1, <4>2
    <3>2. CASE baks' = (baks \cup {i}) \ Pruned(i) /\ mine' = mine \cup {i}
      <4>1. k \in baks \cup {i}
        BY <2>3, <3>2 DEF SessionInv, BackedUp
      <4>2. k \notin Pruned(i)
        <5> SUFFICES ASSUME k \in Siblings(i) PROVE ~ (Cardinality({l \in Siblings(i) : l > k}) >= Retention)
          BY DEF Pruned
        <5> DEFINE own == Own(change[k].file)
                   newer == {l \in Siblings(i) : l > k}
        <5>1. Siblings(i) \subseteq own /\ k \in own /\ own \subseteq Index
          BY <1>3 DEF Siblings, Own, SessionInv, SessionTyped
        <5>2. IsFiniteSet(own) /\ IsFiniteSet(own \ {k}) /\ Cardinality(own \ {k}) = Cardinality(own) - 1
          <6>1. IsFiniteSet(Index)
            BY <1>3, FS_Interval
          <6>2. IsFiniteSet(own)
            BY <5>1, <6>1, FS_Subset
          <6> HIDE DEF own
          <6> QED BY <5>1, <6>2, FS_RemoveElement
        <5>3. newer \subseteq own \ {k}
          <6>1. k \in Nat
            BY <1>3, <5>1
          <6> HIDE DEF own
          <6> QED BY <5>1, <6>1
        <5>4. IsFiniteSet(newer) /\ Cardinality(newer) <= Cardinality(own \ {k})
          <6> HIDE DEF own, newer
          <6> QED BY <5>2, <5>3, FS_Subset
        <5>5. Cardinality(newer) \in Nat /\ Cardinality(own) \in Nat
          <6> HIDE DEF own, newer
          <6> QED BY <5>2, <5>4, FS_CardinalityType
        <5>6. Cardinality(own) <= Retention
          BY <2>3
        <5> HIDE DEF own, newer
        <5>7. Cardinality(newer) < Retention
          BY <1>3, <5>2, <5>4, <5>5, <5>6
        <5> QED BY <1>3, <5>5, <5>7 DEF newer
      <4> QED BY <3>2, <4>1, <4>2
    <3> QED BY <1>1, <3>1, <3>2
  <2>4. \A k \in mine' : ((\A l \in Of(wrote, change[k].file) : k <= l) =>
           saved[k] = Plain(base[change[k].file]))'
    BY <1>1, <2>1 DEF Of
  <2>5. \A g \in File : (base[g] # Absent /\ Of(wrote, g) # {} =>
           \E k \in Of(mine, g) : \A l \in Of(wrote, g) : k <= l)'
    BY <1>1, <2>2 DEF Of
  <2>6. \A k \in mine' : (Cardinality(Own(change[k].file)) <= Retention /\ k \notin spoilt => k \in baks)'
    <3>1. \A g : Own(g)' = Own(g)
      BY <1>1 DEF Own, Index
    <3> QED BY <1>1, <2>3, <3>1
  <2> QED BY <2>4, <2>5, <2>6 DEF BackedUp
<1>14. AllTold'
  BY <1>1, <1>2, <1>3 DEF SessionInv, AllTold, Applying
<1>15. RollsBack'
  BY <1>1 DEF RollsBack
<1> QED BY <1>6, <1>8, <1>9, <1>10, <1>12, <1>13, <1>14, <1>15 DEF SessionInv

LEMMA IntentStep == SessionInv /\ Intent => SessionInv'
<1> SUFFICES ASSUME SessionInv, Intent PROVE SessionInv'
  OBVIOUS
<1>1. /\ pc = "intent" /\ pc' = "mutate"
      /\ UNCHANGED <<base, change, rejected, tree, saved, baks, spoilt, i, failed, mine, created,
                     undo, residual, result, wrote>>
  BY DEF Intent, input, outcome
<1>2. Index' = Index /\ Target' = Target /\ Act' = Act
  BY <1>1 DEF Index, Target, Act
<1>3. SessionTyped' /\ Remembered'
  BY <1>1, <1>2 DEF SessionInv, SessionTyped, Remembered
<1>4. Placed'
  BY <1>1, <1>2 DEF SessionInv, Placed, Applying
<1>5. BackedUp' /\ Creations' /\ TreeIsMade'
  BY <1>1, SameBackups, SameCreations, SameTree DEF Applying
<1>6. AllTold'
  BY <1>1, <1>2 DEF SessionInv, AllTold, Applying
<1>7. RollsBack'
  BY <1>1 DEF RollsBack
<1> QED BY <1>3, <1>4, <1>5, <1>6, <1>7 DEF SessionInv

LEMMA WriteStep ==
    ASSUME SessionInv, pc = "mutate", pc' = "commit",
           tree' = [tree EXCEPT ![Target] = New], wrote' = wrote \cup {i},
           UNCHANGED <<base, change, rejected, saved, baks, spoilt, i, failed, mine, created,
                       undo, residual, result>>
    PROVE  SessionInv'
<1>1. /\ i \in Nat /\ i > 0 /\ i <= Len(change) /\ mine \subseteq 1..i /\ wrote \subseteq 1..i
      /\ i \notin wrote /\ (Act = "create" <=> tree[Target] = Absent) /\ (Act # "create" => i \in mine)
  BY DEF SessionInv, Placed, Applying
<1>2. /\ Len(change) \in Nat /\ Index = 1..Len(change) /\ Index' = Index /\ i \in Index
      /\ Target \in File /\ change[i].file = Target /\ change[i].act = Act /\ Target' = Target /\ Act' = Act
  BY <1>1, SessionFacts DEF Index, Target, Act
<1>3. /\ New \in Nat /\ tree \in [File -> Nat] /\ tree' \in [File -> Nat] /\ tree'[Target] = New
      /\ \A f \in File : f # Target => tree'[f] = tree[f]
  <2>1. New \in Nat /\ tree \in [File -> Nat]
    BY <1>1 DEF New, Text, Absent, CrLf, SessionInv, SessionTyped
  <2> QED BY <1>2, <2>1
<1>4. SessionTyped'
  <2>1. wrote' \subseteq Index /\ created' \subseteq wrote'
    BY <1>2 DEF SessionInv, SessionTyped
  <2> QED BY <1>2, <1>3, <2>1 DEF SessionInv, SessionTyped
<1>5. Placed'
  BY <1>1, <1>2 DEF Placed, Applying
<1>6. Remembered'
  BY <1>1, <1>2 DEF SessionInv, Remembered
<1>7. /\ \A f \in File : f # Target => Of(wrote', f) = Of(wrote, f)
      /\ Of(wrote', Target) = Of(wrote, Target) \cup {i}
      /\ \A f : Of(wrote, f)' = Of(wrote', f)
  BY <1>2 DEF Of
<1>8. Of(wrote, Target) = {} => tree[Target] = base[Target]
  <2>1. tree[Target] = MadeBy(Of(wrote, Target), Target)
    BY <1>2 DEF SessionInv, TreeIsMade, Applying
  <2> QED BY <2>1 DEF MadeBy
<1>9. BackedUp'
  <2>1. \A k \in mine : (\A l \in Of(wrote', change[k].file) : k <= l) => saved[k] = Plain(base[change[k].file])
    <3>1. \A f : Of(wrote, f) \subseteq Of(wrote', f)
      BY DEF Of
    <3> QED BY <3>1 DEF SessionInv, BackedUp
  <2>2. ASSUME NEW f \in File, base[f] # Absent, Of(wrote', f) # {}
        PROVE  \E k \in Of(mine, f) : \A l \in Of(wrote', f) : k <= l
    <3>1. CASE f # Target
      BY <1>7, <2>2, <3>1 DEF SessionInv, BackedUp
    <3>2. CASE f = Target /\ Of(wrote, Target) # {}
      <4>1. PICK k \in Of(mine, f) : \A l \in Of(wrote, f) : k <= l
        BY <2>2, <3>2 DEF SessionInv, BackedUp
      <4>2. k <= i
        BY <1>1, <4>1 DEF Of
      <4> QED BY <1>7, <3>2, <4>1, <4>2
    <3>3. CASE f = Target /\ Of(wrote, Target) = {}
      <4>1. i \in Of(mine, f)
        BY <1>1, <1>2, <1>8, <2>2, <3>3 DEF Of
      <4>2. Of(wrote', f) = {i}
        BY <1>7, <3>3
      <4>3. i <= i
        BY <1>1
      <4> QED BY <4>1, <4>2, <4>3
    <3> QED BY <3>1, <3>2, <3>3
  <2>3. \A k \in mine : ((\A l \in Of(wrote, change[k].file) : k <= l) =>
           saved[k] = Plain(base[change[k].file]))'
    BY <2>1 DEF Of
  <2>4. \A f \in File : (base[f] # Absent /\ Of(wrote, f) # {} =>
           \E k \in Of(mine, f) : \A l \in Of(wrote, f) : k <= l)'
    BY <2>2 DEF Of
  <2>5. \A k \in mine : (Cardinality(Own(change[k].file)) <= Retention /\ k \notin spoilt => k \in baks)'
    <3>1. \A f : Own(f)' = Own(f)
      BY DEF Own, Index
    <3> QED BY <3>1 DEF SessionInv, BackedUp
  <2> QED BY <2>3, <2>4, <2>5 DEF BackedUp
<1>10. \A f \in File : tree'[f] = MadeBy(Of(wrote', f), f)
  <2> SUFFICES ASSUME NEW f \in File PROVE tree'[f] = MadeBy(Of(wrote', f), f)
    OBVIOUS
  <2>1. CASE f # Target
    BY <1>3, <1>7, <2>1 DEF SessionInv, TreeIsMade, Applying
  <2>2. CASE f = Target
    <3>1. Newest(Of(wrote', Target)) = i
      <4>1. Of(wrote', Target) \subseteq Nat /\ i \in Of(wrote', Target) /\ \A l \in Of(wrote', Target) : l <= i
        <5>1. Of(wrote, Target) \subseteq 1..i
          BY <1>1 DEF Of
        <5>2. Of(wrote', Target) = Of(wrote, Target) \cup {i}
          BY <1>7
        <5>3. i \in 1..i /\ \A l \in 1..i : l \in Nat /\ l <= i
          BY <1>1
        <5> QED BY <5>1, <5>2, <5>3
      <4> QED BY <4>1, NewestIs
    <3>2. Of(wrote', Target) # {}
      BY <1>7
    <3> QED BY <1>2, <1>3, <2>2, <3>1, <3>2 DEF MadeBy, New
  <2> QED BY <2>1, <2>2
<1>11. TreeIsMade'
  <2>1. \A f \in File : Of(wrote', f) = {} => Clean(f)'
    <3> SUFFICES ASSUME NEW f \in File, Of(wrote', f) = {} PROVE Clean(f)'
      OBVIOUS
    <3>1. f # Target /\ Of(wrote, f) = {}
      BY <1>7
    <3> QED BY <1>3, <3>1 DEF Clean, SessionInv, TreeIsMade
  <2>2. \A f \in File : MadeBy(Of(wrote, f), f)' = MadeBy(Of(wrote', f), f)
    BY <1>7 DEF MadeBy
  <2> QED BY <1>7, <1>10, <2>1, <2>2 DEF TreeIsMade
<1>12. Creations'
  <2>1. ASSUME ~Remade, base[Target] # Absent PROVE Act # "create"
    <3> SUFFICES ASSUME Act = "create" PROVE FALSE
      OBVIOUS
    <3>1. tree[Target] = Absent /\ Of(wrote, Target) # {}
      BY <1>1, <1>8, <2>1
    <3>2. tree[Target] = MadeBy(Of(wrote, Target), Target)
      BY <1>2 DEF SessionInv, TreeIsMade, Applying
    <3>3. Of(wrote, Target) \subseteq Index
      BY DEF Of, SessionInv, SessionTyped
    <3> DEFINE k == Newest(Of(wrote, Target))
    <3>4. k \in Of(wrote, Target)
      BY <3>1, <3>3, NewestIn
    <3>5. change[k].act = "delete"
      <4>1. k \in Nat
        BY <1>2, <3>3, <3>4
      <4> HIDE DEF k
      <4> QED BY <3>1, <3>2, <4>1 DEF MadeBy, Text, Absent, CrLf, k
    <3> HIDE DEF k
    <3>6. k \in Index /\ change[k].file = Target /\ k < i
      <4>1. k \in wrote /\ change[k].file = Target
        BY <3>4 DEF Of
      <4>2. k \in 1..i /\ k # i
        BY <1>1, <4>1
      <4> QED BY <1>1, <3>3, <3>4, <4>1, <4>2
    <3> QED BY <1>2, <2>1, <3>5, <3>6 DEF Remade
  <2>2. ~Remade => \A k \in wrote' : base[change[k].file] # Absent => change[k].act # "create"
    BY <1>2, <2>1 DEF SessionInv, Creations
  <2>3. ASSUME NEW k \in mine \cup wrote', base[change[k].file] = Absent
        PROVE  \E l \in Of(wrote', change[k].file) : change[l].act = "create"
    <3>1. \A f : Of(wrote, f) \subseteq Of(wrote', f)
      BY DEF Of
    <3>2. CASE k \in mine \cup wrote
      BY <2>3, <3>1, <3>2 DEF SessionInv, Creations
    <3>3. CASE k = i /\ Act = "create"
      BY <1>2, <1>7, <3>3
    <3>4. CASE k = i /\ Act # "create"
      BY <1>1, <2>3, <3>1, <3>4 DEF SessionInv, Creations
    <3> QED BY <3>2, <3>3, <3>4
  <2>4. Remade' = Remade
    BY <1>2 DEF Remade
  <2> QED BY <2>2, <2>3, <2>4 DEF Creations, Of
<1>13. AllTold'
  BY <1>1, <1>2 DEF SessionInv, AllTold, Applying
<1>14. RollsBack'
  BY DEF RollsBack
<1> QED BY <1>4, <1>5, <1>6, <1>9, <1>11, <1>12, <1>13, <1>14 DEF SessionInv

LEMMA MutateStep == SessionInv /\ Mutate => SessionInv'
<1> SUFFICES ASSUME SessionInv, Mutate PROVE SessionInv'
  OBVIOUS
<1>1. /\ pc = "mutate"
      /\ \/ /\ tree' = [tree EXCEPT ![Target] = New] /\ wrote' = wrote \cup {i}
            /\ pc' = "commit" /\ UNCHANGED <<i, failed>>
         \/ pc' = "commit" /\ UNCHANGED <<tree, wrote, i, failed>>
         \/ pc' = "examine" /\ i' = i + 1 /\ failed' = TRUE /\ UNCHANGED <<tree, wrote>>
      /\ UNCHANGED <<base, change, rejected, saved, baks, spoilt, mine, created, undo, residual, result>>
  BY DEF Mutate, Fails, NextChange, input, memory, outcome
<1>2. CASE tree' = [tree EXCEPT ![Target] = New] /\ wrote' = wrote \cup {i} /\ pc' = "commit" /\ UNCHANGED <<i, failed>>
  BY <1>1, <1>2, WriteStep
<1>3. ASSUME UNCHANGED <<tree, wrote>>,
             \/ pc' = "commit" /\ UNCHANGED <<i, failed>>
             \/ pc' = "examine" /\ i' = i + 1 /\ failed' = TRUE
      PROVE  SessionInv'
  <2>1. /\ i \in Nat /\ i > 0 /\ i <= Len(change) /\ mine \subseteq 1..i /\ wrote \subseteq 1..i
        /\ i \notin wrote /\ (Act # "create" => i \in mine)
    BY <1>1 DEF SessionInv, Placed, Applying
  <2>2. Index' = Index /\ Len(change) \in Nat
    BY <1>1, SessionFacts DEF Index
  <2>3. SessionTyped' /\ Remembered'
    BY <1>1, <1>3, <2>2 DEF SessionInv, SessionTyped, Remembered
  <2>4. Placed'
    BY <1>1, <1>3, <2>1, <2>2 DEF Placed, Applying, Act
  <2>5. BackedUp' /\ Creations' /\ TreeIsMade'
    BY <1>1, <1>3, SameBackups, SameCreations, SameTree DEF Applying
  <2>6. AllTold'
    BY <1>1, <1>3, <2>1, <2>2 DEF SessionInv, AllTold, Applying
  <2>7. RollsBack'
    BY <1>3 DEF RollsBack
  <2> QED BY <2>3, <2>4, <2>5, <2>6, <2>7 DEF SessionInv
<1> QED BY <1>1, <1>2, <1>3

LEMMA CommitStep == SessionInv /\ Commit => SessionInv'
<1> SUFFICES ASSUME SessionInv, Commit PROVE SessionInv'
  OBVIOUS
<1>1. /\ pc = "commit" /\ pc' = "examine" /\ i' = i + 1
      /\ \/ i \in wrote /\ created' = Remember /\ failed' = failed
         \/ i \notin wrote /\ failed' = TRUE /\ created' = created
      /\ UNCHANGED <<base, change, rejected, tree, saved, baks, spoilt, mine, undo, residual, result, wrote>>
  BY DEF Commit, NextChange, input, outcome
<1>2. i \in Nat /\ i > 0 /\ i <= Len(change) /\ mine \subseteq 1..i /\ wrote \subseteq 1..i
  BY <1>1 DEF SessionInv, Placed, Applying
<1>3. Index' = Index /\ Len(change) \in Nat /\ i \in Index /\ Index = 1..Len(change)
  BY <1>1, <1>2, SessionFacts DEF Index
<1>4. SessionTyped'
  BY <1>1, <1>3 DEF SessionInv, SessionTyped, Remember
<1>5. Placed'
  <2>1. mine \subseteq 1..(i + 1) /\ wrote \subseteq 1..(i + 1) /\ i + 1 \notin mine /\ i + 1 \notin wrote
    BY <1>2
  <2> QED BY <1>1, <1>2, <1>3, <2>1 DEF Placed, Applying
<1>6. Remembered'
  BY <1>1 DEF SessionInv, Remembered, Remember, Act
<1>7. BackedUp' /\ Creations' /\ TreeIsMade'
  BY <1>1, SameBackups, SameCreations, SameTree DEF Applying
<1>8. AllTold'
  BY <1>1, <1>2, <1>3 DEF SessionInv, AllTold, Applying
<1>9. RollsBack'
  BY <1>1 DEF RollsBack
<1> QED BY <1>4, <1>5, <1>6, <1>7, <1>8, <1>9 DEF SessionInv

LEMMA SettleStep == SessionInv /\ Settle => SessionInv'
<1> SUFFICES ASSUME SessionInv, Settle PROVE SessionInv'
  OBVIOUS
<1>1. /\ pc = "examine" /\ i > Len(change)
      /\ \/ /\ failed \/ rejected
            /\ pc' = "restore" /\ undo' = mine /\ result' = [result EXCEPT !.attempted = TRUE]
         \/ /\ (failed \/ rejected) => (mine = {} /\ ~(failed /\ created # {}))
            /\ pc' = "report" /\ UNCHANGED <<undo, result>>
      /\ UNCHANGED <<base, change, rejected, tree, saved, baks, spoilt, i, failed, mine, created,
                     residual, wrote>>
  BY DEF Settle, input, disk, memory
<1>2. Index' = Index /\ Len(change) \in Nat /\ Index = 1..Len(change)
  BY <1>1, SessionFacts DEF Index
<1>3. result' \in ResultRow /\ result'.success = result.success
  BY <1>1 DEF SessionInv, SessionTyped, ResultRow
<1>4. SessionTyped' /\ Remembered' /\ Placed'
  <2>1. SessionTyped'
    BY <1>1, <1>2, <1>3 DEF SessionInv, SessionTyped
  <2>2. Remembered'
    BY <1>1 DEF SessionInv, Remembered
  <2>3. Placed'
    BY <1>1 DEF SessionInv, Placed, Applying
  <2> QED BY <2>1, <2>2, <2>3
<1>5. BackedUp' /\ Creations' /\ Remade' = Remade /\ TreeIsMade'
  BY <1>1, SameBackups, SameCreations, SameTree DEF Applying
<1>6. ~failed => wrote = Index
  <2>1. \A k \in Index : k < i
    BY <1>1, <1>2 DEF SessionInv, Placed
  <2> QED BY <1>1, <2>1 DEF SessionInv, SessionTyped, AllTold, Applying
<1>7. AllTold'
  <2>1. ~failed => \A f \in File : tree[f] = MadeBy(Own(f), f)
    <3>1. ~failed => \A f : Of(wrote, f) = Own(f)
      BY <1>6 DEF Of, Own
    <3> QED BY <1>1, <3>1 DEF SessionInv, TreeIsMade, Applying
  <2>2. \A f \in File : Own(f)' = Own(f)
    BY <1>1, <1>2 DEF Own
  <2>3. \A f \in File : MadeBy(Own(f), f)' = MadeBy(Own(f), f)
    BY <1>1, <2>2 DEF MadeBy
  <2> QED BY <1>1, <1>2, <1>3, <1>6, <2>1, <2>3 DEF SessionInv, AllTold, Applying
<1>8. ASSUME NEW f \in File, undo' = mine PROVE ToRestore(f)'
  <2>1. UNCHANGED <<base, tree, change, created, saved>>
    BY <1>1
  <2>2. ASSUME base[f] = Absent PROVE Of(created, f) # {} \/ (Of(mine, f) = {} /\ tree[f] = Absent)
    <3>1. CASE Of(mine, f) # {} \/ Of(wrote, f) # {}
      <4>1. PICK k \in mine \cup wrote : change[k].file = f
        BY <3>1 DEF Of
      <4>2. PICK l \in Of(wrote, f) : change[l].act = "create"
        BY <2>2, <4>1 DEF SessionInv, Creations
      <4>3. l \in created /\ change[l].file = f
        BY <1>1, <4>2 DEF Of, SessionInv, Remembered
      <4> QED BY <4>3 DEF Of
    <3>2. CASE Of(mine, f) = {} /\ Of(wrote, f) = {}
      <4>1. tree[f] = MadeBy(Of(wrote, f), f)
        BY <1>1 DEF SessionInv, TreeIsMade, Applying
      <4> QED BY <2>2, <3>2, <4>1 DEF MadeBy
    <3> QED BY <3>1, <3>2
  <2>3. ASSUME base[f] # Absent
        PROVE  \/ Of(mine, f) = {} /\ Clean(f)
               \/ \E k \in Of(mine, f) : saved[k] = Plain(base[f]) /\ \A l \in Of(mine, f) : k <= l
    <3>1. CASE Of(mine, f) = {}
      BY <2>3, <3>1 DEF SessionInv, BackedUp, TreeIsMade
    <3>2. CASE Of(mine, f) # {}
      <4>1. Of(mine, f) \subseteq Nat
        BY <1>2 DEF Of, SessionInv, SessionTyped
      <4>2. PICK k \in Of(mine, f) : \A l \in Of(mine, f) : k <= l
        BY <3>2, <4>1, LeastOf
      <4>3. \A l \in Of(wrote, f) : k <= l
        <5> SUFFICES ASSUME NEW l \in Of(wrote, f) PROVE k <= l
          OBVIOUS
        <5>1. PICK e \in Of(mine, f) : e <= l
          BY <2>3 DEF SessionInv, BackedUp
        <5>2. k <= e /\ k \in Nat /\ e \in Nat /\ l \in Nat
          BY <1>2, <4>1, <4>2 DEF Of, SessionInv, SessionTyped
        <5> QED BY <5>1, <5>2
      <4>4. k \in mine /\ change[k].file = f
        BY DEF Of
      <4>5. saved[k] = Plain(base[f])
        BY <4>3, <4>4 DEF SessionInv, BackedUp
      <4> QED BY <4>2, <4>5
    <3> QED BY <3>1, <3>2
  <2>4. Of(created, f)' = Of(created, f) /\ Of(undo, f)' = Of(mine, f) /\ (Clean(f)' <=> Clean(f))
    BY <1>8, <2>1 DEF Of, Clean
  <2> QED BY <2>1, <2>2, <2>3, <2>4 DEF ToRestore
<1>9. ASSUME failed, pc' = "report" PROVE \A f \in File : Clean(f)'
  <2>1. mine = {} /\ created = {}
    BY <1>1, <1>9
  <2>2. wrote = {}
    BY <1>1, <2>1 DEF SessionInv, Remembered
  <2>3. \A f \in File : Of(wrote, f) = {}
    BY <2>2 DEF Of
  <2> QED BY <1>1, <2>3 DEF Clean, SessionInv, TreeIsMade
<1>10. RollsBack'
  BY <1>1, <1>8, <1>9 DEF RollsBack
<1> QED BY <1>4, <1>5, <1>7, <1>10 DEF SessionInv

\* One file is put right, or named, and the others stay as they are.
LEMMA UndoStep ==
    ASSUME SessionInv, pc \in {"restore", "uncreate"}, pc' = pc, undo # {}, undo' = undo \ {Newest(undo)},
           NEW f, f = change[Newest(undo)].file, NEW c \in Nat,
           \/ tree' = [tree EXCEPT ![f] = c] /\ UNCHANGED residual
           \/ residual' = residual \cup {f} /\ UNCHANGED tree,
           UNCHANGED <<base, change, rejected, saved, baks, spoilt, i, failed, mine, created, result, wrote>>,
           tree' # tree => (Of(wrote, f) = {} => Plain(c) = Plain(base[f])),
           ~Remade /\ failed /\ pc = "restore" => f \in residual' \/ ToRestore(f)',
           ~Remade /\ failed /\ pc = "uncreate" => f \in residual' \/ ToUncreate(f)'
    PROVE  SessionInv'
<1>1. Newest(undo) \in undo /\ undo \subseteq Index /\ f \in File
  BY NewestIn, SessionFacts DEF SessionInv, SessionTyped
<1>2. Index' = Index
  BY DEF Index
<1>3. /\ tree' \in [File -> Nat] /\ \A g \in File : g # f => tree'[g] = tree[g]
      /\ tree' # tree => tree'[f] = c
      /\ residual \subseteq residual'
  BY <1>1 DEF SessionInv, SessionTyped
<1>4. SessionTyped'
  BY <1>1, <1>2, <1>3 DEF SessionInv, SessionTyped
<1>5. Placed' /\ Remembered'
  BY DEF SessionInv, Placed, Remembered, Applying
<1>6. BackedUp' /\ Creations' /\ Remade' = Remade
  BY SameBackups, SameCreations
<1>7. TreeIsMade'
  <2>1. \A g \in File : Of(wrote, g)' = Of(wrote, g)
    BY DEF Of
  <2>2. ASSUME NEW g \in File, Of(wrote, g) = {} PROVE Clean(g)'
    <3>1. Clean(g)
      BY <2>2 DEF SessionInv, TreeIsMade
    <3>2. tree'[g] = tree[g] \/ Plain(tree'[g]) = Plain(base[g])
      BY <1>3, <2>2
    <3> QED BY <3>1, <3>2 DEF Clean
  <2> QED BY <2>1, <2>2 DEF TreeIsMade, Applying
<1>8. AllTold'
  BY <1>2 DEF SessionInv, AllTold, Applying
<1>9. RollsBack'
  <2>1. ASSUME ~Remade, failed, NEW g \in File, g # f
        PROVE  /\ pc = "restore" => g \in residual' \/ ToRestore(g)'
               /\ pc = "uncreate" => g \in residual' \/ ToUncreate(g)'
    <3>1. /\ pc = "restore" => g \in residual \/ ToRestore(g)
          /\ pc = "uncreate" => g \in residual \/ ToUncreate(g)
      BY <2>1 DEF SessionInv, RollsBack
    <3>2. Of(undo, g)' = Of(undo, g) /\ Of(created, g)' = Of(created, g)
      BY <2>1 DEF Of
    <3>3. Clean(g)' <=> Clean(g)
      BY <1>3, <2>1 DEF Clean
    <3>4. tree'[g] = tree[g]
      BY <1>3, <2>1
    <3> QED BY <1>3, <3>1, <3>2, <3>3, <3>4 DEF ToRestore, ToUncreate
  <2>2. /\ pc = "restore" => undo' \subseteq mine
        /\ pc = "uncreate" => undo' \subseteq created
    BY DEF SessionInv, RollsBack
  <2> QED BY <1>6, <2>1, <2>2 DEF RollsBack
<1> QED BY <1>4, <1>5, <1>6, <1>7, <1>8, <1>9 DEF SessionInv

LEMMA RestoreStep == SessionInv /\ Restore => SessionInv'
<1> SUFFICES ASSUME SessionInv, Restore PROVE SessionInv'
  OBVIOUS
<1> PICK j : j = Newest(undo)
  OBVIOUS
<1> PICK f : f = change[j].file
  OBVIOUS
<1>1. /\ pc = "restore" /\ pc' = pc /\ undo # {} /\ undo' = undo \ {j}
      /\ \/ tree' = [tree EXCEPT ![f] = saved[j]] /\ UNCHANGED residual
         \/ residual' = residual \cup {f} /\ UNCHANGED tree
      /\ UNCHANGED <<base, change, rejected, saved, baks, spoilt, i, failed, mine, created, result, wrote>>
  <2>1. /\ pc = "restore" /\ undo # {} /\ undo' = undo \ {NextUndo}
        /\ UNCHANGED <<input, saved, baks, spoilt, pc, i, failed, memory, result, wrote>>
    BY DEF Restore
  <2>2. \/ tree' = [tree EXCEPT ![change[NextUndo].file] = saved[NextUndo]] /\ UNCHANGED residual
        \/ residual' = residual \cup {change[NextUndo].file} /\ UNCHANGED tree
    BY DEF Restore
  <2>3. NextUndo = j
    BY DEF NextUndo
  <2> QED BY <2>1, <2>2, <2>3 DEF input, memory
<1>2. j \in undo /\ (\A l \in undo : l <= j) /\ undo \subseteq mine /\ mine \subseteq Index
      /\ f \in File /\ j \in Nat
  <2>1. undo \subseteq mine /\ mine \subseteq Index
    BY <1>1 DEF SessionInv, SessionTyped, RollsBack
  <2>2. j \in undo /\ \A l \in undo : l <= j
    BY <1>1, <2>1, NewestIn
  <2> QED BY <2>1, <2>2, SessionFacts
<1>3. saved[j] \in Nat
  BY <1>2, SessionFacts DEF SessionInv, SessionTyped
<1>4. tree' # tree => tree'[f] = saved[j]
  BY <1>1, <1>2 DEF SessionInv, SessionTyped
<1>5. Plain(Plain(base[f])) = Plain(base[f])
  BY DEF Plain, Lf, CrLf
<1>6. Of(wrote, f) = {} => Plain(saved[j]) = Plain(base[f])
  BY <1>2, <1>5 DEF SessionInv, BackedUp
<1>7. ASSUME ~Remade, failed, f \notin residual' PROVE ToRestore(f)'
  <2>1. tree' = [tree EXCEPT ![f] = saved[j]] /\ f \notin residual /\ tree'[f] = saved[j]
    BY <1>1, <1>2, <1>7 DEF SessionInv, SessionTyped
  <2>2. ToRestore(f)
    BY <1>1, <1>2, <1>7, <2>1 DEF SessionInv, RollsBack
  <2>3. j \in Of(undo, f) /\ Of(undo', f) = Of(undo, f) \ {j}
    BY <1>1, <1>2 DEF Of
  <2>4. Of(created, f)' = Of(created, f) /\ Of(undo, f)' = Of(undo', f)
    BY <1>1 DEF Of
  <2>5. CASE base[f] = Absent
    BY <1>1, <2>2, <2>3, <2>4, <2>5 DEF ToRestore
  <2>6. CASE base[f] # Absent
    <3>1. PICK k \in Of(undo, f) : saved[k] = Plain(base[f]) /\ \A l \in Of(undo, f) : k <= l
      BY <2>2, <2>3, <2>6 DEF ToRestore
    <3>2. CASE k = j
      <4>1. \A l \in Of(undo, f) : l = j
        <5> SUFFICES ASSUME NEW l \in Of(undo, f) PROVE l = j
          OBVIOUS
        <5>1. l \in Nat /\ l <= j /\ j <= l
          <6>1. l \in undo /\ j <= l
            BY <3>1, <3>2 DEF Of
          <6>2. l \in Nat
            BY <1>2, <6>1, SessionFacts
          <6> QED BY <1>2, <6>1, <6>2
        <5> QED BY <1>2, <5>1
      <4>2. Of(undo', f) = {}
        BY <2>3, <4>1
      <4>3. Clean(f)'
        BY <1>1, <1>5, <2>1, <3>1, <3>2 DEF Clean
      <4> QED BY <1>1, <2>4, <2>6, <4>2, <4>3 DEF ToRestore
    <3>3. CASE k # j
      <4>1. k \in Of(undo', f) /\ \A l \in Of(undo', f) : k <= l
        BY <2>3, <3>1, <3>3
      <4> QED BY <1>1, <2>4, <2>6, <3>1, <4>1 DEF ToRestore
    <3> QED BY <3>2, <3>3
  <2> QED BY <2>5, <2>6
<1> QED BY <1>1, <1>3, <1>6, <1>7, UndoStep

LEMMA UncreateStep == SessionInv /\ Uncreate => SessionInv'
<1> SUFFICES ASSUME SessionInv, Uncreate PROVE SessionInv'
  OBVIOUS
<1> PICK j : j = Newest(undo)
  OBVIOUS
<1> PICK f : f = change[j].file
  OBVIOUS
<1>1. /\ pc = "uncreate" /\ pc' = pc /\ undo # {} /\ undo' = undo \ {j}
      /\ \/ tree' = [tree EXCEPT ![f] = Absent] /\ UNCHANGED residual
         \/ residual' = residual \cup {f} /\ UNCHANGED tree
      /\ UNCHANGED <<base, change, rejected, saved, baks, spoilt, i, failed, mine, created, result, wrote>>
  <2>1. /\ pc = "uncreate" /\ undo # {} /\ undo' = undo \ {Newest(undo)}
        /\ UNCHANGED <<input, saved, baks, spoilt, pc, i, failed, memory, result, wrote>>
    BY DEF Uncreate
  <2>2. \/ tree' = [tree EXCEPT ![change[Newest(undo)].file] = Absent] /\ UNCHANGED residual
        \/ residual' = residual \cup {change[Newest(undo)].file} /\ UNCHANGED tree
    BY DEF Uncreate
  <2> QED BY <2>1, <2>2 DEF input, memory
<1>2. j \in undo /\ undo \subseteq created /\ created \subseteq wrote /\ f \in File /\ j \in wrote
  <2>1. undo \subseteq created /\ created \subseteq wrote /\ wrote \subseteq Index
    BY <1>1 DEF SessionInv, SessionTyped, RollsBack
  <2>2. j \in undo
    BY <1>1, <2>1, NewestIn
  <2> QED BY <2>1, <2>2, SessionFacts
<1>3. Of(wrote, f) # {}
  BY <1>2 DEF Of
<1>4. ASSUME ~Remade, failed, f \notin residual' PROVE ToUncreate(f)'
  <2>1. f \notin residual /\ tree'[f] = Absent
    BY <1>1, <1>2, <1>4 DEF SessionInv, SessionTyped
  <2>2. ToUncreate(f)
    BY <1>1, <1>2, <1>4, <2>1 DEF SessionInv, RollsBack
  <2>3. Of(undo, f) # {}
    BY <1>2 DEF Of
  <2>4. base[f] = Absent
    BY <2>2, <2>3 DEF ToUncreate
  <2> QED BY <1>1, <2>1, <2>4 DEF ToUncreate
<1>5. Absent \in Nat
  BY DEF Absent
<1> QED BY <1>1, <1>3, <1>4, <1>5, UndoStep

LEMMA RestoredStep == SessionInv /\ (Restored \/ Uncreated) => SessionInv'
<1> SUFFICES ASSUME SessionInv, Restored \/ Uncreated PROVE SessionInv'
  OBVIOUS
<1>1. /\ undo = {}
      /\ UNCHANGED <<base, change, rejected, tree, saved, baks, spoilt, i, failed, mine, created,
                     residual, result, wrote>>
      /\ \/ pc = "restore" /\ failed /\ pc' = "uncreate" /\ undo' = created
         \/ pc = "restore" /\ ~failed /\ pc' = "report" /\ undo' = undo
         \/ pc = "uncreate" /\ pc' = "report" /\ undo' = undo
  BY DEF Restored, Uncreated, input, disk, memory, outcome
<1>2. Index' = Index
  BY <1>1 DEF Index
<1>3. SessionTyped' /\ Remembered' /\ Placed'
  BY <1>1, <1>2 DEF SessionInv, SessionTyped, Remembered, Placed, Applying
<1>4. BackedUp' /\ Creations' /\ Remade' = Remade /\ TreeIsMade'
  BY <1>1, SameBackups, SameCreations, SameTree DEF Applying
<1>5. AllTold'
  BY <1>1, <1>2 DEF SessionInv, AllTold, Applying
<1>6. \A f : Of(undo, f) = {} /\ Of(created, f)' = Of(created, f) /\ (Clean(f)' <=> Clean(f))
  BY <1>1 DEF Of, Clean
<1>7. ASSUME ~Remade, failed, pc' = "uncreate", NEW f \in File
      PROVE  f \in residual \/ ToUncreate(f)'
  <2>1. f \in residual \/ ToRestore(f)
    BY <1>1, <1>7 DEF SessionInv, RollsBack
  <2>2. Of(undo, f)' = Of(created, f)
    BY <1>1, <1>7 DEF Of
  <2>3. base[f] # Absent => Of(created, f) = {}
    BY <1>7 DEF Of, SessionInv, SessionTyped, Remembered, Creations
  <2> QED BY <1>1, <1>6, <2>1, <2>2, <2>3 DEF ToRestore, ToUncreate
<1>8. ASSUME ~Remade, failed, pc' = "report", NEW f \in File
      PROVE  f \in residual \/ Clean(f)'
  <2>1. f \in residual \/ ToUncreate(f)
    BY <1>1, <1>8 DEF SessionInv, RollsBack
  <2>2. base[f] = Absent /\ tree[f] = Absent => Clean(f)
    BY DEF Clean
  <2> QED BY <1>6, <2>1, <2>2 DEF ToUncreate
<1>9. RollsBack'
  BY <1>1, <1>4, <1>7, <1>8 DEF RollsBack
<1> QED BY <1>3, <1>4, <1>5, <1>9 DEF SessionInv

LEMMA ReportStep == SessionInv /\ Report => SessionInv'
<1> SUFFICES ASSUME SessionInv, Report PROVE SessionInv'
  OBVIOUS
<1>1. /\ pc = "report" /\ pc' = "done"
      /\ UNCHANGED <<base, change, rejected, tree, saved, baks, spoilt, i, failed, mine, created,
                     undo, residual, wrote>>
  BY DEF Report, input, disk, memory
<1>2. result' \in ResultRow /\ (result'.success => ~failed /\ ~rejected)
  <2>1. PICK whole \in BOOLEAN : result' = [result EXCEPT !.complete = whole, !.success = ~failed /\ ~rejected]
    <3> DEFINE whole == result.attempted /\ residual = {} /\ \A f \in Touched : tree[f] = base[f]
    <3>1. result' = [result EXCEPT !.complete = whole, !.success = ~failed /\ ~rejected]
      BY DEF Report
    <3>2. whole \in BOOLEAN
      BY DEF SessionInv, SessionTyped, ResultRow
    <3> HIDE DEF whole
    <3> QED BY <3>1, <3>2
  <2>2. (~failed /\ ~rejected) \in BOOLEAN /\ result \in ResultRow
    BY DEF SessionInv, SessionTyped
  <2> QED BY <2>1, <2>2 DEF ResultRow
<1>3. Index' = Index
  BY <1>1 DEF Index
<1>4. SessionTyped' /\ Remembered' /\ Placed'
  BY <1>1, <1>2, <1>3 DEF SessionInv, SessionTyped, Remembered, Placed, Applying
<1>5. BackedUp' /\ Creations' /\ Remade' = Remade /\ TreeIsMade'
  BY <1>1, SameBackups, SameCreations, SameTree DEF Applying
<1>6. AllTold'
  <2>1. \A f \in File : MadeBy(Own(f), f)' = MadeBy(Own(f), f)
    <3>1. \A f : Own(f)' = Own(f)
      BY <1>1, <1>3 DEF Own
    <3> QED BY <1>1, <3>1 DEF MadeBy
  <2> QED BY <1>1, <1>2, <1>3, <2>1 DEF SessionInv, AllTold, Applying
<1>7. \A f : Clean(f)' <=> Clean(f)
  BY <1>1 DEF Clean
<1>8. RollsBack'
  BY <1>1, <1>5, <1>7 DEF SessionInv, RollsBack
<1> QED BY <1>4, <1>5, <1>6, <1>8 DEF SessionInv

LEMMA OutsideStep == SessionInv /\ (Crash \/ Boot) => SessionInv'
<1> SUFFICES ASSUME SessionInv, Crash \/ Boot PROVE SessionInv'
  OBVIOUS
<1>1. /\ UNCHANGED <<base, change, rejected, tree, saved, baks, spoilt, i, failed, mine, created,
                     undo, residual, result, wrote>>
      /\ \/ pc \notin {"done", "crashed", "booted"} /\ pc' = "crashed"
         \/ pc \in {"done", "crashed"} /\ pc' = "booted"
  BY DEF Crash, Boot, input, disk, memory, outcome
<1>2. Index' = Index
  BY <1>1 DEF Index
<1>3. SessionTyped' /\ Remembered' /\ Placed'
  BY <1>1, <1>2 DEF SessionInv, SessionTyped, Remembered, Placed, Applying
<1>4. BackedUp' /\ Creations' /\ Remade' = Remade /\ TreeIsMade'
  BY <1>1, SameBackups, SameCreations, SameTree DEF Applying
<1>5. AllTold'
  BY <1>1 DEF SessionInv, AllTold, Applying
<1>6. RollsBack'
  BY <1>1 DEF RollsBack
<1> QED BY <1>3, <1>4, <1>5, <1>6 DEF SessionInv

LEMMA SpoilStep == SessionInv /\ Spoil => SessionInv'
<1> SUFFICES ASSUME SessionInv, Spoil PROVE SessionInv'
  OBVIOUS
<1>1. /\ UNCHANGED <<base, change, rejected, tree, saved, pc, i, failed, mine, created,
                     undo, residual, result, wrote>>
      /\ \E k \in baks : spoilt' = spoilt \cup {k} /\ baks' \in {baks, baks \ {k}}
  BY DEF Spoil, input, memory, outcome
<1>2. Index' = Index /\ Target' = Target /\ Act' = Act
  BY <1>1 DEF Index, Target, Act
<1>3. SessionTyped' /\ Remembered' /\ Placed'
  BY <1>1, <1>2 DEF SessionInv, SessionTyped, Remembered, Placed
<1>4. Creations' /\ Remade' = Remade /\ TreeIsMade'
  BY <1>1, SameCreations, SameTree
<1>5. BackedUp'
  <2>1. \A f : Own(f)' = Own(f) /\ Of(mine, f)' = Of(mine, f) /\ Of(wrote, f)' = Of(wrote, f)
    BY <1>1, <1>2 DEF Own, Of
  <2>2. \A k \in mine : Cardinality(Own(change[k].file)) <= Retention /\ k \notin spoilt' => k \in baks'
    BY <1>1 DEF SessionInv, BackedUp
  <2> QED BY <1>1, <2>1, <2>2 DEF SessionInv, BackedUp
<1>6. AllTold' /\ RollsBack'
  <2>1. \A f : /\ Own(f)' = Own(f) /\ Of(undo, f)' = Of(undo, f) /\ Of(created, f)' = Of(created, f)
               /\ (Clean(f)' <=> Clean(f))
    BY <1>1, <1>2 DEF Own, Of, Clean
  <2>2. \A f : MadeBy(Own(f), f)' = MadeBy(Own(f), f)
    BY <1>1, <2>1 DEF MadeBy
  <2>3. AllTold'
    BY <1>1, <1>2, <2>2 DEF SessionInv, AllTold
  <2>4. \A f : (ToRestore(f)' <=> ToRestore(f)) /\ (ToUncreate(f)' <=> ToUncreate(f))
    BY <1>1, <2>1 DEF ToRestore, ToUncreate
  <2> QED BY <1>1, <1>4, <2>1, <2>3, <2>4 DEF SessionInv, RollsBack
<1> QED BY <1>3, <1>4, <1>5, <1>6 DEF SessionInv

LEMMA SessionInitOK == SessionInit => SessionInv
<1> SUFFICES ASSUME SessionInit PROVE SessionInv
  OBVIOUS
<1>1. base \in [File -> Nat]
  <2>1. Original \subseteq Nat
    BY ApplyAssumption DEF Absent, Lf, CrLf
  <2> QED BY <2>1 DEF SessionInit
<1>2. MaxChanges \in Nat
  BY ApplyAssumption
<1>3. PICK n \in 1..MaxChanges : change \in [1..n -> ChangeRow]
  BY DEF SessionInit, ChangeRow
<1>4. change \in Seq(ChangeRow) /\ Len(change) = n
  BY <1>2, <1>3
<1>5. saved \in [1..MaxChanges -> Nat]
  BY DEF SessionInit, Absent
<1>6. SessionTyped
  <2>1. NoResult \in ResultRow
    BY DEF NoResult, ResultRow
  <2>2. tree \in [File -> Nat] /\ Len(change) <= MaxChanges
    BY <1>1, <1>2, <1>3, <1>4 DEF SessionInit
  <2> QED BY <1>1, <1>4, <1>5, <2>1, <2>2 DEF SessionInit, SessionTyped
<1>7. Placed
  BY <1>2, <1>3, <1>4 DEF SessionInit, Placed, Applying
<1>8. Remembered /\ BackedUp /\ Creations
  BY DEF SessionInit, Remembered, BackedUp, Creations, Of
<1>9. TreeIsMade
  <2>1. \A f \in File : Of(wrote, f) = {}
    BY DEF SessionInit, Of
  <2> QED BY <2>1 DEF SessionInit, TreeIsMade, Clean, MadeBy
<1>10. AllTold
  BY <1>2, <1>3, <1>4 DEF SessionInit, AllTold, Index, NoResult
<1>11. RollsBack
  BY DEF SessionInit, RollsBack
<1> QED BY <1>6, <1>7, <1>8, <1>9, <1>10, <1>11 DEF SessionInv

\* A session that failed leaves every file clean or named, one that succeeded
\* did all of its changes, and the original of a file is never out of reach:
\* for any list of changes on any files, any faults, crashes and lost backups.
THEOREM SessionIsTold == Spec => []SessionTellsAll
<1>1. Init => SessionInv
  BY SessionInitOK DEF Init
<1>2. SessionInv /\ [Next]_vars => SessionInv'
  <2>1. [Next]_vars => SessionNext \/ UNCHANGED sessionVars
    BY DEF Next, vars
  <2>2. SessionInv /\ UNCHANGED sessionVars => SessionInv'
    <3> SUFFICES ASSUME SessionInv, UNCHANGED sessionVars PROVE SessionInv'
      OBVIOUS
    <3>1. UNCHANGED <<base, change, rejected, tree, saved, baks, spoilt, pc, i, failed, mine, created,
                      undo, residual, result, wrote>>
      BY DEF sessionVars, input, disk, memory, outcome
    <3>2. \A f : /\ Own(f)' = Own(f) /\ Of(undo, f)' = Of(undo, f) /\ Of(created, f)' = Of(created, f)
                 /\ (Clean(f)' <=> Clean(f)) /\ Index' = Index /\ Target' = Target /\ Act' = Act
      BY <3>1 DEF Own, Of, Clean, Index, Target, Act
    <3>3. \A f : /\ MadeBy(Own(f), f)' = MadeBy(Own(f), f)
                 /\ (ToRestore(f)' <=> ToRestore(f)) /\ (ToUncreate(f)' <=> ToUncreate(f))
      BY <3>1, <3>2 DEF MadeBy, ToRestore, ToUncreate
    <3>4. SessionTyped' /\ Remembered' /\ Placed'
      BY <3>1, <3>2 DEF SessionInv, SessionTyped, Remembered, Placed
    <3>5. BackedUp' /\ Creations' /\ Remade' = Remade /\ TreeIsMade'
      BY <3>1, SameBackups, SameCreations, SameTree
    <3>6. AllTold' /\ RollsBack'
      BY <3>1, <3>2, <3>3, <3>5 DEF SessionInv, AllTold, RollsBack
    <3> QED BY <3>4, <3>5, <3>6 DEF SessionInv
  <2> QED BY <2>1, <2>2, ExamineStep, BackupStep, IntentStep, MutateStep, CommitStep, SettleStep,
             RestoreStep, RestoredStep, UncreateStep, ReportStep, OutsideStep, SpoilStep
          DEF SessionNext, Session
<1>3. SessionInv => SessionTellsAll
  <2> SUFFICES ASSUME SessionInv PROVE SessionTellsAll
    OBVIOUS
  <2>1. DirtIsNamed
    BY DEF SessionInv, RollsBack, DirtIsNamed
  <2>2. SuccessMeansAll
    BY DEF SessionInv, SessionTyped, AllTold, SuccessMeansAll
  <2>3. ASSUME NEW f \in File, base[f] # Absent, Cardinality(Own(f)) <= Retention, Own(f) \cap spoilt = {}, ~Clean(f)
        PROVE  \E k \in Own(f) \cap baks : saved[k] = Plain(base[f])
    <3>1. PICK k \in Of(mine, f) : \A l \in Of(wrote, f) : k <= l
      BY <2>3 DEF SessionInv, TreeIsMade, BackedUp
    <3>2. k \in mine /\ change[k].file = f /\ k \in Own(f)
      BY DEF Of, Own, SessionInv, SessionTyped
    <3>3. saved[k] = Plain(base[f]) /\ k \in baks
      BY <2>3, <3>1, <3>2 DEF SessionInv, BackedUp
    <3> QED BY <3>2, <3>3
  <2>4. OriginalKept
    BY <2>3 DEF OriginalKept
  <2> QED BY <2>1, <2>2, <2>4 DEF SessionTellsAll
<1> QED BY <1>1, <1>2, <1>3, PTL DEF Spec

(***************************************************************************)
(* Managed blocks                                                          *)
(*                                                                         *)
(* Until somebody else touches the file or a process dies, the newest      *)
(* backup is what the process that took it remembers to have taken last,   *)
(* and no other process has taken one since.                               *)
(***************************************************************************)
NewestIsKnown ==
    backupsOf # <<>> =>
        LET bak == Last(backupsOf) IN
        bak.by \in Applier =>
            /\ blockGhost[bak.by].taken = bak.content
            /\ ~blockGhost[bak.by].foreign

BlockInv ==
    /\ outside \in Nat
    /\ DOMAIN blockGhost = Applier
    /\ \E S : backupsOf \in Seq(S)
    /\ outside = 0 => NewestIsKnown /\ RevertTakesBackItsOwn

LEMMA PrunedKeepsLast ==
    ASSUME NEW S, NEW s \in Seq(S)
    PROVE  /\ PrunedBackups(s) \in Seq(S)
           /\ (s # <<>> => PrunedBackups(s) # <<>> /\ Last(PrunedBackups(s)) = Last(s))
           /\ (s = <<>> => PrunedBackups(s) = <<>>)
<1>1. BakRetention \in Nat /\ BakRetention > 0
  BY BlockAssumption
<1>2. CASE Len(s) > BakRetention
  <2>1. PrunedBackups(s) = SubSeq(s, Len(s) - BakRetention + 1, Len(s))
    BY <1>2 DEF PrunedBackups
  <2> DEFINE m == Len(s) - BakRetention + 1
  <2>2. m \in 2..Len(s) /\ Len(s) \in Nat
    BY <1>1, <1>2
  <2>3. /\ SubSeq(s, m, Len(s)) \in Seq(S)
        /\ Len(SubSeq(s, m, Len(s))) = BakRetention
        /\ SubSeq(s, m, Len(s))[BakRetention] = s[m + BakRetention - 1]
    BY <1>1, <2>2
  <2>4. m + BakRetention - 1 = Len(s)
    BY <1>1, <2>2
  <2> HIDE DEF m
  <2>5. PrunedBackups(s) = SubSeq(s, m, Len(s))
    BY <2>1 DEF m
  <2> DEFINE kept == PrunedBackups(s)
  <2>6. kept \in Seq(S) /\ Len(kept) = BakRetention /\ kept[BakRetention] = s[Len(s)]
    BY <2>3, <2>4, <2>5
  <2> HIDE DEF kept
  <2>7. Last(kept) = Last(s)
    BY <2>6 DEF Last
  <2>8. kept # <<>> /\ s # <<>>
    BY <1>1, <2>2, <2>6
  <2> QED BY <2>6, <2>7, <2>8 DEF kept
<1>3. CASE ~(Len(s) > BakRetention)
  <2>1. PrunedBackups(s) = SubSeq(s, 1, Len(s))
    BY <1>3 DEF PrunedBackups
  <2>2. SubSeq(s, 1, Len(s)) = s
    OBVIOUS
  <2> QED BY <2>1, <2>2
<1> QED BY <1>2, <1>3

LEMMA BlockInitOK == BlockInit => BlockInv
<1> SUFFICES ASSUME BlockInit PROVE BlockInv
  OBVIOUS
<1>1. backupsOf \in Seq({})
  BY DEF BlockInit
<1>2. DOMAIN blockGhost = Applier /\ outside = 0 /\ \A a \in Applier : ~blockGhost[a].reverted
  BY DEF BlockInit, NoRevert
<1> QED BY <1>1, <1>2 DEF BlockInv, NewestIsKnown, RevertTakesBackItsOwn, BlockInit

LEMMA BlockStep == BlockInv /\ [BlockNext]_blockVars => BlockInv'
<1> SUFFICES ASSUME BlockInv, [BlockNext]_blockVars PROVE BlockInv'
  OBVIOUS
<1> USE DEF BlockInv
<1>1. ASSUME NEW a \in Applier, ReadTarget(a) PROVE BlockInv'
  <2>1. UNCHANGED <<backupsOf, outside>> /\ DOMAIN blockGhost' = Applier
    BY <1>1 DEF ReadTarget
  <2>2. \A b \in Applier : /\ blockGhost'[b].taken = blockGhost[b].taken
                           /\ blockGhost'[b].foreign = blockGhost[b].foreign
                           /\ blockGhost'[b].to = blockGhost[b].to
                           /\ blockGhost'[b].over = blockGhost[b].over
                           /\ (blockGhost'[b].reverted => blockGhost[b].reverted)
    BY <1>1 DEF ReadTarget
  <2> QED BY <2>1, <2>2 DEF NewestIsKnown, RevertTakesBackItsOwn
<1>2. ASSUME NEW a \in Applier, BackUp(a) PROVE BlockInv'
  <2>1. outside' = outside
    BY <1>2 DEF BackUp
  <2>2. CASE UNCHANGED <<backupsOf, blockGhost>>
    BY <2>1, <2>2 DEF NewestIsKnown, RevertTakesBackItsOwn
  <2>3. CASE ~UNCHANGED <<backupsOf, blockGhost>>
    <3> DEFINE row == [content |-> applier[a].seen, by |-> a, altered |-> FALSE,
                       generation |-> applier[a].generation]
    <3>1. /\ backupsOf' = Append(backupsOf, row)
          /\ blockGhost' = [b \in Applier |->
                               IF b = a THEN [NoRevert EXCEPT !.taken = applier[a].seen]
                               ELSE [blockGhost[b] EXCEPT !.foreign = TRUE]]
      BY <1>2, <2>3 DEF BackUp
    <3>2. PICK S : backupsOf \in Seq(S)
      OBVIOUS
    <3>3. backupsOf \in Seq(S \cup {row}) /\ row \in S \cup {row}
      BY <3>2
    <3>4. backupsOf' \in Seq(S \cup {row}) /\ Last(backupsOf') = row /\ row.by = a
          /\ row.content = applier[a].seen
      <4> HIDE DEF row
      <4>1. backupsOf' \in Seq(S \cup {row}) /\ Last(backupsOf') = row
        BY <3>1, <3>3 DEF Last
      <4> QED BY <4>1 DEF row
    <3>5. /\ blockGhost'[a].taken = applier[a].seen /\ ~blockGhost'[a].foreign
          /\ ~blockGhost'[a].reverted
      BY <3>1 DEF NoRevert
    <3>6. ASSUME NEW b \in Applier, b # a
          PROVE /\ blockGhost'[b].to = blockGhost[b].to /\ blockGhost'[b].over = blockGhost[b].over
                /\ blockGhost'[b].taken = blockGhost[b].taken
                /\ blockGhost'[b].reverted = blockGhost[b].reverted
      <4>1. blockGhost'[b] = [blockGhost[b] EXCEPT !.foreign = TRUE]
        BY <3>1, <3>6
      <4> QED BY <4>1
    <3>7. NewestIsKnown'
      BY <3>4, <3>5 DEF NewestIsKnown
    <3>8. outside = 0 => RevertTakesBackItsOwn'
      BY <2>1, <3>5, <3>6 DEF RevertTakesBackItsOwn
    <3>9. DOMAIN blockGhost' = Applier
      BY <3>1
    <3> QED BY <2>1, <3>4, <3>7, <3>8, <3>9
  <2> QED BY <2>2, <2>3
<1>3. ASSUME NEW a \in Applier, WriteBlock(a) PROVE BlockInv'
  <2>1. UNCHANGED <<outside, blockGhost>> /\ (backupsOf' = PrunedBackups(backupsOf) \/ UNCHANGED backupsOf)
    BY <1>3 DEF WriteBlock
  <2>2. PICK S : backupsOf \in Seq(S)
    OBVIOUS
  <2>3. /\ backupsOf' \in Seq(S)
        /\ (backupsOf # <<>> => Last(backupsOf') = Last(backupsOf))
        /\ (backupsOf = <<>> => backupsOf' = <<>>)
    BY <2>1, <2>2, PrunedKeepsLast
  <2> QED BY <2>1, <2>3 DEF NewestIsKnown, RevertTakesBackItsOwn
<1>4. ASSUME NEW a \in Applier, Revert(a) PROVE BlockInv'
  <2>1. /\ UNCHANGED <<backupsOf, outside>> /\ backupsOf # <<>> /\ Last(backupsOf).by = a
        /\ blockGhost' = [blockGhost EXCEPT ![a].reverted = TRUE, ![a].to = Last(backupsOf).content,
                                            ![a].over = blockGhost[a].foreign]
    BY <1>4 DEF Revert, NewestBackup
  <2>2. /\ blockGhost'[a].taken = blockGhost[a].taken
        /\ blockGhost'[a].foreign = blockGhost[a].foreign
        /\ blockGhost'[a].to = Last(backupsOf).content
        /\ blockGhost'[a].over = blockGhost[a].foreign
    BY <2>1
  <2>3. \A b \in Applier : b # a => blockGhost'[b] = blockGhost[b]
    BY <2>1
  <2>4. DOMAIN blockGhost' = Applier
    BY <2>1
  <2> QED BY <2>1, <2>2, <2>3, <2>4 DEF NewestIsKnown, RevertTakesBackItsOwn
<1>5. ASSUME NEW a \in Applier, DieApplier(a) PROVE BlockInv'
  BY <1>5 DEF DieApplier
<1>6. CASE Meddle
  <2>1. outside' = outside + 1 /\ UNCHANGED blockGhost
    BY <1>6 DEF Meddle
  <2>2. PICK S : backupsOf \in Seq(S)
    OBVIOUS
  <2>3. ASSUME NEW j \in DOMAIN backupsOf, backupsOf' = RemoveAt(backupsOf, j)
        PROVE  backupsOf' \in Seq(S)
    BY <2>2, <2>3 DEF RemoveAt
  <2>4. ASSUME NEW j \in DOMAIN backupsOf,
               backupsOf' = [backupsOf EXCEPT ![j].altered = TRUE, ![j].content = Empty]
        PROVE  \E U : backupsOf' \in Seq(U)
    <3> DEFINE U == {backupsOf'[k] : k \in 1..Len(backupsOf)}
    <3>1. Len(backupsOf) \in Nat /\ DOMAIN backupsOf = 1..Len(backupsOf)
      BY <2>2
    <3>2. backupsOf' \in [1..Len(backupsOf) -> U]
      BY <2>4, <3>1
    <3> HIDE DEF U
    <3>3. backupsOf' \in Seq(U)
      BY <3>1, <3>2
    <3> QED BY <3>3
  <2>5. \E U : backupsOf' \in Seq(U)
    BY <1>6, <2>2, <2>3, <2>4 DEF Meddle
  <2> QED BY <2>1, <2>5
<1>7. CASE UNCHANGED blockVars
  BY <1>7 DEF blockVars, NewestIsKnown, RevertTakesBackItsOwn
<1> QED BY <1>1, <1>2, <1>3, <1>4, <1>5, <1>6, <1>7 DEF BlockNext

\* A revert puts back what its process backed up last, over nobody else's
\* backup, for any processes, proposals and retention.
THEOREM RevertIsItsOwn == Spec => []RevertTakesBackItsOwn
<1>1. Init => BlockInv
  BY BlockInitOK DEF Init
<1>2. BlockInv /\ [Next]_vars => BlockInv'
  <2>1. [Next]_vars => [BlockNext]_blockVars
    BY DEF Next, vars
  <2> QED BY <2>1, BlockStep
<1>3. BlockInv => RevertTakesBackItsOwn
  BY DEF BlockInv, RevertTakesBackItsOwn
<1> QED BY <1>1, <1>2, <1>3, PTL DEF Spec

(***************************************************************************)
(* The chain of applied changes                                            *)
(*                                                                         *)
(* The bodies appended are 1, 2, 3 ...; a whole row of a ledger on which   *)
(* nothing was built after an edit has the hash of the first n of them and *)
(* names that of the first n - 1, whatever became of its place or body.    *)
(***************************************************************************)
Row == [whole : BOOLEAN, body : Nat, prev : Seq(Nat), hash : Seq(Nat), seq : Nat \cup {NoSeq}]
Upto(h, n) == h \in Seq(Nat) /\ Len(h) = n /\ \A k \in 1..n : h[k] = k
GoodRow ==
    {r \in Row : r.whole => \E n \in 1..Len(written) : Upto(r.prev, n - 1) /\ Upto(r.hash, n)}

NumbersRun ==
    /\ \A k \in Numbered : InOrder(k)
    /\ numbering /\ chain # <<>> /\ Last(chain).seq = NoSeq => Numbered = {}

ChainTypeOK ==
    /\ chain \in Seq(Row) /\ numbering \in BOOLEAN /\ tampering \in Nat
    /\ chainGhost \in [resumed : BOOLEAN, torn : BOOLEAN, restarted : BOOLEAN]

ChainInv ==
    /\ ChainTypeOK
    /\ Upto(written, Len(written))
    /\ ~chainGhost.resumed => chain \in Seq(GoodRow)
    /\ Untouched => \A k \in 1..Len(chain) : Linked(k)
    /\ Untouched /\ ~chainGhost.restarted => NumbersRun

LEMMA RowFields ==
    ASSUME NEW r \in Row
    PROVE  /\ r.whole \in BOOLEAN /\ r.body \in Nat /\ r.prev \in Seq(Nat) /\ r.hash \in Seq(Nat)
           /\ r.seq \in Nat \cup {NoSeq}
BY DEF Row

LEMMA LastRow ==
    ASSUME ChainTypeOK, chain # <<>>
    PROVE  Len(chain) \in Nat /\ Len(chain) > 0 /\ Last(chain) = chain[Len(chain)] /\ Last(chain) \in Row
BY SeqFacts DEF ChainTypeOK, Last

\* The row an append adds.
LEMMA NextRowFacts ==
    ASSUME ChainTypeOK, NEW body \in Nat
    PROVE  /\ NextRow(body) \in Row /\ NextRow(body).whole /\ NextRow(body).body = body
           /\ NextRow(body).prev = (IF chain = <<>> THEN <<>> ELSE Last(chain).hash)
           /\ NextRow(body).hash = Append(NextRow(body).prev, body)
           /\ ~numbering => NextRow(body).seq = NoSeq
           /\ numbering => NextRow(body).seq =
                (IF chain = <<>> \/ Last(chain).seq = NoSeq THEN 0 ELSE Last(chain).seq + 1)
<1> DEFINE prev == IF chain = <<>> THEN GENESIS_PREV_HASH ELSE Last(chain).hash
           before == IF chain = <<>> THEN NoSeq ELSE Last(chain).seq
           seq == IF ~numbering THEN NoSeq ELSE IF before = NoSeq THEN 0 ELSE before + 1
           row == [whole |-> TRUE, body |-> body, prev |-> prev, hash |-> Append(prev, body), seq |-> seq]
<1>1. NextRow(body) = row
  BY DEF NextRow, compute_entry_hash
<1>2. prev \in Seq(Nat) /\ before \in Nat \cup {NoSeq} /\ seq \in Nat \cup {NoSeq}
  BY LastRow, RowFields DEF GENESIS_PREV_HASH, NoSeq
<1>3. Append(prev, body) \in Seq(Nat)
  BY <1>2
<1>4. prev = (IF chain = <<>> THEN <<>> ELSE Last(chain).hash)
  BY DEF GENESIS_PREV_HASH
<1>5. /\ ~numbering => seq = NoSeq
      /\ numbering => seq = (IF chain = <<>> \/ Last(chain).seq = NoSeq THEN 0 ELSE Last(chain).seq + 1)
  OBVIOUS
<1> HIDE DEF prev, seq
<1>6. row \in Row
  BY <1>2, <1>3 DEF Row
<1> QED BY <1>1, <1>4, <1>5, <1>6

\* Where nothing was edited the last row carries all that was written.
LEMMA LastCarriesAll ==
    ASSUME ChainInv, ~chainGhost.resumed, Bodies = written, LastStands, chain # <<>>
    PROVE  Upto(Last(chain).hash, Len(written))
<1> DEFINE last == Last(chain)
           len == Len(written)
<1>1. /\ len = Len(chain) /\ len \in Nat /\ len > 0
      /\ last.body = written[len] /\ written[len] = len
  <2>1. DOMAIN chain = 1..Len(chain) /\ Len(chain) \in Nat /\ Len(chain) > 0 /\ last = chain[Len(chain)]
    BY LastRow, SeqFacts DEF ChainInv, ChainTypeOK
  <2>2. DOMAIN written = 1..len /\ len \in Nat
    BY SeqFacts DEF ChainInv, Upto
  <2>3. DOMAIN Bodies = DOMAIN chain /\ Bodies[Len(chain)] = last.body
    BY <2>1 DEF Bodies
  <2>4. len = Len(chain)
    <3>1. 1..len = 1..Len(chain)
      <4>1. DOMAIN written = DOMAIN chain
        BY <2>3
      <4> HIDE DEF len
      <4> QED BY <2>1, <2>2, <4>1
    <3> QED BY <2>1, <2>2, <3>1, SameLength
  <2> QED BY <2>1, <2>3, <2>4 DEF ChainInv, Upto
<1>2. last.whole /\ last.hash = Append(last.prev, last.body)
  BY DEF LastStands, compute_entry_hash
<1>3. last \in GoodRow
  BY <1>1, LastRow, SeqFacts DEF ChainInv
<1>4. PICK n \in 1..len : Upto(last.prev, n - 1) /\ Upto(last.hash, n)
  BY <1>2, <1>3 DEF GoodRow
<1>5. last.hash[n] = last.body
  <2>1. last.prev \in Seq(Nat) /\ Len(last.prev) = n - 1 /\ last.body \in Nat
    BY <1>1, <1>4 DEF Upto
  <2> QED BY <1>1, <1>2, <1>4, <2>1, SeqFacts
<1>6. n = len
  BY <1>1, <1>4, <1>5 DEF Upto
<1> QED BY <1>4, <1>6

LEMMA AppendEntryStep == ChainInv /\ AppendEntry => ChainInv'
<1> SUFFICES ASSUME ChainInv, AppendEntry PROVE ChainInv'
  OBVIOUS
<1> DEFINE len == Len(written)
           body == len + 1
           row == NextRow(body)
<1>1. /\ ChainTypeOK /\ len \in Nat /\ body \in Nat /\ written \in Seq(Nat) /\ LastStands
      /\ chain' = Append(chain, row) /\ written' = Append(written, body)
      /\ chainGhost'.torn = chainGhost.torn /\ chainGhost'.restarted = chainGhost.restarted
      /\ chainGhost'.resumed = (chainGhost.resumed \/ Bodies # written)
      /\ chainGhost' \in [resumed : BOOLEAN, torn : BOOLEAN, restarted : BOOLEAN]
      /\ UNCHANGED <<numbering, tampering>>
  <2>1. ChainTypeOK /\ written \in Seq(Nat)
    BY DEF ChainInv, Upto
  <2>2. len \in Nat /\ body \in Nat
    BY <2>1, SeqFacts
  <2>3. /\ LastStands /\ chain' = Append(chain, row) /\ written' = Append(written, body)
        /\ chainGhost' = [chainGhost EXCEPT !.resumed = @ \/ Bodies # written]
        /\ UNCHANGED <<numbering, tampering>>
    BY DEF AppendEntry
  <2> QED BY <2>1, <2>2, <2>3 DEF ChainTypeOK
<1>2. /\ row \in Row /\ row.whole /\ row.body = body
      /\ row.prev = (IF chain = <<>> THEN <<>> ELSE Last(chain).hash)
      /\ row.hash = Append(row.prev, body)
      /\ ~numbering => row.seq = NoSeq
      /\ numbering => row.seq = (IF chain = <<>> \/ Last(chain).seq = NoSeq THEN 0 ELSE Last(chain).seq + 1)
  BY <1>1, NextRowFacts
<1> HIDE DEF row
<1>3. chain \in Seq(Row) /\ Len(chain) \in Nat /\ DOMAIN chain = 1..Len(chain)
  BY <1>1, SeqFacts DEF ChainTypeOK
<1>4. /\ chain' \in Seq(Row) /\ Len(chain') = Len(chain) + 1 /\ chain'[Len(chain) + 1] = row
      /\ \A k \in 1..Len(chain) : chain'[k] = chain[k]
      /\ DOMAIN chain' = 1..Len(chain')
  <2>1. Append(chain, row) \in Seq(Row)
    BY <1>2, <1>3, SeqFacts
  <2> QED BY <1>1, <1>2, <1>3, <2>1, SeqFacts
<1> PICK n : n = Len(chain) + 1
  OBVIOUS
<1>0. n \in Nat /\ n > 0 /\ n - 1 = Len(chain) /\ Len(chain') = n /\ chain'[n] = row
  BY <1>3, <1>4
<1>5. Upto(written', len + 1) /\ Len(written') = len + 1
  BY <1>1, SeqFacts DEF ChainInv, Upto
<1>6. ASSUME ~chainGhost'.resumed PROVE chain' \in Seq(GoodRow')
  <2>1. ~chainGhost.resumed /\ Bodies = written
    BY <1>1, <1>6
  <2>2. Upto(row.prev, len)
    <3>1. CASE chain = <<>>
      <4>1. len = 0
        BY <1>1, <1>3, <2>1, <3>1, SeqFacts DEF Bodies
      <4> QED BY <1>2, <3>1, <4>1 DEF Upto
    <3>2. CASE chain # <<>>
      BY <1>1, <1>2, <2>1, <3>2, LastCarriesAll
    <3> QED BY <3>1, <3>2
  <2>3. Upto(row.hash, body)
    BY <1>1, <1>2, <2>2, SeqFacts DEF Upto
  <2>4. row \in GoodRow'
    <3>1. body \in 1..Len(written') /\ body - 1 = len
      BY <1>1, <1>5
    <3> QED BY <1>2, <2>2, <2>3, <3>1 DEF GoodRow
  <2>5. chain \in Seq(GoodRow)
    BY <2>1 DEF ChainInv
  <2>6. GoodRow \subseteq GoodRow'
    BY <1>1, <1>5 DEF GoodRow
  <2>7. \A k \in 1..Len(chain) + 1 : chain'[k] \in GoodRow'
    BY <1>3, <1>4, <2>4, <2>5, <2>6, SeqFacts
  <2>8. GoodRow' \subseteq Row
    BY DEF GoodRow
  <2> HIDE DEF GoodRow
  <2>9. chain' \in [1..Len(chain') -> GoodRow']
    BY <1>4, <2>7
  <2> QED BY <1>3, <1>4, <2>9
<1>7. ASSUME Untouched PROVE \A k \in 1..Len(chain') : Linked(k)'
  <2>1. \A k \in 1..Len(chain) : Linked(k)
    BY <1>7 DEF ChainInv
  <2>2. \A k \in 1..Len(chain) : Linked(k)'
    BY <1>3, <1>4, <2>1 DEF Linked
  <2>3. Linked(n)'
    <3>1. chain = <<>> => n = 1 /\ row.prev = GENESIS_PREV_HASH
      BY <1>0, <1>2 DEF GENESIS_PREV_HASH
    <3>2. ASSUME chain # <<>> PROVE n # 1 /\ row.prev = chain'[n - 1].hash
      <4>1. Len(chain) > 0 /\ Len(chain) \in 1..Len(chain) /\ Last(chain) = chain[Len(chain)]
        BY <1>1, <3>2, LastRow
      <4>2. chain'[n - 1] = Last(chain)
        BY <1>0, <1>4, <4>1
      <4> QED BY <1>0, <1>2, <3>2, <4>1, <4>2
    <3> QED BY <1>0, <1>2, <3>1, <3>2 DEF Linked, compute_entry_hash
  <2>4. \A k \in 1..Len(chain') : k \in 1..Len(chain) \/ k = n
    BY <1>0, <1>3
  <2> QED BY <2>2, <2>3, <2>4
<1>8. ASSUME Untouched, ~chainGhost.restarted PROVE NumbersRun'
  <2>1. NumbersRun
    BY <1>8 DEF ChainInv
  <2>2. Numbered \subseteq 1..Len(chain)
    BY <1>3 DEF Numbered
  <2>3. Numbered' = IF numbering THEN Numbered \cup {n} ELSE Numbered
    BY <1>0, <1>1, <1>2, <1>3, <1>4, LastRow, RowFields DEF Numbered, NoSeq
  <2>4. \A k \in 1..n : {j \in Numbered' : j < k} = {j \in Numbered : j < k}
    BY <1>0, <1>3, <2>2, <2>3
  <2>5. ASSUME NEW k \in Numbered PROVE InOrder(k)'
    <3> DEFINE earlier == {j \in Numbered : j < k}
               last == CHOOSE j \in earlier : \A l \in earlier : l <= j
    <3>1. InOrder(k) /\ k \in 1..Len(chain)
      BY <2>1, <2>2, <2>5 DEF NumbersRun
    <3>2. {j \in Numbered' : j < k} = earlier
      BY <1>0, <1>3, <2>4, <3>1
    <3>3. chain[k].seq = IF earlier = {} THEN 0 ELSE chain[last].seq + 1
      BY <3>1 DEF InOrder
    <3>4. chain'[k].seq = chain[k].seq
      BY <1>4, <3>1
    <3>5. earlier # {} => last \in 1..Len(chain)
      <4>1. earlier \subseteq 1..Len(chain)
        BY <2>2
      <4>2. earlier # {} => \E j \in earlier : \A l \in earlier : l <= j
        BY <1>3, <4>1, GreatestOf
      <4> HIDE DEF earlier
      <4> QED BY <4>1, <4>2
    <3>6. earlier # {} => chain'[last].seq = chain[last].seq
      BY <1>4, <3>5
    <3>7. chain'[k].seq = IF earlier = {} THEN 0 ELSE chain'[last].seq + 1
      BY <3>3, <3>4, <3>6
    <3> HIDE DEF earlier
    <3> QED BY <3>2, <3>7 DEF InOrder
  <2>6. CASE ~numbering
    BY <1>1, <2>1, <2>3, <2>5, <2>6 DEF NumbersRun
  <2>7. CASE numbering
    <3>1. {j \in Numbered' : j < n} = Numbered
      <4>1. \A j \in Numbered : j \in Nat /\ j < n
        BY <1>0, <1>3, <2>2
      <4>2. Numbered' \subseteq Numbered \cup {n}
        BY <2>3
      <4> QED BY <1>0, <2>3, <2>7, <4>1, <4>2
    <3>2. row.seq # NoSeq
      BY <1>1, <1>2, <2>7, LastRow, RowFields DEF NoSeq
    <3>3. InOrder(n)'
      <4>1. CASE Numbered = {}
        <5>1. chain = <<>> \/ Last(chain).seq = NoSeq
          <6> SUFFICES ASSUME chain # <<>> PROVE Last(chain).seq = NoSeq
            OBVIOUS
          <6>1. Len(chain) \in DOMAIN chain /\ Last(chain) = chain[Len(chain)]
            BY <1>1, <1>3, LastRow
          <6> QED BY <4>1, <6>1 DEF Numbered
        <5> QED BY <1>0, <1>2, <2>7, <3>1, <4>1, <5>1 DEF InOrder
      <4>2. CASE Numbered # {}
        <5>1. chain # <<>> /\ Last(chain).seq # NoSeq
          <6>1. chain # <<>>
            <7>1. PICK j \in Numbered : j \in 1..Len(chain)
              BY <2>2, <4>2
            <7>2. Len(chain) # 0
              BY <1>3, <7>1
            <7> QED BY <7>2
          <6> QED BY <2>1, <2>7, <4>2, <6>1 DEF NumbersRun
        <5>2. Len(chain) \in Numbered /\ Last(chain) = chain[Len(chain)]
          BY <1>1, <1>3, <5>1, LastRow DEF Numbered
        <5>3. (CHOOSE j \in Numbered : \A l \in Numbered : l <= j) = Len(chain)
          <6>1. \A l \in Numbered : l <= Len(chain)
            BY <1>3, <2>2
          <6>2. \A j \in Numbered : (\A l \in Numbered : l <= j) => j = Len(chain)
            <7> SUFFICES ASSUME NEW j \in Numbered, \A l \in Numbered : l <= j PROVE j = Len(chain)
              OBVIOUS
            <7>1. Len(chain) <= j /\ j <= Len(chain) /\ j \in Nat
              BY <2>2, <5>2, <6>1
            <7>2. Len(chain) \in Nat
              BY <1>3
            <7> QED BY <7>1, <7>2
          <6> QED BY <5>2, <6>1, <6>2
        <5>4. chain'[Len(chain)].seq = Last(chain).seq /\ row.seq = Last(chain).seq + 1
          BY <1>2, <1>3, <1>4, <2>7, <5>1, <5>2
        <5> QED BY <1>0, <3>1, <4>2, <5>3, <5>4 DEF InOrder
      <4> QED BY <4>1, <4>2
    <3>4. Last(chain').seq # NoSeq
      BY <1>0, <3>2 DEF Last
    <3> QED BY <2>3, <2>5, <2>7, <3>2, <3>3, <3>4, <1>1 DEF NumbersRun
  <2> QED BY <2>6, <2>7
<1> QED BY <1>1, <1>4, <1>5, <1>6, <1>7, <1>8 DEF ChainInv, ChainTypeOK, Untouched

LEMMA TearRowStep == ChainInv /\ TearRow => ChainInv'
<1> SUFFICES ASSUME ChainInv, TearRow PROVE ChainInv'
  OBVIOUS
<1>1. PICK r : r = [NextRow(0) EXCEPT !.whole = FALSE] /\ chain' = Append(chain, r)
  BY DEF TearRow
<1>2. r \in Row /\ ~r.whole
  <2>1. NextRow(0) \in Row
    BY NextRowFacts DEF ChainInv
  <2> QED BY <1>1, <2>1 DEF Row
<1>3. /\ UNCHANGED <<written, numbering, tampering>>
      /\ chainGhost'.torn /\ chainGhost'.resumed = chainGhost.resumed
      /\ chainGhost' \in [resumed : BOOLEAN, torn : BOOLEAN, restarted : BOOLEAN]
  BY DEF TearRow, ChainInv, ChainTypeOK
<1>4. chain' \in Seq(Row)
  BY <1>1, <1>2 DEF ChainInv, ChainTypeOK
<1>5. GoodRow' = GoodRow /\ r \in GoodRow
  BY <1>2, <1>3 DEF GoodRow
<1>6. ~chainGhost.resumed => chain' \in Seq(GoodRow)
  <2> HIDE DEF GoodRow
  <2> QED BY <1>1, <1>5 DEF ChainInv
<1> QED BY <1>3, <1>4, <1>5, <1>6 DEF ChainInv, ChainTypeOK, Untouched, Upto

LEMMA SwitchNumberingStep == ChainInv /\ SwitchNumbering => ChainInv'
<1> SUFFICES ASSUME ChainInv, SwitchNumbering PROVE ChainInv'
  OBVIOUS
<1>1. /\ UNCHANGED <<chain, written, tampering>> /\ numbering' = ~numbering
      /\ chainGhost' = [chainGhost EXCEPT
             !.restarted = @ \/ (~numbering /\ Numbered # {} /\ Last(chain).seq = NoSeq)]
  BY DEF SwitchNumbering
<1>2. /\ chainGhost'.torn = chainGhost.torn /\ chainGhost'.resumed = chainGhost.resumed
      /\ chainGhost' \in [resumed : BOOLEAN, torn : BOOLEAN, restarted : BOOLEAN]
      /\ ~chainGhost'.restarted => ~chainGhost.restarted
                                  /\ ~(~numbering /\ Numbered # {} /\ Last(chain).seq = NoSeq)
  BY <1>1 DEF ChainInv, ChainTypeOK
<1>3. ChainTypeOK'
  BY <1>1, <1>2 DEF ChainInv, ChainTypeOK
<1>4. GoodRow' = GoodRow /\ (\A k \in 1..Len(chain) : Linked(k)' <=> Linked(k))
  BY <1>1 DEF GoodRow, Linked
<1>5. Untouched /\ ~chainGhost'.restarted => NumbersRun'
  BY <1>1, <1>2 DEF ChainInv, NumbersRun, Numbered, InOrder
<1> QED BY <1>1, <1>2, <1>3, <1>4, <1>5 DEF ChainInv, Untouched, Upto

\* An edit only moves rows about, changes a body or a number, or takes rows
\* away: each row has the hash and the predecessor it had.
LEMMA EditedRows ==
    ASSUME NEW S, NEW s \in Seq(S), NEW k \in 1..Len(s)
    PROVE  /\ RemoveAt(s, k) \in Seq(S)
           /\ InsertAt(s, k, s[k]) \in Seq(S)
           /\ Front(s) \in Seq(S)
           /\ \A r \in S : [s EXCEPT ![k] = r] \in Seq(S)
           /\ k < Len(s) => [s EXCEPT ![k] = s[k + 1], ![k + 1] = s[k]] \in Seq(S)
<1>1. Len(s) \in Nat /\ k \in Nat /\ s[k] \in S
  BY SeqFacts
<1>2. /\ SubSeq(s, 1, k - 1) \in Seq(S) /\ SubSeq(s, k + 1, Len(s)) \in Seq(S)
      /\ SubSeq(s, k, Len(s)) \in Seq(S) /\ SubSeq(s, 1, Len(s) - 1) \in Seq(S)
      /\ <<s[k]>> \in Seq(S)
  BY <1>1
<1>3. \A r \in S : [s EXCEPT ![k] = r] \in Seq(S) /\ Len([s EXCEPT ![k] = r]) = Len(s)
  BY SeqUpdate
<1>4. ASSUME k < Len(s) PROVE [s EXCEPT ![k] = s[k + 1], ![k + 1] = s[k]] \in Seq(S)
  <2>1. k + 1 \in 1..Len(s) /\ s[k + 1] \in S
    BY <1>1, <1>4, SeqFacts
  <2>2. PICK t : t = [s EXCEPT ![k] = s[k + 1]]
    OBVIOUS
  <2>3. t \in Seq(S) /\ Len(t) = Len(s)
    BY <1>3, <2>1, <2>2
  <2>4. [t EXCEPT ![k + 1] = s[k]] \in Seq(S)
    BY <1>1, <2>1, <2>3, SeqUpdate
  <2> QED BY <2>2, <2>4
<1>5. RemoveAt(s, k) \in Seq(S) /\ InsertAt(s, k, s[k]) \in Seq(S) /\ Front(s) \in Seq(S)
  BY <1>2 DEF RemoveAt, InsertAt, Front
<1> QED BY <1>3, <1>4, <1>5

LEMMA EditStep == ChainInv /\ (Tamper \/ CutOff) => ChainInv'
<1> SUFFICES ASSUME ChainInv, Tamper \/ CutOff PROVE ChainInv'
  OBVIOUS
<1>1. UNCHANGED <<written, numbering, chainGhost>> /\ tampering' = tampering + 1 /\ chain # <<>>
  BY DEF Tamper, CutOff
<1>2. /\ chain \in Seq(Row) /\ DOMAIN chain = 1..Len(chain) /\ Len(chain) \in Nat /\ Len(chain) > 0
      /\ tampering' \in Nat /\ tampering' # 0
  BY <1>1, LastRow, SeqFacts DEF ChainInv, ChainTypeOK
<1>3. ASSUME NEW S, chain \in Seq(S), S \subseteq Row,
             \A r \in S : [r EXCEPT !.body = 0] \in S,
             \A r \in S : r.seq # NoSeq => [r EXCEPT !.seq = @ + 1] \in S
      PROVE  chain' \in Seq(S)
  <2>1. CASE CutOff
    <3>1. 1 \in 1..Len(chain)
      BY <1>2
    <3>2. Front(chain) \in Seq(S)
      BY <1>3, <3>1, EditedRows
    <3> QED BY <2>1, <3>2 DEF CutOff
  <2>2. CASE Tamper
    <3>1. PICK k \in 1..Len(chain) :
            \/ chain' = [chain EXCEPT ![k].body = 0]
            \/ k < Len(chain) /\ chain' = RemoveAt(chain, k)
            \/ chain' = InsertAt(chain, k, chain[k])
            \/ k < Len(chain) /\ chain' = [chain EXCEPT ![k] = chain[k + 1], ![k + 1] = chain[k]]
            \/ chain[k].seq # NoSeq /\ chain' = [chain EXCEPT ![k].seq = @ + 1]
      BY <1>2, <2>2 DEF Tamper
    <3>2. chain[k] \in S
      BY <1>3, SeqFacts
    <3>3. CASE chain' = [chain EXCEPT ![k].body = 0]
      <4>1. PICK r \in S : r = [chain[k] EXCEPT !.body = 0]
        BY <1>3, <3>2
      <4>2. chain' = [chain EXCEPT ![k] = r]
        BY <3>3, <4>1
      <4> QED BY <1>3, <4>2, EditedRows
    <3>4. CASE chain[k].seq # NoSeq /\ chain' = [chain EXCEPT ![k].seq = @ + 1]
      <4>1. PICK r \in S : r = [chain[k] EXCEPT !.seq = @ + 1]
        BY <1>3, <3>2, <3>4
      <4>2. chain' = [chain EXCEPT ![k] = r]
        BY <3>4, <4>1
      <4> QED BY <1>3, <4>2, EditedRows
    <3>5. /\ RemoveAt(chain, k) \in Seq(S) /\ InsertAt(chain, k, chain[k]) \in Seq(S)
          /\ k < Len(chain) =>
               [chain EXCEPT ![k] = chain[k + 1], ![k + 1] = chain[k]] \in Seq(S)
      BY <1>3, EditedRows
    <3> QED BY <3>1, <3>3, <3>4, <3>5
  <2> QED BY <2>1, <2>2
<1>4. ASSUME NEW r \in Row
      PROVE  /\ [r EXCEPT !.body = 0] \in Row
             /\ r.seq # NoSeq => [r EXCEPT !.seq = @ + 1] \in Row
  <2>1. [r EXCEPT !.body = 0] \in Row
    BY DEF Row
  <2>2. ASSUME r.seq # NoSeq PROVE [r EXCEPT !.seq = @ + 1] \in Row
    <3>1. PICK n \in Nat : n = r.seq + 1
      BY <2>2, RowFields DEF NoSeq
    <3>2. [r EXCEPT !.seq = n] \in Row
      BY DEF Row
    <3> QED BY <3>1, <3>2
  <2> QED BY <2>1, <2>2
<1>5. ASSUME NEW r \in GoodRow
      PROVE  /\ [r EXCEPT !.body = 0] \in GoodRow
             /\ r.seq # NoSeq => [r EXCEPT !.seq = @ + 1] \in GoodRow
  <2>1. ASSUME NEW q \in Row, q.whole = r.whole, q.prev = r.prev, q.hash = r.hash PROVE q \in GoodRow
    BY <2>1 DEF GoodRow
  <2>2. r \in Row
    BY DEF GoodRow
  <2>3. PICK q : q = [r EXCEPT !.body = 0]
    OBVIOUS
  <2>4. q \in GoodRow
    BY <2>1, <2>2, <2>3 DEF Row
  <2>5. ASSUME r.seq # NoSeq PROVE [r EXCEPT !.seq = @ + 1] \in GoodRow
    <3>1. PICK n \in Nat : n = r.seq + 1
      BY <2>2, <2>5, RowFields DEF NoSeq
    <3>2. PICK p : p = [r EXCEPT !.seq = n]
      OBVIOUS
    <3>3. p \in Row /\ p.whole = r.whole /\ p.prev = r.prev /\ p.hash = r.hash
      BY <2>2, <3>2 DEF Row
    <3>4. p \in GoodRow
      BY <2>1, <3>3
    <3> QED BY <3>1, <3>2, <3>4
  <2> QED BY <2>3, <2>4, <2>5
<1>6. chain' \in Seq(Row)
  BY <1>2, <1>3, <1>4
<1>7. ~chainGhost.resumed => chain' \in Seq(GoodRow)
  <2>1. GoodRow \subseteq Row
    BY DEF GoodRow
  <2> QED BY <1>3, <1>5, <2>1 DEF ChainInv
<1>8. GoodRow' = GoodRow
  BY <1>1 DEF GoodRow
<1> QED BY <1>1, <1>2, <1>6, <1>7, <1>8 DEF ChainInv, ChainTypeOK, Untouched, Upto

\* Link by link, a chain that verifies has the whole prefix at each place.
LEMMA VerifiedIsPrefix ==
    ASSUME ChainInv, verify_chain, ~chainGhost.resumed
    PROVE  IsPrefix(Bodies, written)
<1> DEFINE len == Len(chain)
           Stands(k) == k <= Len(written) /\ Upto(chain[k].hash, k) /\ chain[k].body = k
<1>1. /\ chain \in Seq(Row) /\ DOMAIN chain = 1..len /\ len \in Nat
      /\ chain \in Seq(GoodRow) /\ Len(written) \in Nat
  BY SeqFacts DEF ChainInv, ChainTypeOK, Upto
<1>2. \A k \in 1..len : Linked(k) /\ chain[k] \in GoodRow
  BY <1>1, SeqFacts DEF verify_chain
<1>3. ASSUME NEW k \in 1..len, k > 1 => Stands(k - 1) PROVE Stands(k)
  <2>1. /\ chain[k].whole /\ chain[k] \in GoodRow
        /\ chain[k].prev = IF k = 1 THEN <<>> ELSE chain[k - 1].hash
        /\ chain[k].hash = Append(chain[k].prev, chain[k].body)
    BY <1>2 DEF Linked, compute_entry_hash, GENESIS_PREV_HASH
  <2>2. PICK n \in 1..Len(written) : Upto(chain[k].prev, n - 1) /\ Upto(chain[k].hash, n)
    BY <2>1 DEF GoodRow
  <2>3. Len(chain[k].prev) = k - 1
    BY <1>3, <2>1 DEF Upto
  <2>4. n = k
    BY <2>2, <2>3 DEF Upto
  <2>5. chain[k].hash[k] = chain[k].body
    <3>1. chain[k].prev \in Seq(Nat) /\ chain[k].body \in Nat
      BY <2>1, <2>2 DEF Upto, GoodRow, Row
    <3> QED BY <2>1, <2>3, <3>1, SeqFacts
  <2>6. chain[k].hash[k] = k
    BY <2>2, <2>4 DEF Upto
  <2> QED BY <1>1, <2>2, <2>4, <2>5, <2>6
<1>4. \A k \in 1..len : Stands(k)
  <2> DEFINE T == {k \in 1..len : ~Stands(k)}
  <2> SUFFICES ASSUME T # {} PROVE FALSE
    OBVIOUS
  <2> HIDE DEF Stands
  <2>1. PICK k \in T : \A l \in T : k <= l
    <3>1. T \subseteq Nat
      BY <1>1
    <3> HIDE DEF T
    <3> QED BY <3>1, LeastOf
  <2>2. k > 1 => k - 1 \in 1..len /\ k - 1 \notin T
    BY <1>1, <2>1
  <2> QED BY <1>3, <2>1, <2>2
<1>5. /\ Len(Bodies) = len /\ len <= Len(written)
      /\ SubSeq(Bodies, 1, len) = SubSeq(written, 1, len)
  <2>1. Bodies \in Seq(Nat) /\ Len(Bodies) = len /\ \A k \in 1..len : Bodies[k] = k
    BY <1>1, <1>4 DEF Bodies
  <2>2. len <= Len(written)
    <3>1. CASE len = 0
      BY <1>1, <3>1
    <3>2. CASE len # 0
      BY <1>1, <1>4, <3>2
    <3> QED BY <3>1, <3>2
  <2>3. written \in Seq(Nat) /\ \A k \in 1..Len(written) : written[k] = k
    BY DEF ChainInv, Upto
  <2> QED BY <1>1, <2>1, <2>2, <2>3
<1> QED BY <1>5 DEF IsPrefix

\* The verdict on the chain is right, for ledgers of any length and any number
\* of edits, torn rows and changes of the gate.
THEOREM VerdictOnChain == Spec => []ChainVerdictIsRight
<1>1. Init => ChainInv
  BY ChainAssumption DEF Init, ChainInit, ChainInv, ChainTypeOK, Upto, Row, GoodRow, Untouched, NumbersRun,
     Numbered, Linked
<1>2. ChainInv /\ [Next]_vars => ChainInv'
  <2>1. [Next]_vars => ChainNext \/ UNCHANGED chainVars
    BY DEF Next, vars
  <2>2. ChainInv /\ UNCHANGED chainVars => ChainInv'
    <3> SUFFICES ASSUME ChainInv, UNCHANGED chainVars PROVE ChainInv'
      OBVIOUS
    <3>1. ChainTypeOK' /\ Upto(written, Len(written))'
      BY DEF chainVars, ChainInv, ChainTypeOK, Upto
    <3>2. (~chainGhost.resumed => chain \in Seq(GoodRow))'
      BY DEF chainVars, ChainInv, GoodRow
    <3>3. (Untouched => \A k \in 1..Len(chain) : Linked(k))'
      BY DEF chainVars, ChainInv, Untouched, Linked
    <3>4. (Untouched /\ ~chainGhost.restarted => NumbersRun)'
      BY DEF chainVars, ChainInv, Untouched, NumbersRun, Numbered, InOrder
    <3> QED BY <3>1, <3>2, <3>3, <3>4 DEF ChainInv
  <2> QED BY <2>1, <2>2, AppendEntryStep, TearRowStep, SwitchNumberingStep, EditStep DEF ChainNext
<1>3. ChainInv => ChainVerdictIsRight
  <2> SUFFICES ASSUME ChainInv PROVE ChainVerdictIsRight
    OBVIOUS
  <2>1. DOMAIN chain = 1..Len(chain)
    BY SeqFacts DEF ChainInv, ChainTypeOK
  <2>2. Untouched /\ ~chainGhost.restarted => verify_chain
    BY <2>1 DEF ChainInv, verify_chain, NumbersRun
  <2> QED BY <2>2, VerifiedIsPrefix DEF ChainVerdictIsRight
<1> QED BY <1>1, <1>2, <1>3, PTL DEF Spec

(***************************************************************************)
(* The archive of proposals                                                *)
(*                                                                         *)
(* The rows of a cycle are all of an earlier call or, of the call in       *)
(* progress, of a change before the one it is at, so that a body that is   *)
(* written is not one that a row leads to. While every line parses, the    *)
(* call's own rows, and the one that is about to be appended, are the last *)
(* of the file and add up to its counters; a call that returns leaves them *)
(* as they are, and so does every later one.                               *)
(***************************************************************************)
BodyNames == {BodyFile(c, s, x) : c \in Nat, s \in Nat, x \in Change}
Reasons == {"", "not_text", "sensitive_path", "over_count_cap", "write_error"}
Dispositions == {"unknown", "accepted", "blocked"}
Attributions == {"mapped", "dropped", "unmapped", "unknown"}
ArchiveRow ==
    [cycle : Nat, seq : Nat, change : Change, body : {NoBody} \cup BodyNames, omitted : Reasons,
     chars : Nat, truncated : BOOLEAN, disposition : Dispositions, attribution : Attributions]
RunRecord ==
    [pc : {"idle", "body", "row"}, cycle : Nat, batch : Seq(Change), verdict : {"none", "listed"},
     accepted : Accepted \cup {{}}, attributed : BOOLEAN, row : ArchiveRow \cup {Nobody},
     written : Nat, stored : Nat, cut : Nat, sensitive : Nat, over : Nat]
Summary ==
    [archived : BOOLEAN, written : Int, stored : Int, cut : Int, sensitive : Int, over : Int,
     batch : Seq(Change)]

\* A row leads to the body of its change, or says why there is none.
Leads(row, files) ==
    IF row.body = NoBody THEN row.omitted # "" /\ ~row.truncated
    ELSE /\ row.body = BodyFile(row.cycle, row.seq, row.change)
         /\ row.body \in DOMAIN files /\ files[row.body] = Body(row.change)
         /\ row.omitted = "" /\ row.chars = Body(row.change).chars
         /\ row.truncated = Body(row.change).marked

\* Where the rows of a cycle are in a sequence of rows, and how many of them
\* show something.
Among(rws, cycle) == {k \in DOMAIN rws : rws[k].cycle = cycle}
Amount(rws, cycle, what) == Cardinality({k \in Among(rws, cycle) : Shows(rws[k], what)})

\* They are the w after the first at, in the order of the batch, and add up.
Tallied(rws, cycle, batch, w, at, sums) ==
    /\ Among(rws, cycle) = at + 1..at + w
    /\ \A k \in at + 1..at + w : rws[k].seq = k - at /\ rws[k].change = batch[k - at]
    /\ Amount(rws, cycle, "stored") = sums.stored /\ Amount(rws, cycle, "cut") = sums.cut
    /\ Amount(rws, cycle, "sensitive_path") = sums.sensitive
    /\ Amount(rws, cycle, "over_count_cap") = sums.over
    /\ sums.stored <= MAX_BODIES_PER_CYCLE

ArchTypeOK ==
    /\ LedgerOK(index, ArchiveRow)
    /\ told \in Seq(Summary)
    /\ run \in RunRecord

ArchRunOK ==
    run.pc # "idle" =>
        /\ run.cycle = Len(told) + 1 /\ run.written < Len(run.batch)
        /\ run.stored <= MAX_BODIES_PER_CYCLE
        /\ run.pc = "row" =>
            /\ run.row \in ArchiveRow /\ Leads(run.row, bodies)
            /\ run.row.cycle = run.cycle /\ run.row.seq = run.written + 1

RowsLead ==
    \A k \in DOMAIN index.rows :
        LET row == index.rows[k] IN
        /\ Leads(row, bodies)
        /\ \/ row.cycle <= Len(told)
           \/ run.pc # "idle" /\ row.cycle = run.cycle /\ row.seq <= run.written

FilesOK == \A name \in DOMAIN bodies : name[3] \notin SensitivePath

\* The rows with the one that is about to be appended.
Coming == IF run.pc = "row" THEN Append(index.rows, run.row) ELSE index.rows
Came == IF run.pc = "row" THEN run.written + 1 ELSE run.written

RunTallied ==
    run.pc # "idle" /\ Parses(index) =>
        /\ Came <= Len(Coming)
        /\ Tallied(Coming, run.cycle, run.batch, Came, Len(Coming) - Came, run)

KeptTally(rws, summary, cycle) ==
    \E at \in Nat : Tallied(rws, cycle, summary.batch, Len(summary.batch), at, summary)

AllTallied ==
    \A cycle \in DOMAIN told : told[cycle].archived /\ Parses(index) => KeptTally(index.rows, told[cycle], cycle)

ArchiveInv == ArchTypeOK /\ ArchRunOK /\ RowsLead /\ FilesOK /\ RunTallied /\ AllTallied

LEMMA ArchiveAssumed ==
    /\ MAX_BODIES_PER_CYCLE \in Nat /\ MaxBodyChars \in Nat /\ MaxArchives \in Nat
    /\ \A c \in Change : Length[c] \in Nat
    /\ \A batch \in Batch : batch \in Seq(Change) /\ batch # <<>> /\ Len(batch) > 0
<1>1. /\ MAX_BODIES_PER_CYCLE \in Nat /\ MaxBodyChars \in Nat /\ MaxArchives \in Nat
      /\ \A c \in Change : Length[c] \in Nat
  BY ArchiveAssumption
<1>2. ASSUME NEW batch \in Batch PROVE batch \in Seq(Change) /\ batch # <<>> /\ Len(batch) > 0
  <2>1. batch \in Seq(Change) /\ batch # <<>> BY ArchiveAssumption
  <2>. QED BY <2>1
<1>. QED BY <1>1, <1>2

\* The name of a file tells the change it is for.
IsNameOf(name, c, s) ==
    /\ name # NoBody
    /\ \A d \in Nat, t \in Nat, y \in Change : name = BodyFile(d, t, y) => c = d /\ s = t

LEMMA NamesApart ==
    ASSUME NEW c \in Nat, NEW s \in Nat, NEW x \in Change
    PROVE  BodyFile(c, s, x) \in BodyNames /\ IsNameOf(BodyFile(c, s, x), c, s)
<1>1. BodyFile(c, s, x) \in BodyNames BY DEF BodyNames
<1>2. BodyFile(c, s, x) # NoBody
  <2>1. Len(BodyFile(c, s, x)) = 3 /\ Len(NoBody) = 0 BY DEF BodyFile, NoBody
  <2>. QED BY <2>1
<1>3. \A d \in Nat, t \in Nat, y \in Change : BodyFile(c, s, x) = BodyFile(d, t, y) => c = d /\ s = t
  BY DEF BodyFile
<1>. QED BY <1>1, <1>2, <1>3, Zenon DEF IsNameOf

LEMMA BodyType ==
    ASSUME NEW c \in Change
    PROVE  Body(c).chars \in Nat /\ Body(c).marked \in BOOLEAN /\ Body(c).of = c
BY ArchiveAssumed DEF Body

\* What the writing of a body does to the files.
IsPut(after, name, text) ==
    /\ DOMAIN after = DOMAIN bodies \cup {name} /\ after[name] = text
    /\ \A other \in DOMAIN bodies : other # name => after[other] = bodies[other]

LEMMA PutBody == ASSUME NEW name, NEW text PROVE IsPut(Put(name, text), name, text)
BY DEF Put, IsPut

\* One row more: the rows of its cycle, and what they show.
LEMMA AmongMore ==
    ASSUME NEW S, NEW rws \in Seq(S), NEW row \in S, NEW cycle
    PROVE  /\ row.cycle = cycle => Among(Append(rws, row), cycle) = Among(rws, cycle) \cup {Len(rws) + 1}
           /\ row.cycle # cycle => Among(Append(rws, row), cycle) = Among(rws, cycle)
           /\ Among(rws, cycle) \subseteq 1..Len(rws)
<1>1. PICK more \in Seq(S) : more = Append(rws, row) BY SeqFacts
<1>2. /\ DOMAIN more = 1..Len(rws) + 1 /\ DOMAIN rws = 1..Len(rws) /\ Len(rws) \in Nat
      /\ more[Len(rws) + 1] = row /\ \A k \in 1..Len(rws) : more[k] = rws[k]
  BY <1>1, SeqFacts
<1>3. \A k : k \in 1..Len(rws) + 1 <=> k \in 1..Len(rws) \/ k = Len(rws) + 1 BY <1>2
<1>4. Len(rws) + 1 \notin 1..Len(rws) BY <1>2
<1>. QED BY <1>1, <1>2, <1>3, <1>4 DEF Among

LEMMA AmountMore ==
    ASSUME NEW S, NEW rws \in Seq(S), NEW row \in S, NEW cycle, NEW what
    PROVE  /\ row.cycle = cycle =>
                Amount(Append(rws, row), cycle, what) =
                    Amount(rws, cycle, what) + (IF Shows(row, what) THEN 1 ELSE 0)
           /\ row.cycle # cycle => Amount(Append(rws, row), cycle, what) = Amount(rws, cycle, what)
           /\ Amount(rws, cycle, what) \in Nat
<1> DEFINE Those(r) == {k \in Among(r, cycle) : Shows(r[k], what)}
<1>1. PICK more \in Seq(S) : more = Append(rws, row) BY SeqFacts
<1>2. /\ Len(rws) \in Nat /\ more[Len(rws) + 1] = row /\ \A k \in 1..Len(rws) : more[k] = rws[k]
  BY <1>1, SeqFacts
<1>3. /\ row.cycle = cycle => Among(more, cycle) = Among(rws, cycle) \cup {Len(rws) + 1}
      /\ row.cycle # cycle => Among(more, cycle) = Among(rws, cycle)
      /\ Among(rws, cycle) \subseteq 1..Len(rws)
  <2>1. /\ row.cycle = cycle => Among(Append(rws, row), cycle) = Among(rws, cycle) \cup {Len(rws) + 1}
        /\ row.cycle # cycle => Among(Append(rws, row), cycle) = Among(rws, cycle)
        /\ Among(rws, cycle) \subseteq 1..Len(rws)
    BY AmongMore, Zenon
  <2>. QED BY <1>1, <2>1, Zenon
<1>4. \A k \in Among(rws, cycle) : more[k] = rws[k] BY <1>2, <1>3
<1>5. Those(rws) \subseteq 1..Len(rws) BY <1>3
<1>6. IsFiniteSet(Those(rws)) /\ Cardinality(Those(rws)) \in Nat
  <2>1. IsFiniteSet(1..Len(rws)) BY <1>2, FS_Interval
  <2>2. IsFiniteSet(Those(rws)) BY <1>5, <2>1, FS_Subset, Zenon
  <2>. QED BY <2>2, FS_CardinalityType, Zenon
<1>7. Len(rws) + 1 \notin Those(rws) BY <1>2, <1>5
<1>8. Amount(rws, cycle, what) \in Nat BY <1>6 DEF Amount, Those
<1> HIDE DEF Those
<1>9. CASE row.cycle # cycle
  <2>1. Those(more) = Those(rws) BY <1>3, <1>4, <1>9 DEF Those
  <2>2. Amount(more, cycle, what) = Amount(rws, cycle, what) BY <2>1 DEF Amount, Those
  <2>. QED BY <1>1, <1>9, <1>8, <2>2
<1>10. CASE row.cycle = cycle /\ Shows(row, what)
  <2>1. Those(more) = Those(rws) \cup {Len(rws) + 1} BY <1>2, <1>3, <1>4, <1>10 DEF Those
  <2>2. Cardinality(Those(rws) \cup {Len(rws) + 1}) = Cardinality(Those(rws)) + 1
    BY <1>6, <1>7, FS_AddElement
  <2>3. Amount(more, cycle, what) = Amount(rws, cycle, what) + 1 BY <2>1, <2>2 DEF Amount, Those
  <2>. QED BY <1>1, <1>10, <1>8, <2>3
<1>11. CASE row.cycle = cycle /\ ~Shows(row, what)
  <2>1. Those(more) = Those(rws) BY <1>2, <1>3, <1>4, <1>11 DEF Those
  <2>2. Amount(more, cycle, what) = Amount(rws, cycle, what) BY <2>1 DEF Amount, Those
  <2>. QED BY <1>1, <1>11, <1>8, <2>2
<1>. QED BY <1>9, <1>10, <1>11

LEMMA OwnRow ==
    ASSUME NEW S, NEW rws \in Seq(S), NEW row \in S
    PROVE  /\ Among(Append(rws, row), row.cycle) = Among(rws, row.cycle) \cup {Len(rws) + 1}
           /\ \A what : Amount(Append(rws, row), row.cycle, what) =
                           Amount(rws, row.cycle, what) + (IF Shows(row, what) THEN 1 ELSE 0)
<1>1. ASSUME NEW cycle, cycle = row.cycle
      PROVE  Among(Append(rws, row), cycle) = Among(rws, cycle) \cup {Len(rws) + 1}
  BY <1>1, AmongMore
<1>2. ASSUME NEW cycle, cycle = row.cycle, NEW what
      PROVE  Amount(Append(rws, row), cycle, what) =
                 Amount(rws, cycle, what) + (IF Shows(row, what) THEN 1 ELSE 0)
  BY <1>2, AmountMore
<1>. QED BY <1>1, <1>2

\* One row more, and what it shows counted.
Counts(row, sums, more) ==
    /\ more.stored = sums.stored + (IF row.body # NoBody THEN 1 ELSE 0)
    /\ more.cut = sums.cut + (IF row.truncated THEN 1 ELSE 0)
    /\ more.sensitive = sums.sensitive + (IF row.omitted = "sensitive_path" THEN 1 ELSE 0)
    /\ more.over = sums.over + (IF row.omitted = "over_count_cap" THEN 1 ELSE 0)

LEMMA TallyMore ==
    ASSUME NEW rws \in Seq(ArchiveRow), NEW row \in ArchiveRow, NEW batch, NEW w \in Nat,
           NEW sums, NEW more, w <= Len(rws),
           Tallied(rws, row.cycle, batch, w, Len(rws) - w, sums),
           row.seq = w + 1, row.change = batch[w + 1],
           Counts(row, sums, more), more.stored <= MAX_BODIES_PER_CYCLE
    PROVE  /\ w + 1 <= Len(Append(rws, row))
           /\ Tallied(Append(rws, row), row.cycle, batch, w + 1, Len(Append(rws, row)) - (w + 1), more)
<1>1. PICK then \in Seq(ArchiveRow) : then = Append(rws, row) BY SeqFacts
<1>2. /\ Len(rws) \in Nat /\ Len(then) = Len(rws) + 1 /\ then[Len(rws) + 1] = row
      /\ \A k \in 1..Len(rws) : then[k] = rws[k]
  BY <1>1, SeqFacts
<1>3. PICK at \in Nat : at = Len(rws) - w /\ at + w = Len(rws) /\ at + (w + 1) = Len(rws) + 1
  <2>1. /\ Len(rws) - w \in Nat /\ (Len(rws) - w) + w = Len(rws)
        /\ (Len(rws) - w) + (w + 1) = Len(rws) + 1
    BY <1>2
  <2>. QED BY <2>1, Zenon
<1>4. /\ Among(then, row.cycle) = Among(rws, row.cycle) \cup {Len(rws) + 1}
      /\ \A what : Amount(then, row.cycle, what) =
                      Amount(rws, row.cycle, what) + (IF Shows(row, what) THEN 1 ELSE 0)
  BY <1>1, OwnRow
<1>5. /\ Amount(then, row.cycle, "stored") =
           Amount(rws, row.cycle, "stored") + (IF row.body # NoBody THEN 1 ELSE 0)
       /\ Amount(then, row.cycle, "cut") =
            Amount(rws, row.cycle, "cut") + (IF row.truncated THEN 1 ELSE 0)
       /\ Amount(then, row.cycle, "sensitive_path") =
            Amount(rws, row.cycle, "sensitive_path") + (IF row.omitted = "sensitive_path" THEN 1 ELSE 0)
       /\ Amount(then, row.cycle, "over_count_cap") =
            Amount(rws, row.cycle, "over_count_cap") + (IF row.omitted = "over_count_cap" THEN 1 ELSE 0)
  BY <1>4 DEF Shows
<1>6. /\ Amount(then, row.cycle, "stored") = more.stored /\ Amount(then, row.cycle, "cut") = more.cut
      /\ Amount(then, row.cycle, "sensitive_path") = more.sensitive
      /\ Amount(then, row.cycle, "over_count_cap") = more.over
  <2>1. /\ Amount(rws, row.cycle, "stored") = sums.stored /\ Amount(rws, row.cycle, "cut") = sums.cut
        /\ Amount(rws, row.cycle, "sensitive_path") = sums.sensitive
        /\ Amount(rws, row.cycle, "over_count_cap") = sums.over
    BY DEF Tallied
  <2>. QED BY <1>5, <2>1 DEF Counts
<1>7. Among(rws, row.cycle) = at + 1..at + w /\ \A k \in at + 1..at + w : rws[k].seq = k - at /\ rws[k].change = batch[k - at]
  BY <1>3 DEF Tallied
<1>8. Among(then, row.cycle) = at + 1..at + (w + 1) BY <1>3, <1>4, <1>7
<1>9. ASSUME NEW k \in at + 1..at + (w + 1) PROVE then[k].seq = k - at /\ then[k].change = batch[k - at]
  <2>1. CASE k = Len(rws) + 1
    <3>1. k - at = w + 1 BY <1>3, <2>1
    <3>. QED BY <1>2, <2>1, <3>1
  <2>2. CASE k \in at + 1..at + w
    <3>1. k \in 1..Len(rws) BY <1>3, <2>2
    <3>. QED BY <1>2, <1>7, <2>2, <3>1
  <2>. QED BY <1>3, <2>1, <2>2
<1>10. Tallied(then, row.cycle, batch, w + 1, at, more) BY <1>6, <1>8, <1>9, Zenon DEF Tallied
<1>11. w + 1 <= Len(then) /\ Len(then) - (w + 1) = at BY <1>2, <1>3
<1>. QED BY <1>1, <1>10, <1>11

\* A row of another cycle does not change the account of this one.
LEMMA TallyOther ==
    ASSUME NEW rws \in Seq(ArchiveRow), NEW row \in ArchiveRow, NEW summary, NEW cycle,
           row.cycle # cycle, KeptTally(rws, summary, cycle), summary.batch \in Seq(Change)
    PROVE  KeptTally(Append(rws, row), summary, cycle)
<1>1. PICK then \in Seq(ArchiveRow) : then = Append(rws, row) BY SeqFacts
<1>2. \A k \in 1..Len(rws) : then[k] = rws[k] BY <1>1, SeqFacts
<1>3. PICK w : w = Len(summary.batch) OBVIOUS
<1>4. PICK at \in Nat : Tallied(rws, cycle, summary.batch, w, at, summary) BY <1>3 DEF KeptTally
<1>5. Among(then, cycle) = Among(rws, cycle) /\ Among(rws, cycle) \subseteq 1..Len(rws)
  <2>1. /\ row.cycle = cycle => Among(Append(rws, row), cycle) = Among(rws, cycle) \cup {Len(rws) + 1}
        /\ row.cycle # cycle => Among(Append(rws, row), cycle) = Among(rws, cycle)
        /\ Among(rws, cycle) \subseteq 1..Len(rws)
    BY AmongMore, Zenon
  <2>. QED BY <1>1, <2>1
<1>6. \A what : Amount(then, cycle, what) = Amount(rws, cycle, what)
  <2>1. \A what :
          /\ row.cycle = cycle =>
               Amount(Append(rws, row), cycle, what) =
                   Amount(rws, cycle, what) + (IF Shows(row, what) THEN 1 ELSE 0)
          /\ row.cycle # cycle => Amount(Append(rws, row), cycle, what) = Amount(rws, cycle, what)
          /\ Amount(rws, cycle, what) \in Nat
    BY AmountMore, Zenon
  <2>. QED BY <1>1, <2>1
<1>7. \A k \in at + 1..at + w : then[k] = rws[k] BY <1>2, <1>4, <1>5 DEF Tallied
<1>8. Tallied(then, cycle, summary.batch, w, at, summary) BY <1>4, <1>5, <1>6, <1>7, Zenon DEF Tallied
<1>. QED BY <1>1, <1>3, <1>8 DEF KeptTally

\* What an append, whatever became of it, leaves of the rows.
Carried(k) ==
    /\ LedgerOK(k, ArchiveRow)
    /\ \A j \in DOMAIN k.rows :
         Leads(k.rows[j], bodies) /\ (k.rows[j].cycle <= Len(told) \/ k.rows[j].cycle = run.cycle)
    /\ Parses(k) =>
         \A c \in DOMAIN told : told[c].archived => KeptTally(k.rows, told[c], c)

LEMMA IndexCarried == ASSUME ArchiveInv PROVE Carried(index)
BY DEF ArchiveInv, ArchTypeOK, RowsLead, AllTallied, Carried

LEMMA ToldFacts ==
    ASSUME ArchiveInv
    PROVE  /\ Len(told) \in Nat /\ DOMAIN told = 1..Len(told) /\ \A c \in DOMAIN told : told[c] \in Summary
           /\ index.rows \in Seq(ArchiveRow) /\ DOMAIN index.rows = 1..Len(index.rows)
           /\ Len(index.rows) \in Nat
BY SeqFacts DEF ArchiveInv, ArchTypeOK, LedgerOK, LedgerRecord

LEMMA AppendCarries ==
    ASSUME ArchiveInv, run.pc = "row", NEW k \in Failed(index, run.row)
    PROVE  /\ Carried(k)
           /\ \A j \in DOMAIN k.rows :
                k.rows[j].cycle = run.cycle => k.rows[j].seq <= run.written + 1
           /\ Parses(k) /\ k = Written(index, run.row) =>
                Parses(index) /\ k.rows = Append(index.rows, run.row)
<1>1. /\ run.row \in ArchiveRow /\ Leads(run.row, bodies) /\ run.row.cycle = run.cycle
      /\ run.row.seq = run.written + 1 /\ run.cycle = Len(told) + 1 /\ run.written \in Nat
  BY DEF ArchiveInv, ArchRunOK, ArchTypeOK, RunRecord
<1>2. LedgerOK(index, ArchiveRow) BY DEF ArchiveInv, ArchTypeOK
<1>3. LedgerOK(k, ArchiveRow) BY <1>1, <1>2, Appends
<1>4. \A r \in Range(k.rows) : r = run.row \/ r \in Range(index.rows) BY <1>1, <1>2, AppendedRows
<1>5. /\ Len(told) \in Nat /\ DOMAIN told = 1..Len(told) /\ \A c \in DOMAIN told : told[c] \in Summary
      /\ index.rows \in Seq(ArchiveRow)
  BY ToldFacts
<1>6. \A j \in DOMAIN index.rows :
        /\ Leads(index.rows[j], bodies) /\ index.rows[j] \in ArchiveRow
        /\ index.rows[j].cycle <= Len(told) \/ (index.rows[j].cycle = run.cycle /\ index.rows[j].seq <= run.written)
  BY <1>5, SeqFacts DEF ArchiveInv, RowsLead
<1>7. ASSUME NEW j \in DOMAIN k.rows
      PROVE  /\ Leads(k.rows[j], bodies)
             /\ k.rows[j].cycle <= Len(told) \/ k.rows[j].cycle = run.cycle
             /\ k.rows[j].cycle = run.cycle => k.rows[j].seq <= run.written + 1
  <2>1. k.rows[j] \in Range(k.rows) BY DEF Range
  <2>2. k.rows[j] = run.row \/ \E m \in DOMAIN index.rows : k.rows[j] = index.rows[m]
    BY <1>4, <2>1 DEF Range
  <2>3. ASSUME NEW m \in DOMAIN index.rows, k.rows[j] = index.rows[m]
        PROVE  /\ Leads(k.rows[j], bodies)
               /\ k.rows[j].cycle <= Len(told) \/ k.rows[j].cycle = run.cycle
               /\ k.rows[j].cycle = run.cycle => k.rows[j].seq <= run.written + 1
    <3>1. index.rows[m].cycle \in Nat /\ index.rows[m].seq \in Nat BY <1>6 DEF ArchiveRow
    <3>. QED BY <1>1, <1>5, <1>6, <2>3, <3>1
  <2>. QED BY <1>1, <2>2, <2>3
<1>8. ASSUME Parses(k)
      PROVE  /\ Parses(index) /\ (k.rows = index.rows \/ k.rows = Append(index.rows, run.row))
             /\ k = Written(index, run.row) => k.rows = Append(index.rows, run.row)
  BY <1>1, <1>2, <1>8, ParsedAppend
<1>9. ASSUME Parses(k), NEW c \in DOMAIN told, told[c].archived PROVE KeptTally(k.rows, told[c], c)
  <2>1. KeptTally(index.rows, told[c], c) BY <1>8, <1>9 DEF ArchiveInv, AllTallied
  <2>2. run.row.cycle # c /\ told[c].batch \in Seq(Change) BY <1>1, <1>5 DEF Summary
  <2>3. KeptTally(Append(index.rows, run.row), told[c], c) BY <1>1, <1>5, <2>1, <2>2, TallyOther
  <2>. QED BY <1>8, <1>9, <2>1, <2>3
<1>. QED BY <1>3, <1>7, <1>8, <1>9 DEF Carried

LEMMA RunTypes ==
    ASSUME NEW at \in {"idle", "body", "row"}, NEW c \in Nat, NEW batch \in Seq(Change),
           NEW verdict \in {"none", "listed"}, NEW accepted \in Accepted \cup {{}}, NEW attributed \in BOOLEAN,
           NEW row \in ArchiveRow \cup {Nobody}, NEW w \in Nat, NEW stored \in Nat,
           NEW cut \in Nat, NEW sensitive \in Nat, NEW over \in Nat
    PROVE  [pc |-> at, cycle |-> c, batch |-> batch, verdict |-> verdict, accepted |-> accepted,
            attributed |-> attributed, row |-> row, written |-> w, stored |-> stored, cut |-> cut,
            sensitive |-> sensitive, over |-> over] \in RunRecord
BY DEF RunRecord

LEMMA NoRunOK == NoRun \in RunRecord /\ NoRun.pc = "idle"
<1>1. <<>> \in Seq(Change) /\ "idle" \in {"idle", "body", "row"} /\ "none" \in {"none", "listed"} /\ 0 \in Nat
  OBVIOUS
<1>2. {} \in Accepted \cup {{}} BY Zenon
<1>3. FALSE \in BOOLEAN /\ Nobody \in ArchiveRow \cup {Nobody} OBVIOUS
<1>4. NoRun \in RunRecord BY <1>1, <1>2, <1>3, RunTypes, Zenon DEF NoRun
<1>. QED BY <1>4 DEF NoRun

LEMMA ArchiveInitOK == ArchiveInit => ArchiveInv
<1> SUFFICES ASSUME ArchiveInit PROVE ArchiveInv
  OBVIOUS
<1>1. index = NewLedger /\ bodies = <<>> /\ run = NoRun /\ told = <<>> BY DEF ArchiveInit
<1>2. LedgerOK(index, ArchiveRow) /\ index.rows = <<>> BY <1>1, NewLedgerOK
<1>3. run \in RunRecord /\ run.pc = "idle" BY <1>1, NoRunOK
<1>4. told \in Seq(Summary) /\ DOMAIN told = {} BY <1>1
<1>5. DOMAIN index.rows = {} BY <1>2
<1>6. DOMAIN bodies = {} BY <1>1
<1>. QED BY <1>2, <1>3, <1>4, <1>5, <1>6
         DEF ArchiveInv, ArchTypeOK, ArchRunOK, RowsLead, FilesOK, RunTallied, AllTallied

LEMMA SummariesOK == Unmeasured \in Summary /\ Nothing \in Summary /\ ~Unmeasured.archived /\ ~Nothing.archived
BY DEF Unmeasured, Nothing, Summary

\* The call returns: what it says is so, and what earlier ones said still is.
LEMMA TellStep ==
    ASSUME ArchiveInv, run.pc = "idle" \/ run.cycle = Len(told) + 1, Carried(index'),
           run.pc = "idle" => index' = index,
           NEW summary \in Summary, Tell(summary), UNCHANGED bodies,
           summary.archived /\ Parses(index') => KeptTally(index'.rows, summary, Len(told) + 1)
    PROVE  ArchiveInv'
<1>1. told' = Append(told, summary) /\ run' = NoRun BY DEF Tell
<1>2. Len(told) \in Nat /\ DOMAIN told = 1..Len(told) /\ told \in Seq(Summary) BY ToldFacts DEF ArchiveInv, ArchTypeOK
<1>3. /\ told' \in Seq(Summary) /\ Len(told') = Len(told) + 1 /\ DOMAIN told' = 1..Len(told) + 1
      /\ told'[Len(told) + 1] = summary /\ \A c \in 1..Len(told) : told'[c] = told[c]
  BY <1>1, <1>2, SeqFacts
<1>4. run' \in RunRecord /\ run'.pc = "idle" BY <1>1, NoRunOK
<1>5. LedgerOK(index', ArchiveRow) /\ index'.rows \in Seq(ArchiveRow) BY DEF Carried, LedgerOK, LedgerRecord
<1>6. ASSUME NEW j \in DOMAIN index'.rows
      PROVE  Leads(index'.rows[j], bodies) /\ index'.rows[j].cycle <= Len(told) + 1
  <2>1. /\ Leads(index'.rows[j], bodies)
        /\ index'.rows[j].cycle <= Len(told) \/ index'.rows[j].cycle = run.cycle
    BY DEF Carried
  <2>2. index'.rows[j].cycle \in Nat
    <3>1. index'.rows[j] \in ArchiveRow BY <1>5
    <3>. QED BY <3>1 DEF ArchiveRow
  <2>3. CASE run.pc = "idle"
    <3>1. index'.rows[j].cycle <= Len(told) BY <2>3 DEF ArchiveInv, RowsLead
    <3>. QED BY <1>2, <2>1, <2>2, <3>1
  <2>4. CASE run.cycle = Len(told) + 1 BY <1>2, <2>1, <2>2, <2>4
  <2>. QED BY <2>3, <2>4
<1>7. ASSUME NEW c \in DOMAIN told', told'[c].archived, Parses(index') PROVE KeptTally(index'.rows, told'[c], c)
  <2>1. CASE c = Len(told) + 1 BY <1>3, <1>7, <2>1
  <2>2. CASE c \in 1..Len(told) BY <1>2, <1>3, <1>7, <2>2 DEF Carried
  <2>. QED BY <1>2, <1>3, <2>1, <2>2
<1>8. ArchTypeOK' BY <1>3, <1>4, <1>5 DEF ArchTypeOK
<1>9. ArchRunOK' /\ RunTallied' BY <1>4 DEF ArchRunOK, RunTallied
<1>10. RowsLead'
  <2>1. bodies' = bodies OBVIOUS
  <2>. QED BY <1>3, <1>6, <2>1 DEF RowsLead, Leads
<1>11. FilesOK' BY DEF FilesOK, ArchiveInv
<1>12. AllTallied' BY <1>7 DEF AllTallied
<1>. QED BY <1>8, <1>9, <1>10, <1>11, <1>12 DEF ArchiveInv

\* A call begins.
LEMMA BeginArchive ==
    ASSUME ArchiveInv, run.pc = "idle", UNCHANGED <<index, bodies, told>>, NEW batch \in Batch,
           run' \in RunRecord, run'.pc = "body", run'.cycle = Len(told) + 1, run'.batch = batch,
           run'.written = 0, run'.stored = 0, run'.cut = 0, run'.sensitive = 0, run'.over = 0
    PROVE  ArchiveInv'
<1>1. /\ Len(told) \in Nat /\ index.rows \in Seq(ArchiveRow) /\ DOMAIN index.rows = 1..Len(index.rows)
      /\ Len(index.rows) \in Nat
  BY ToldFacts
<1>2. index' = index /\ bodies' = bodies /\ told' = told OBVIOUS
<1>3. ArchTypeOK' BY <1>2 DEF ArchiveInv, ArchTypeOK
<1>4. ArchRunOK' BY <1>2, ArchiveAssumed DEF ArchRunOK
<1>5. FilesOK' /\ AllTallied' BY <1>2 DEF ArchiveInv, FilesOK, AllTallied
<1>6. \A k \in DOMAIN index.rows : Leads(index.rows[k], bodies) /\ index.rows[k].cycle <= Len(told)
  BY DEF ArchiveInv, RowsLead
<1>7. RowsLead' BY <1>2, <1>6 DEF RowsLead, Leads
<1>8. RunTallied'
  <2>1. Coming' = index.rows /\ Came' = 0 BY <1>2 DEF Coming, Came
  <2>2. Among(index.rows, Len(told) + 1) = {}
    <3>1. \A k \in DOMAIN index.rows : index.rows[k].cycle # Len(told) + 1
      <4>1. \A k \in DOMAIN index.rows : index.rows[k].cycle \in Nat
          <5>1. \A k \in DOMAIN index.rows : index.rows[k] \in ArchiveRow BY <1>1, SeqFacts
          <5>. QED BY <5>1 DEF ArchiveRow
      <4>. QED BY <1>1, <1>6, <4>1
    <3>. QED BY <3>1 DEF Among
  <2>3. \A what : Amount(index.rows, Len(told) + 1, what) = 0
    <3>1. \A what : {k \in Among(index.rows, Len(told) + 1) : Shows(index.rows[k], what)} = {} BY <2>2
    <3>2. Cardinality({}) = 0 BY FS_EmptySet
    <3>. QED BY <3>1, <3>2 DEF Amount
  <2>4. Len(index.rows) - 0 = Len(index.rows) /\ Len(index.rows) + 1..Len(index.rows) + 0 = {} BY <1>1
  <2>5. Tallied(index.rows, Len(told) + 1, batch, 0, Len(index.rows) - 0, run')
    <3>1. run'.stored <= MAX_BODIES_PER_CYCLE BY ArchiveAssumed
    <3>. QED BY <2>2, <2>3, <2>4, <3>1, Zenon DEF Tallied
  <2>6. 0 <= Len(index.rows) BY <1>1
  <2>. QED BY <1>2, <2>1, <2>5, <2>6 DEF RunTallied
<1>. QED BY <1>3, <1>4, <1>5, <1>7, <1>8 DEF ArchiveInv

LEMMA ArchiveCallStep == ArchiveInv /\ Archive => ArchiveInv'
<1> SUFFICES ASSUME ArchiveInv, Archive PROVE ArchiveInv'
  OBVIOUS
<1>1. run.pc = "idle" /\ UNCHANGED <<index, bodies>> BY DEF Archive
<1>2. ASSUME NEW summary \in {Unmeasured, Nothing}, Tell(summary) PROVE ArchiveInv'
  <2>1. Carried(index') /\ index' = index /\ bodies' = bodies
    <3>1. index' = index /\ bodies' = bodies BY <1>1
    <3>. QED BY <3>1, IndexCarried
  <2>2. summary \in Summary /\ ~summary.archived BY SummariesOK
  <2>. QED BY <1>1, <1>2, <2>1, <2>2, TellStep
<1>3. ASSUME NEW batch \in Batch, NEW verdict \in {"none", "listed"}, NEW accepted \in Accepted,
             NEW attributed \in BOOLEAN,
             run' = [NoRun EXCEPT !.pc = "body", !.cycle = Len(told) + 1, !.batch = batch,
                         !.verdict = verdict, !.accepted = accepted, !.attributed = attributed],
             UNCHANGED told
      PROVE  ArchiveInv'
  <2>1. run' = [pc |-> "body", cycle |-> Len(told) + 1, batch |-> batch, verdict |-> verdict,
                accepted |-> accepted, attributed |-> attributed, row |-> Nobody, written |-> 0,
                stored |-> 0, cut |-> 0, sensitive |-> 0, over |-> 0]
    BY <1>3 DEF NoRun
  <2>2. Len(told) + 1 \in Nat /\ batch \in Seq(Change) BY ToldFacts, ArchiveAssumed
  <2>3. run' \in RunRecord
    <3>1. "body" \in {"idle", "body", "row"} /\ verdict \in {"none", "listed"} /\ 0 \in Nat OBVIOUS
    <3>2. accepted \in Accepted \cup {{}} /\ Nobody \in ArchiveRow \cup {Nobody} BY Zenon
    <3>3. /\ Len(told) + 1 \in Nat /\ batch \in Seq(Change) /\ attributed \in BOOLEAN
          /\ verdict \in {"none", "listed"} /\ accepted \in Accepted \cup {{}}
      BY <2>2, <3>2
    <3>. QED BY ONLY <2>1, <3>1, <3>2, <3>3, RunTypes, Zenon
  <2>4. /\ run'.pc = "body" /\ run'.cycle = Len(told) + 1 /\ run'.batch = batch /\ run'.written = 0
        /\ run'.stored = 0 /\ run'.cut = 0 /\ run'.sensitive = 0 /\ run'.over = 0
    BY <2>1
  <2>5. UNCHANGED <<index, bodies, told>> BY <1>1, <1>3
  <2>. QED BY <1>1, <2>3, <2>4, <2>5, BeginArchive
<1>. QED BY <1>2, <1>3 DEF Archive

LEMMA EntryFacts ==
    ASSUME ArchiveInv, run.pc # "idle", NEW c \in Change, NEW s \in Nat,
           NEW body \in {NoBody, BodyFile(run.cycle, s, c)}, NEW reason \in Reasons
    PROVE  LET row == IndexEntry(s, c, body, reason) IN
           /\ row \in ArchiveRow /\ row.cycle = run.cycle /\ row.seq = s /\ row.change = c
           /\ row.body = body /\ row.omitted = reason
           /\ row.chars = (IF body = NoBody THEN 0 ELSE Body(c).chars)
           /\ row.truncated = (body # NoBody /\ Body(c).marked)
<1>1. Disposition(c) \in Dispositions BY DEF Disposition, Dispositions
<1>2. Attribution(c) \in Attributions BY DEF Attribution, Attributions
<1>3. run.cycle \in Nat BY DEF ArchiveInv, ArchTypeOK, RunRecord
<1>4. body \in {NoBody} \cup BodyNames BY <1>3, NamesApart
<1>5. PICK chars \in Nat, truncated \in BOOLEAN :
        /\ chars = (IF body = NoBody THEN 0 ELSE Body(c).chars)
        /\ truncated = (body # NoBody /\ Body(c).marked)
  <2>1. (IF body = NoBody THEN 0 ELSE Body(c).chars) \in Nat BY BodyType
  <2>2. (body # NoBody /\ Body(c).marked) \in BOOLEAN OBVIOUS
  <2>. QED BY <2>1, <2>2, Zenon
<1>6. PICK disposition \in Dispositions, attribution \in Attributions :
        disposition = Disposition(c) /\ attribution = Attribution(c)
  BY <1>1, <1>2
<1>7. IndexEntry(s, c, body, reason) =
        [cycle |-> run.cycle, seq |-> s, change |-> c, body |-> body, omitted |-> reason,
         chars |-> chars, truncated |-> truncated, disposition |-> disposition,
         attribution |-> attribution]
  BY <1>5, <1>6, Zenon DEF IndexEntry
<1>. QED BY <1>3, <1>4, <1>5, <1>7 DEF ArchiveRow

\* The row of a change is made ready, its body written or not: no row leads to
\* the file that the write may have replaced.
LEMMA ReadyStep ==
    ASSUME ArchiveInv, run.pc = "body", UNCHANGED <<index, told>>, NEW c \in Change,
           c = run.batch[run.written + 1], NEW row \in ArchiveRow, row.cycle = run.cycle,
           row.seq = run.written + 1, row.change = c, run' \in RunRecord, run'.pc = "row",
           run'.row = row, run'.cycle = run.cycle, run'.batch = run.batch,
           run'.written = run.written, run'.stored <= MAX_BODIES_PER_CYCLE,
           Counts(row, run, run'), Leads(row, bodies'),
           \/ bodies' = bodies
           \/ ~Sensitive(c) /\ bodies' = Put(BodyFile(run.cycle, run.written + 1, c), Body(c))
    PROVE  ArchiveInv'
<1> DEFINE name == BodyFile(run.cycle, run.written + 1, c)
<1>1. /\ run.cycle = Len(told) + 1 /\ run.written < Len(run.batch) /\ run.cycle \in Nat
      /\ run.written \in Nat /\ run.written + 1 \in Nat
  BY DEF ArchiveInv, ArchTypeOK, ArchRunOK, RunRecord
<1>2. /\ Len(told) \in Nat /\ index.rows \in Seq(ArchiveRow) /\ DOMAIN index.rows = 1..Len(index.rows)
      /\ Len(index.rows) \in Nat
  BY ToldFacts
<1>3. index' = index /\ told' = told OBVIOUS
<1>4. ArchTypeOK' BY <1>3 DEF ArchiveInv, ArchTypeOK
<1>5. ArchRunOK' BY <1>1, <1>3 DEF ArchRunOK
<1>6. /\ name # NoBody /\ name[3] = PathOf[c]
      /\ \A d \in Nat, t \in Nat, y \in Change : name = BodyFile(d, t, y) => run.cycle = d /\ run.written + 1 = t
  <2>1. name[3] = PathOf[c] BY DEF BodyFile
  <2>2. IsNameOf(name, run.cycle, run.written + 1) BY <1>1, NamesApart
  <2>. QED BY <2>1, <2>2, Zenon DEF IsNameOf
<1> HIDE DEF name
<1>7. /\ \A other \in DOMAIN bodies : other # name => other \in DOMAIN bodies' /\ bodies'[other] = bodies[other]
      /\ \A other \in DOMAIN bodies' : other \in DOMAIN bodies \/ (other = name /\ ~Sensitive(c))
  <2>1. CASE bodies' = bodies BY <2>1
  <2>2. CASE ~Sensitive(c) /\ bodies' = Put(name, Body(c))
    <3>1. IsPut(bodies', name, Body(c)) BY <2>2, PutBody
    <3>. QED BY <2>2, <3>1 DEF IsPut
  <2>. QED BY <2>1, <2>2 DEF name
<1>8. FilesOK' BY <1>6, <1>7 DEF ArchiveInv, FilesOK, Sensitive
<1>9. RowsLead'
  <2> SUFFICES ASSUME NEW k \in DOMAIN index.rows
               PROVE  /\ Leads(index.rows[k], bodies')
                      /\ index.rows[k].cycle <= Len(told)
                         \/ (index.rows[k].cycle = run.cycle /\ index.rows[k].seq <= run.written)
    <3>1. run'.pc # "idle" /\ run'.cycle = run.cycle /\ run'.written = run.written OBVIOUS
    <3>. QED BY <1>3, <3>1 DEF RowsLead
  <2>2. /\ Leads(index.rows[k], bodies)
        /\ index.rows[k].cycle <= Len(told)
           \/ (index.rows[k].cycle = run.cycle /\ index.rows[k].seq <= run.written)
    BY DEF ArchiveInv, RowsLead
  <2>3. index.rows[k] \in ArchiveRow BY <1>2, SeqFacts
  <2>4. index.rows[k].cycle \in Nat /\ index.rows[k].seq \in Nat /\ index.rows[k].change \in Change
    BY <2>3 DEF ArchiveRow
  <2>5. ~(index.rows[k].cycle = run.cycle /\ index.rows[k].seq = run.written + 1) BY <1>1, <1>2, <2>2, <2>4
  <2>6. index.rows[k].body # NoBody => index.rows[k].body # name BY <1>6, <2>2, <2>4, <2>5 DEF Leads
  <2>7. Leads(index.rows[k], bodies') BY <1>7, <2>2, <2>6 DEF Leads
  <2>. QED BY <2>2, <2>7
<1>10. RunTallied'
  <2>1. Coming' = Append(index.rows, row) /\ Came' = run.written + 1 BY <1>3 DEF Coming, Came
  <2>2. ASSUME Parses(index)
        PROVE  /\ run.written <= Len(index.rows)
               /\ Tallied(index.rows, run.cycle, run.batch, run.written, Len(index.rows) - run.written, run)
    BY <2>2 DEF ArchiveInv, RunTallied, Coming, Came
  <2>3. ASSUME Parses(index)
        PROVE  /\ run.written + 1 <= Len(Append(index.rows, row))
               /\ Tallied(Append(index.rows, row), row.cycle, run.batch, run.written + 1,
                          Len(Append(index.rows, row)) - (run.written + 1), run')
    BY <1>1, <1>2, <2>2, <2>3, TallyMore
  <2>. QED BY <1>3, <2>1, <2>3 DEF RunTallied
<1>11. AllTallied' BY <1>3 DEF ArchiveInv, AllTallied
<1>. QED BY <1>4, <1>5, <1>8, <1>9, <1>10, <1>11 DEF ArchiveInv

LEMMA StoreBodyStep == ArchiveInv /\ StoreBody => ArchiveInv'
<1> SUFFICES ASSUME ArchiveInv, StoreBody PROVE ArchiveInv'
  OBVIOUS
<1>1. run.pc = "body" /\ UNCHANGED <<index, told>> BY DEF StoreBody
<1>2. PICK c, s, reason, name :
        /\ s = run.written + 1 /\ c = run.batch[s] /\ reason = Omitted(c) /\ name = BodyFile(run.cycle, s, c)
  OBVIOUS
<1>3. run \in RunRecord /\ run.written < Len(run.batch) /\ run.stored <= MAX_BODIES_PER_CYCLE
  BY <1>1 DEF ArchiveInv, ArchTypeOK, ArchRunOK
<1>4. /\ run.batch \in Seq(Change) /\ run.written \in Nat /\ run.stored \in Nat /\ run.cut \in Nat
      /\ run.sensitive \in Nat /\ run.over \in Nat /\ run.cycle \in Nat
  BY <1>3 DEF RunRecord
<1>5. c \in Change /\ s \in Nat
  <2>1. run.written + 1 \in 1..Len(run.batch) BY <1>3, <1>4
  <2>. QED BY <1>2, <1>4, <2>1
<1>6. /\ reason \in {"", "not_text", "sensitive_path", "over_count_cap"}
      /\ reason = "" => ~Sensitive(c) /\ run.stored < MAX_BODIES_PER_CYCLE
  <2>1. CASE c \in NotText BY <1>2, <2>1 DEF Omitted
  <2>2. CASE c \notin NotText /\ Sensitive(c) BY <1>2, <2>2, Zenon DEF Omitted
  <2>3. CASE c \notin NotText /\ ~Sensitive(c) /\ run.stored >= MAX_BODIES_PER_CYCLE
    <3>1. reason = "over_count_cap" BY <1>2, <2>3, Zenon DEF Omitted
    <3>. QED BY <3>1
  <2>4. CASE c \notin NotText /\ ~Sensitive(c) /\ ~(run.stored >= MAX_BODIES_PER_CYCLE)
    <3>1. reason = "" BY <1>2, <2>4, Zenon DEF Omitted
    <3>2. run.stored < MAX_BODIES_PER_CYCLE BY <1>4, <2>4, ArchiveAssumed
    <3>. QED BY <2>4, <3>1, <3>2
  <2>. QED BY <2>1, <2>2, <2>3, <2>4
<1>7. name # NoBody BY <1>2, <1>4, <1>5, NamesApart DEF IsNameOf
<1>8. Body(c).chars \in Nat /\ Body(c).marked \in BOOLEAN BY <1>5, BodyType
<1>9. ASSUME NEW reached \in {NoBody, name}, NEW why \in Reasons
      PROVE  LET row == IndexEntry(s, c, reached, why) IN
             /\ row \in ArchiveRow /\ row.cycle = run.cycle /\ row.seq = s /\ row.change = c
             /\ row.body = reached /\ row.omitted = why
             /\ row.chars = (IF reached = NoBody THEN 0 ELSE Body(c).chars)
             /\ row.truncated = (reached # NoBody /\ Body(c).marked)
  BY <1>1, <1>2, <1>5, EntryFacts
\* There is a reason to write no body.
<1>10. CASE /\ reason # ""
            /\ run' = [run EXCEPT !.pc = "row", !.row = IndexEntry(s, c, NoBody, reason),
                           !.sensitive = IF reason = "sensitive_path" THEN @ + 1 ELSE @,
                           !.over = IF reason = "over_count_cap" THEN @ + 1 ELSE @]
            /\ bodies' = bodies
  <2>1. PICK row \in ArchiveRow :
          /\ row = IndexEntry(s, c, NoBody, reason) /\ row.cycle = run.cycle /\ row.seq = s /\ row.change = c
          /\ row.body = NoBody /\ row.omitted = reason /\ row.truncated = FALSE
    <3>1. reason \in Reasons BY <1>6 DEF Reasons
    <3>. QED BY <1>9, <3>1
  <2>2. PICK sensitive \in Nat, over \in Nat :
          /\ sensitive = (IF reason = "sensitive_path" THEN run.sensitive + 1 ELSE run.sensitive)
          /\ over = (IF reason = "over_count_cap" THEN run.over + 1 ELSE run.over)
    BY <1>4
  <2>3. run' = [run EXCEPT !.pc = "row", !.row = row, !.stored = run.stored, !.cut = run.cut,
                           !.sensitive = sensitive, !.over = over]
    BY <1>3, <1>10, <2>1, <2>2 DEF RunRecord
  <2>4. /\ run' \in RunRecord /\ run'.pc = "row" /\ run'.row = row /\ run'.cycle = run.cycle
        /\ run'.batch = run.batch /\ run'.written = run.written /\ run'.stored = run.stored
        /\ run'.cut = run.cut /\ run'.sensitive = sensitive /\ run'.over = over
    <3>1. row \in ArchiveRow /\ sensitive \in Nat /\ over \in Nat BY <2>1, <2>2
    <3>. QED BY <1>4, <1>3, <2>3, <3>1 DEF RunRecord
  <2>5. Counts(row, run, run')
    <3>1. run.stored = run.stored + 0 /\ run.cut = run.cut + 0 BY <1>4
    <3>2. sensitive = run.sensitive + (IF row.omitted = "sensitive_path" THEN 1 ELSE 0) BY <1>4, <2>1, <2>2
    <3>3. over = run.over + (IF row.omitted = "over_count_cap" THEN 1 ELSE 0) BY <1>4, <2>1, <2>2
    <3>. QED BY <2>1, <2>4, <3>1, <3>2, <3>3, Zenon DEF Counts
  <2>6. Leads(row, bodies') BY <1>10, <2>1 DEF Leads
  <2>. QED BY <1>1, <1>2, <1>3, <1>5, <1>10, <2>1, <2>4, <2>5, <2>6, ReadyStep
\* The body is written.
<1>11. CASE /\ reason = ""
            /\ run' = [run EXCEPT !.pc = "row", !.row = IndexEntry(s, c, name, ""), !.stored = @ + 1,
                           !.cut = IF Body(c).marked THEN @ + 1 ELSE @]
            /\ bodies' = Put(name, Body(c))
  <2>1. PICK row \in ArchiveRow :
          /\ row = IndexEntry(s, c, name, "") /\ row.cycle = run.cycle /\ row.seq = s /\ row.change = c
          /\ row.body = name /\ row.omitted = "" /\ row.chars = Body(c).chars
          /\ row.truncated = Body(c).marked
    <3>1. "" \in Reasons BY DEF Reasons
    <3>2. PICK row : row = IndexEntry(s, c, name, "") OBVIOUS
    <3>3. /\ row \in ArchiveRow /\ row.cycle = run.cycle /\ row.seq = s /\ row.change = c
          /\ row.body = name /\ row.omitted = ""
          /\ row.chars = (IF name = NoBody THEN 0 ELSE Body(c).chars)
          /\ row.truncated = (name # NoBody /\ Body(c).marked)
      BY <1>9, <3>1, <3>2
    <3>4. row.chars = Body(c).chars /\ row.truncated = Body(c).marked BY <1>7, <1>8, <3>3
    <3>. QED BY <3>2, <3>3, <3>4, Zenon
  <2>2. PICK stored \in Nat, cut \in Nat :
          stored = run.stored + 1 /\ cut = (IF Body(c).marked THEN run.cut + 1 ELSE run.cut)
    BY <1>4
  <2>3. run' = [run EXCEPT !.pc = "row", !.row = row, !.stored = stored, !.cut = cut,
                           !.sensitive = run.sensitive, !.over = run.over]
    BY <1>3, <1>11, <2>1, <2>2 DEF RunRecord
  <2>4. /\ run' \in RunRecord /\ run'.pc = "row" /\ run'.row = row /\ run'.cycle = run.cycle
        /\ run'.batch = run.batch /\ run'.written = run.written /\ run'.stored = stored
        /\ run'.cut = cut /\ run'.sensitive = run.sensitive /\ run'.over = run.over
    <3>1. row \in ArchiveRow /\ stored \in Nat /\ cut \in Nat BY <2>1, <2>2
    <3>. QED BY <1>4, <1>3, <2>3, <3>1 DEF RunRecord
  <2>5. Counts(row, run, run')
    <3>1. run.sensitive = run.sensitive + 0 /\ run.over = run.over + 0 BY <1>4
    <3>2. cut = run.cut + (IF row.truncated THEN 1 ELSE 0)
      <4>1. row.truncated = Body(c).marked BY <2>1
      <4>2. cut = (IF Body(c).marked THEN run.cut + 1 ELSE run.cut) BY <2>2
      <4>3. CASE Body(c).marked BY <4>1, <4>2, <4>3
      <4>4. CASE ~Body(c).marked
        <5>1. cut = run.cut /\ ~row.truncated BY <4>1, <4>2, <4>4, Zenon
        <5>2. run.cut = run.cut + 0 BY <1>4
        <5>. QED BY <5>1, <5>2
      <4>. QED BY <4>3, <4>4
    <3>3. stored = run.stored + (IF row.body # NoBody THEN 1 ELSE 0) BY <1>7, <2>1, <2>2
    <3>4. row.omitted # "sensitive_path" /\ row.omitted # "over_count_cap" BY <2>1
    <3>. QED BY <2>4, <3>1, <3>2, <3>3, <3>4, Zenon DEF Counts
  <2>6. DOMAIN bodies' = DOMAIN bodies \cup {name} /\ bodies'[name] = Body(c) BY <1>11, PutBody DEF IsPut
  <2>7. Leads(row, bodies') BY <1>2, <1>7, <2>1, <2>6 DEF Leads
  <2>8. run'.stored <= MAX_BODIES_PER_CYCLE
    <3>1. run.stored < MAX_BODIES_PER_CYCLE BY <1>6, <1>11
    <3>. QED BY <1>4, <2>2, <2>4, <3>1, ArchiveAssumed
  <2>9. ~Sensitive(c) /\ bodies' = Put(BodyFile(run.cycle, run.written + 1, c), Body(c))
    BY <1>2, <1>6, <1>11
  <2>. QED BY <1>1, <1>2, <1>5, <2>1, <2>4, <2>5, <2>7, <2>8, <2>9, ReadyStep
\* Its write raises, and may have replaced the file.
<1>12. CASE /\ reason = ""
            /\ run' = [run EXCEPT !.pc = "row", !.row = IndexEntry(s, c, NoBody, "write_error")]
            /\ bodies' \in {bodies, Put(name, Body(c))}
  <2>1. PICK row \in ArchiveRow :
          /\ row = IndexEntry(s, c, NoBody, "write_error") /\ row.cycle = run.cycle /\ row.seq = s
          /\ row.change = c /\ row.body = NoBody /\ row.omitted = "write_error" /\ row.truncated = FALSE
    <3>1. "write_error" \in Reasons BY DEF Reasons
    <3>. QED BY <1>9, <3>1
  <2>2. run' = [run EXCEPT !.pc = "row", !.row = row, !.stored = run.stored, !.cut = run.cut,
                           !.sensitive = run.sensitive, !.over = run.over]
    BY <1>3, <1>12, <2>1 DEF RunRecord
  <2>3. /\ run' \in RunRecord /\ run'.pc = "row" /\ run'.row = row /\ run'.cycle = run.cycle
        /\ run'.batch = run.batch /\ run'.written = run.written /\ run'.stored = run.stored
        /\ run'.cut = run.cut /\ run'.sensitive = run.sensitive /\ run'.over = run.over
    <3>1. row \in ArchiveRow BY <2>1
    <3>. QED BY <1>4, <1>3, <2>2, <3>1 DEF RunRecord
  <2>4. Counts(row, run, run') BY <1>4, <2>1, <2>3 DEF Counts
  <2>5. Leads(row, bodies') BY <2>1 DEF Leads
  <2>6. bodies' = bodies \/ (~Sensitive(c) /\ bodies' = Put(BodyFile(run.cycle, run.written + 1, c), Body(c)))
    BY <1>2, <1>6, <1>12
  <2>. QED BY <1>1, <1>2, <1>3, <1>5, <2>1, <2>3, <2>4, <2>5, <2>6, ReadyStep
<1>13. PICK next : next = [run EXCEPT !.pc = "row"] OBVIOUS
<1>15. \/ /\ reason # "" /\ bodies' = bodies
          /\ run' = [next EXCEPT !.row = IndexEntry(s, c, NoBody, reason),
                         !.sensitive = IF reason = "sensitive_path" THEN @ + 1 ELSE @,
                         !.over = IF reason = "over_count_cap" THEN @ + 1 ELSE @]
       \/ /\ reason = "" /\ bodies' = Put(name, Body(c))
          /\ run' = [next EXCEPT !.row = IndexEntry(s, c, name, ""), !.stored = @ + 1,
                         !.cut = IF Body(c).marked THEN @ + 1 ELSE @]
       \/ /\ reason = "" /\ bodies' \in {bodies, Put(name, Body(c))}
          /\ run' = [next EXCEPT !.row = IndexEntry(s, c, NoBody, "write_error")]
  BY <1>2, <1>13 DEF StoreBody
<1>16. CASE /\ reason # "" /\ bodies' = bodies
            /\ run' = [next EXCEPT !.row = IndexEntry(s, c, NoBody, reason),
                           !.sensitive = IF reason = "sensitive_path" THEN @ + 1 ELSE @,
                           !.over = IF reason = "over_count_cap" THEN @ + 1 ELSE @]
  BY <1>10, <1>13, <1>16
<1>17. CASE /\ reason = "" /\ bodies' = Put(name, Body(c))
            /\ run' = [next EXCEPT !.row = IndexEntry(s, c, name, ""), !.stored = @ + 1,
                           !.cut = IF Body(c).marked THEN @ + 1 ELSE @]
  BY <1>11, <1>13, <1>17
<1>18. CASE /\ reason = "" /\ bodies' \in {bodies, Put(name, Body(c))}
            /\ run' = [next EXCEPT !.row = IndexEntry(s, c, NoBody, "write_error")]
  BY <1>12, <1>13, <1>18
<1>. QED BY <1>15, <1>16, <1>17, <1>18

LEMMA IndexRowStep == ArchiveInv /\ IndexRow => ArchiveInv'
<1> SUFFICES ASSUME ArchiveInv, IndexRow PROVE ArchiveInv'
  OBVIOUS
<1>1. run.pc = "row" /\ UNCHANGED bodies BY DEF IndexRow
<1>2. /\ run \in RunRecord /\ run.cycle = Len(told) + 1 /\ run.written < Len(run.batch)
      /\ run.stored <= MAX_BODIES_PER_CYCLE /\ run.row \in ArchiveRow
  BY <1>1 DEF ArchiveInv, ArchTypeOK, ArchRunOK
<1>3. /\ run.batch \in Seq(Change) /\ run.written \in Nat /\ run.stored \in Nat /\ run.cut \in Nat
      /\ run.sensitive \in Nat /\ run.over \in Nat /\ run.cycle \in Nat /\ Len(run.batch) \in Nat
  BY <1>2 DEF RunRecord
<1>4. ASSUME index' \in Failed(index, run.row), NEW summary \in Summary, ~summary.archived, Tell(summary)
      PROVE  ArchiveInv'
  <2>1. Carried(index') BY <1>1, <1>4, AppendCarries
  <2>. QED BY <1>1, <1>2, <1>4, <2>1, TellStep
<1>5. ASSUME index' = Written(index, run.row)
      PROVE  /\ Carried(index')
             /\ \A j \in DOMAIN index'.rows :
                  index'.rows[j].cycle = run.cycle => index'.rows[j].seq <= run.written + 1
             /\ Parses(index') => Parses(index) /\ index'.rows = Append(index.rows, run.row)
  <2>1. index' \in Failed(index, run.row) BY <1>5 DEF Failed
  <2>. QED BY <1>1, <1>5, <2>1, AppendCarries
<1>6. ASSUME index' = Written(index, run.row), Parses(index')
      PROVE  /\ run.written + 1 <= Len(index'.rows)
             /\ Tallied(index'.rows, run.cycle, run.batch, run.written + 1,
                        Len(index'.rows) - (run.written + 1), run)
  BY <1>1, <1>5, <1>6 DEF ArchiveInv, RunTallied, Coming, Came
\* There is another change.
<1>7. CASE /\ index' = Written(index, run.row) /\ run.written + 1 < Len(run.batch)
           /\ run' = [run EXCEPT !.pc = "body", !.written = @ + 1] /\ UNCHANGED told
  <2>1. /\ run' \in RunRecord /\ run'.pc = "body" /\ run'.written = run.written + 1
        /\ run'.cycle = run.cycle /\ run'.batch = run.batch /\ run'.stored = run.stored
        /\ run'.cut = run.cut /\ run'.sensitive = run.sensitive /\ run'.over = run.over
    <3>1. PICK w \in Nat : w = run.written + 1 BY <1>3
    <3>2. run' = [run EXCEPT !.pc = "body", !.written = w] BY <1>7, <3>1
    <3>. QED BY <1>2, <3>1, <3>2 DEF RunRecord
  <2>2. told' = told /\ bodies' = bodies BY <1>1, <1>7
  <2>3. ArchTypeOK' BY <1>5, <1>7, <2>1, <2>2 DEF ArchiveInv, ArchTypeOK, Carried
  <2>4. ArchRunOK' BY <1>2, <1>7, <2>1, <2>2 DEF ArchRunOK
  <2>5. RowsLead' BY <1>5, <1>7, <2>1, <2>2 DEF RowsLead, Carried, Leads
  <2>6. FilesOK' BY <2>2 DEF ArchiveInv, FilesOK
  <2>7. RunTallied'
    <3>1. Coming' = index'.rows /\ Came' = run.written + 1 BY <2>1 DEF Coming, Came
    <3>2. ASSUME Parses(index')
          PROVE  Tallied(index'.rows, run.cycle, run.batch, run.written + 1,
                         Len(index'.rows) - (run.written + 1), run')
      BY <1>6, <1>7, <2>1, <3>2 DEF Tallied
    <3>. QED BY <1>6, <1>7, <2>1, <3>1, <3>2 DEF RunTallied
  <2>8. AllTallied' BY <1>5, <1>7, <2>2 DEF AllTallied, Carried
  <2>. QED BY <2>3, <2>4, <2>5, <2>6, <2>7, <2>8 DEF ArchiveInv
\* It was the last.
<1>8. CASE /\ index' = Written(index, run.row) /\ ~(run.written + 1 < Len(run.batch))
           /\ Tell([archived |-> TRUE, written |-> run.written + 1, stored |-> run.stored,
                    cut |-> run.cut, sensitive |-> run.sensitive, over |-> run.over,
                    batch |-> run.batch])
  <2>1. PICK summary :
          summary = [archived |-> TRUE, written |-> run.written + 1, stored |-> run.stored,
                     cut |-> run.cut, sensitive |-> run.sensitive, over |-> run.over,
                     batch |-> run.batch]
    OBVIOUS
  <2>2. summary \in Summary BY <1>3, <2>1 DEF Summary
  <2>3. run.written + 1 = Len(run.batch) BY <1>2, <1>3, <1>8
  <2>4. ASSUME Parses(index') PROVE KeptTally(index'.rows, summary, Len(told) + 1)
    <3>1. index'.rows \in Seq(ArchiveRow) BY <1>5, <1>8 DEF Carried, LedgerOK, LedgerRecord
    <3>2. Len(index'.rows) - (run.written + 1) \in Nat BY <1>3, <1>6, <1>8, <2>4, <3>1
    <3>3. Tallied(index'.rows, run.cycle, run.batch, Len(run.batch), Len(index'.rows) - (run.written + 1), run)
      BY <1>6, <1>8, <2>3, <2>4
    <3>4. Tallied(index'.rows, Len(told) + 1, summary.batch, Len(summary.batch),
                  Len(index'.rows) - (run.written + 1), summary)
      BY <1>2, <2>1, <3>3 DEF Tallied
    <3>. QED BY <3>2, <3>4 DEF KeptTally
  <2>. QED BY <1>1, <1>2, <1>5, <1>8, <2>1, <2>2, <2>4, TellStep
<1>. QED BY <1>4, <1>7, <1>8, SummariesOK DEF IndexRow

LEMMA DieArchivingStep == ArchiveInv /\ DieArchiving => ArchiveInv'
<1> SUFFICES ASSUME ArchiveInv, DieArchiving PROVE ArchiveInv'
  OBVIOUS
<1>1. /\ run.pc # "idle" /\ UNCHANGED bodies /\ Tell(Unmeasured)
      /\ index' \in IF run.pc = "row" THEN {index, Cut(index), Unended(index, run.row)} ELSE {index}
  BY DEF DieArchiving
<1>2. run.cycle = Len(told) + 1 BY <1>1 DEF ArchiveInv, ArchRunOK
<1>3. Carried(index')
  <2>1. CASE index' = index
    <3>1. bodies' = bodies BY <1>1
    <3>. QED BY <2>1, IndexCarried
  <2>2. CASE run.pc = "row" /\ index' \in {Cut(index), Unended(index, run.row)}
    <3>1. index' \in Failed(index, run.row) BY <2>2 DEF Failed
    <3>. QED BY <2>2, <3>1, AppendCarries
  <2>. QED BY <1>1, <2>1, <2>2
<1>. QED BY <1>1, <1>2, <1>3, SummariesOK, TellStep

LEMMA ArchiveStep == ArchiveInv /\ [ArchiveNext]_archiveVars => ArchiveInv'
<1>1. ArchiveInv /\ UNCHANGED archiveVars => ArchiveInv'
  <2> SUFFICES ASSUME ArchiveInv, UNCHANGED archiveVars PROVE ArchiveInv'
    OBVIOUS
  <2>1. index' = index /\ bodies' = bodies /\ run' = run /\ told' = told BY DEF archiveVars
  <2>. QED BY <2>1 DEF ArchiveInv, ArchTypeOK, ArchRunOK, RowsLead, FilesOK, RunTallied, AllTallied,
                       Coming, Came, Leads
<1>. QED BY <1>1, ArchiveCallStep, StoreBodyStep, IndexRowStep, DieArchivingStep DEF ArchiveNext

\* What the rows of a cycle say of it follows.
LEMMA TalliedShows ==
    ASSUME ArchiveInv, NEW c \in DOMAIN told, told[c].archived, Parses(index)
    PROVE  LET rows == RowsOf(c)
               summary == told[c]
           IN /\ Cardinality(rows) = Len(summary.batch)
              /\ \A k \in rows : LET place == Cardinality({j \in rows : j <= k}) IN
                    index.rows[k].seq = place /\ index.rows[k].change = summary.batch[place]
              /\ Showing(c, "stored") = summary.stored /\ Showing(c, "cut") = summary.cut
              /\ Showing(c, "sensitive_path") = summary.sensitive
              /\ Showing(c, "over_count_cap") = summary.over
              /\ summary.stored <= MAX_BODIES_PER_CYCLE
<1>1. PICK w, summary : w = Len(summary.batch) /\ summary = told[c] OBVIOUS
<1>2. w \in Nat
  <2>1. summary \in Summary BY <1>1, ToldFacts
  <2>2. summary.batch \in Seq(Change) BY <2>1 DEF Summary
  <2>. QED BY <1>1, <2>2
<1>3. PICK at \in Nat : Tallied(index.rows, c, summary.batch, w, at, summary)
  BY <1>1 DEF ArchiveInv, AllTallied, KeptTally
<1>4. RowsOf(c) = Among(index.rows, c) /\ \A what : Showing(c, what) = Amount(index.rows, c, what)
  BY DEF RowsOf, Among, Showing, Amount
<1>5. RowsOf(c) = at + 1..at + w BY <1>3, <1>4 DEF Tallied
<1>6. Cardinality(RowsOf(c)) = w
  <2>1. Cardinality(at + 1..at + w) = (IF at + 1 > at + w THEN 0 ELSE (at + w) - (at + 1) + 1)
    BY <1>2, FS_Interval
  <2>. QED BY <1>2, <1>5, <2>1
<1>7. ASSUME NEW k \in RowsOf(c)
      PROVE  Cardinality({j \in RowsOf(c) : j <= k}) = k - at
  <2>1. k \in Nat /\ at + 1 <= k /\ k <= at + w BY <1>2, <1>5
  <2>2. {j \in RowsOf(c) : j <= k} = at + 1..k BY <1>2, <1>5, <2>1
  <2>3. Cardinality(at + 1..k) = (IF at + 1 > k THEN 0 ELSE k - (at + 1) + 1) BY <2>1, FS_Interval
  <2>4. Cardinality(at + 1..k) = k - at BY <2>1, <2>3
  <2>. QED BY <2>2, <2>4
<1>8. \A k \in RowsOf(c) : index.rows[k].seq = k - at /\ index.rows[k].change = summary.batch[k - at]
  BY <1>3, <1>5 DEF Tallied
<1>9. /\ Showing(c, "stored") = summary.stored /\ Showing(c, "cut") = summary.cut
      /\ Showing(c, "sensitive_path") = summary.sensitive /\ Showing(c, "over_count_cap") = summary.over
      /\ summary.stored <= MAX_BODIES_PER_CYCLE
  BY <1>3, <1>4 DEF Tallied
<1>. QED BY <1>1, <1>6, <1>7, <1>8, <1>9, Zenon

\* Whoever reads the archive finds each body or the reason that there is none,
\* and, unless a line was damaged, all that a call said it had archived.
THEOREM ArchiveAccounts == Spec => []ArchiveAccountsForAll
<1>1. Init => ArchiveInv BY ArchiveInitOK DEF Init
<1>2. ArchiveInv /\ [Next]_vars => ArchiveInv'
  <2>1. [Next]_vars => [ArchiveNext]_archiveVars BY DEF Next, vars
  <2>. QED BY <2>1, ArchiveStep
<1>3. ArchiveInv => ArchiveAccountsForAll
  <2> SUFFICES ASSUME ArchiveInv PROVE ArchiveAccountsForAll
    OBVIOUS
  <2>1. ASSUME NEW k \in DOMAIN index.rows
        PROVE  LET row == index.rows[k] IN
               IF row.body = NoBody THEN row.omitted # ""
               ELSE /\ row.body \in DOMAIN bodies
                    /\ Loaded(row) = [of |-> row.change, chars |-> Body(row.change).chars]
                    /\ bodies[row.body].marked = row.truncated
    <3>1. Leads(index.rows[k], bodies) BY DEF ArchiveInv, RowsLead
    <3>2. index.rows[k] \in ArchiveRow BY ToldFacts, SeqFacts
    <3>3. index.rows[k].change \in Change BY <3>2 DEF ArchiveRow
    <3>4. Body(index.rows[k].change).of = index.rows[k].change BY <3>3, BodyType
    <3>. QED BY <3>1, <3>4 DEF Leads, Loaded
  <2>2. \A name \in DOMAIN bodies : name[3] \notin SensitivePath BY DEF ArchiveInv, FilesOK
  <2>. QED BY <2>1, <2>2, TalliedShows DEF ArchiveAccountsForAll
<1>. QED BY <1>1, <1>2, <1>3, PTL DEF Spec

(***************************************************************************)
(* The snapshot of a repository                                            *)
(*                                                                         *)
(* A report stands only while no snapshot is under way. What was copied is *)
(* at the destination, is neither secret nor declared out, and is as in    *)
(* the source unless that has moved.                                       *)
(***************************************************************************)
SnapTypeOK ==
    /\ source \in [RepoFile -> [version : Nat, link : BOOLEAN, tracked : BOOLEAN]]
    /\ head \in [RepoFile -> Nat]
    /\ dest \in [RepoFile -> Nat]
    /\ git \in [there : BOOLEAN, wipeable : BOOLEAN, tree : SUBSET RepoFile, commits : Nat]
    /\ snap \in [pc : {"idle", "copying", "identity", "commit"}, exclude : SUBSET RepoFile,
                 todo : SUBSET RepoFile, copied : SUBSET RepoFile, dirty : Nat,
                 moved : BOOLEAN, atHead : [RepoFile -> Nat]]
    /\ report \in [there : BOOLEAN, init : {"ok", "failed", "mismatch"}, copied : SUBSET RepoFile,
                   dirty : Nat, reset : BOOLEAN, verifiedTree : BOOLEAN, verifiedHead : BOOLEAN,
                   exclude : SUBSET RepoFile]

UnderWay == snap.pc # "idle"

Copied ==
    UnderWay =>
        /\ ~report.there
        /\ snap.copied \cap (Secretlike \cup snap.exclude) = {}
        /\ \A f \in snap.copied : dest[f] > 0
        /\ ~snap.moved => \A f \in snap.copied : dest[f] = source[f].version

Identified ==
    snap.pc = "commit" /\ ~snap.moved /\ snap.dirty = 0 =>
        \A f \in RepoFile : source[f].version = snap.atHead[f]

SnapInv == SnapTypeOK /\ Copied /\ Identified /\ SnapshotIsWhole

LEMMA SnapAssumed ==
    /\ IsFiniteSet(RepoFile)
    /\ MaxVersion \in Nat
    /\ \A e \in Excludes : e \subseteq RepoFile
BY SnapshotAssumption

LEMMA IdleSnapType ==
    /\ IdleSnap.pc = "idle" /\ ~IdleSnap.moved
    /\ IdleSnap \in [pc : {"idle", "copying", "identity", "commit"}, exclude : SUBSET RepoFile,
                 todo : SUBSET RepoFile, copied : SUBSET RepoFile, dirty : Nat,
                 moved : BOOLEAN, atHead : [RepoFile -> Nat]]
BY DEF IdleSnap

LEMMA NoReportType ==
    /\ ~NoReport.there
    /\ NoReport \in [there : BOOLEAN, init : {"ok", "failed", "mismatch"}, copied : SUBSET RepoFile,
                   dirty : Nat, reset : BOOLEAN, verifiedTree : BOOLEAN, verifiedHead : BOOLEAN,
                   exclude : SUBSET RepoFile]
BY DEF NoReport

LEMMA DirtyCount ==
    /\ Cardinality(DirtyFiles) \in Nat
    /\ Cardinality(DirtyFiles) = 0 => \A f \in RepoFile : source[f].version = head[f]
<1>1. DirtyFiles \in SUBSET RepoFile
  BY DEF DirtyFiles
<1>2. IsFiniteSet(DirtyFiles)
  BY <1>1, SnapAssumed, FS_Subset
<1>3. Cardinality(DirtyFiles) = 0 => DirtyFiles = {}
  BY <1>2, FS_EmptySet
<1> QED BY <1>2, <1>3, FS_CardinalityType DEF DirtyFiles

LEMMA SnapInitOK == SnapInit => SnapInv
<1> SUFFICES ASSUME SnapInit PROVE SnapInv
  OBVIOUS
<1>1. source \in [RepoFile -> [version : Nat, link : BOOLEAN, tracked : BOOLEAN]] /\ head \in [RepoFile -> Nat]
  BY DEF SnapInit
<1>2. SnapTypeOK
  BY <1>1, IdleSnapType, NoReportType DEF SnapInit, SnapTypeOK
<1>3. ~UnderWay /\ ~report.there
  BY IdleSnapType, NoReportType DEF SnapInit, UnderWay
<1> QED BY <1>2, <1>3 DEF SnapInv, Copied, Identified, UnderWay, SnapshotIsWhole, OneCommitOfAll,
           CleanSnapshotIsTheCommit

\* A step after which nothing is under way and nothing reported.
LEMMA NothingClaimed ==
    ASSUME SnapTypeOK', ~UnderWay', ~report'.there
    PROVE  SnapInv'
BY DEF SnapInv, Copied, Identified, UnderWay, SnapshotIsWhole, OneCommitOfAll,
       CleanSnapshotIsTheCommit

LEMMA EditSourceStep == SnapInv /\ EditSource => SnapInv'
<1> SUFFICES ASSUME SnapInv, EditSource PROVE SnapInv'
  OBVIOUS
<1>1. /\ UNCHANGED <<dest, git, report>>
      /\ snap' = [snap EXCEPT !.moved = @ \/ snap.pc # "idle"]
  BY DEF EditSource, Moved
<1>2. SnapTypeOK'
  <2>1. source' \in [RepoFile -> [version : Nat, link : BOOLEAN, tracked : BOOLEAN]]
        /\ head' \in [RepoFile -> Nat]
    <3>1. CASE UNCHANGED head /\ \E f \in RepoFile : \E v \in 0..MaxVersion, link \in BOOLEAN :
                     source' = [source EXCEPT ![f] = [version |-> v, link |-> link, tracked |-> @.tracked]]
      <4>1. PICK f \in RepoFile, v \in 0..MaxVersion, link \in BOOLEAN :
                  source' = [source EXCEPT ![f] = [version |-> v, link |-> link, tracked |-> @.tracked]]
        BY <3>1
      <4>2. v \in Nat
        BY SnapAssumed
      <4> QED BY <3>1, <4>1, <4>2 DEF SnapInv, SnapTypeOK
    <3>2. CASE /\ head' = [f \in RepoFile |-> source[f].version]
               /\ source' = [f \in RepoFile |-> [source[f] EXCEPT !.tracked = source[f].version > 0]]
      <4>1. ASSUME NEW f \in RepoFile
            PROVE  /\ [source[f] EXCEPT !.tracked = source[f].version > 0]
                          \in [version : Nat, link : BOOLEAN, tracked : BOOLEAN]
                   /\ source[f].version \in Nat
        <5> DEFINE tracked == source[f].version > 0
        <5>1. source[f] \in [version : Nat, link : BOOLEAN, tracked : BOOLEAN]
          BY DEF SnapInv, SnapTypeOK
        <5>2. tracked \in BOOLEAN /\ source[f].version \in Nat
          BY ONLY <5>1, SMT
        <5> HIDE DEF tracked
        <5>3. [source[f] EXCEPT !.tracked = tracked] \in [version : Nat, link : BOOLEAN, tracked : BOOLEAN]
          BY ONLY <5>1, <5>2, SMT
        <5> QED BY <5>2, <5>3 DEF tracked
      <4> QED BY <3>2, <4>1
    <3> QED BY <3>1, <3>2 DEF EditSource
  <2>2. (snap.moved \/ snap.pc # "idle") \in BOOLEAN
    BY DEF SnapInv, SnapTypeOK
  <2> QED BY <1>1, <2>1, <2>2 DEF SnapInv, SnapTypeOK
<1>3. /\ snap'.pc = snap.pc /\ snap'.copied = snap.copied /\ snap'.exclude = snap.exclude
      /\ snap'.atHead = snap.atHead /\ snap'.dirty = snap.dirty
      /\ (UnderWay => snap'.moved) /\ (~snap'.moved => ~snap.moved)
  BY <1>1 DEF SnapInv, SnapTypeOK, UnderWay
<1> QED BY <1>1, <1>2, <1>3 DEF SnapInv, Copied, Identified, UnderWay, SnapshotIsWhole, OneCommitOfAll,
           CleanSnapshotIsTheCommit

LEMMA WorkAtDestStep == SnapInv /\ WorkAtDest => SnapInv'
<1> SUFFICES ASSUME SnapInv, WorkAtDest PROVE SnapInv'
  OBVIOUS
<1>1. snap.pc = "idle" /\ report' = NoReport /\ UNCHANGED <<source, head, snap>>
  BY DEF WorkAtDest
<1>2. dest' \in [RepoFile -> Nat]
  BY SnapAssumed DEF WorkAtDest, SnapInv, SnapTypeOK
<1>3. git' \in [there : BOOLEAN, wipeable : BOOLEAN, tree : SUBSET RepoFile, commits : Nat]
  <2> DEFINE held == {f \in RepoFile : dest[f] > 0}
  <2>1. held \subseteq RepoFile
    OBVIOUS
  <2>2. git.commits + 1 \in Nat /\ (~git.wipeable) \in BOOLEAN
    BY DEF SnapInv, SnapTypeOK
  <2>3. \/ git' = [git EXCEPT !.commits = @ + 1, !.tree = held]
        \/ git' = [git EXCEPT !.wipeable = ~@]
        \/ git' = git
    BY DEF WorkAtDest
  <2> HIDE DEF held
  <2> QED BY <2>1, <2>2, <2>3 DEF SnapInv, SnapTypeOK
<1> QED BY <1>1, <1>2, <1>3, NoReportType, NothingClaimed DEF SnapInv, SnapTypeOK, UnderWay

\* What follows a refusal.
LEMMA RefuseStep ==
    ASSUME SnapInv, Refuse, UNCHANGED <<source, head, git>>, dest' \in [RepoFile -> Nat]
    PROVE  SnapInv'
BY IdleSnapType, NoReportType, NothingClaimed DEF Refuse, SnapInv, SnapTypeOK, UnderWay

LEMMA BeginStep == SnapInv /\ Begin => SnapInv'
<1> SUFFICES ASSUME SnapInv, Begin PROVE SnapInv'
  OBVIOUS
<1>1. UNCHANGED <<source, head, dest, git>>
  BY DEF Begin
<1>2. CASE Refuse
  BY <1>1, <1>2, RefuseStep DEF SnapInv, SnapTypeOK
<1>3. CASE ~Refuse
  <2> DEFINE listed == {f \in RepoFile : source[f].tracked \/ source[f].version > 0}
  <2>1. PICK e \in Excludes :
          snap' = [IdleSnap EXCEPT !.pc = "copying", !.exclude = e, !.todo = listed]
          /\ report' = NoReport
    BY <1>3 DEF Begin
  <2>2. e \subseteq RepoFile /\ listed \subseteq RepoFile
    BY SnapAssumed
  <2>3. snap' = [pc |-> "copying", exclude |-> e, todo |-> listed, copied |-> {}, dirty |-> 0,
                 moved |-> FALSE, atHead |-> [f \in RepoFile |-> 0]]
    BY <2>1 DEF IdleSnap
  <2> HIDE DEF listed
  <2>4. SnapTypeOK'
    <3>1. report' = NoReport
      BY <2>1
    <3>2. [f \in RepoFile |-> 0] \in [RepoFile -> Nat]
      OBVIOUS
    <3>3. snap' \in [pc : {"idle", "copying", "identity", "commit"}, exclude : SUBSET RepoFile,
                     todo : SUBSET RepoFile, copied : SUBSET RepoFile, dirty : Nat,
                     moved : BOOLEAN, atHead : [RepoFile -> Nat]]
      BY <2>2, <2>3, <3>2
    <3> QED BY <1>1, <3>1, <3>3, NoReportType DEF SnapInv, SnapTypeOK
  <2>5. snap'.copied = {} /\ snap'.pc = "copying"
    BY <2>3
  <2>6. ~report'.there
    BY <2>1, NoReportType
  <2> QED BY <2>4, <2>5, <2>6 DEF SnapInv, Copied, Identified, SnapshotIsWhole, OneCommitOfAll,
             CleanSnapshotIsTheCommit
<1> QED BY <1>2, <1>3

\* A step of the snapshot that leaves source, commit and destination alone.
LEMMA CopyOneStep == SnapInv /\ CopyOne => SnapInv'
<1> SUFFICES ASSUME SnapInv, CopyOne PROVE SnapInv'
  OBVIOUS
<1>1. PICK f \in snap.todo :
        LET skipped == f \in Secretlike \/ ~InTree(f) \/ f \in snap.exclude IN
        \/ skipped /\ snap' = [snap EXCEPT !.todo = @ \ {f}] /\ UNCHANGED <<dest, report>>
        \/ /\ ~skipped
           /\ dest' = [dest EXCEPT ![f] = source[f].version]
           /\ snap' = [snap EXCEPT !.todo = @ \ {f}, !.copied = @ \cup {f}]
           /\ UNCHANGED report
        \/ ~skipped /\ Refuse /\ UNCHANGED dest
  BY DEF CopyOne
<1>2. snap.pc = "copying" /\ UNCHANGED <<source, head, git>> /\ f \in RepoFile
  BY DEF CopyOne, SnapInv, SnapTypeOK
<1>3. CASE snap' = [snap EXCEPT !.todo = @ \ {f}] /\ UNCHANGED <<dest, report>>
  BY <1>2, <1>3 DEF SnapInv, SnapTypeOK, Copied, Identified, UnderWay, SnapshotIsWhole,
     OneCommitOfAll, CleanSnapshotIsTheCommit
<1>4. CASE /\ ~(f \in Secretlike \/ ~InTree(f) \/ f \in snap.exclude)
           /\ dest' = [dest EXCEPT ![f] = source[f].version]
           /\ snap' = [snap EXCEPT !.todo = @ \ {f}, !.copied = @ \cup {f}]
           /\ UNCHANGED report
  <2>1. /\ snap'.pc = "copying" /\ snap'.copied = snap.copied \cup {f}
        /\ snap'.moved = snap.moved /\ snap'.exclude = snap.exclude
    BY <1>2, <1>4 DEF SnapInv, SnapTypeOK
  <2>2. SnapTypeOK'
    BY <1>2, <1>4 DEF SnapInv, SnapTypeOK
  <2>3. ~report'.there
    BY <1>2, <1>4 DEF SnapInv, Copied, UnderWay
  <2>4. dest'[f] = source[f].version /\ dest'[f] > 0 /\ \A g \in RepoFile \ {f} : dest'[g] = dest[g]
    BY <1>2, <1>4 DEF SnapInv, SnapTypeOK, InTree
  <2>5. snap.copied \subseteq RepoFile
    BY DEF SnapInv, SnapTypeOK
  <2>6. Copied'
    BY <1>2, <1>4, <2>1, <2>3, <2>4, <2>5 DEF SnapInv, Copied, UnderWay
  <2> QED BY <2>1, <2>2, <2>3, <2>6 DEF SnapInv, Identified, SnapshotIsWhole, OneCommitOfAll,
             CleanSnapshotIsTheCommit
<1>5. CASE Refuse /\ UNCHANGED dest
  BY <1>2, <1>5, RefuseStep DEF SnapInv, SnapTypeOK
<1> QED BY <1>1, <1>3, <1>4, <1>5

LEMMA VerifyTreeStep == SnapInv /\ VerifyTree => SnapInv'
<1> SUFFICES ASSUME SnapInv, VerifyTree PROVE SnapInv'
  OBVIOUS
<1>1. UNCHANGED <<source, head, dest, git>> /\ snap.pc = "copying"
  BY DEF VerifyTree
<1>2. CASE Refuse
  BY <1>1, <1>2, RefuseStep DEF SnapInv, SnapTypeOK
<1>3. CASE snap' = [snap EXCEPT !.pc = "identity"] /\ UNCHANGED report
  BY <1>1, <1>3 DEF SnapInv, SnapTypeOK, Copied, Identified, UnderWay, SnapshotIsWhole,
     OneCommitOfAll, CleanSnapshotIsTheCommit
<1> QED BY <1>2, <1>3 DEF VerifyTree

LEMMA IdentifyStep == SnapInv /\ Identify => SnapInv'
<1> SUFFICES ASSUME SnapInv, Identify PROVE SnapInv'
  OBVIOUS
<1> DEFINE n == Cardinality(DirtyFiles)
<1>1. /\ snap.pc = "identity" /\ UNCHANGED <<source, head, dest, git, report>>
      /\ snap' = [snap EXCEPT !.pc = "commit", !.dirty = n, !.atHead = head]
  BY DEF Identify
<1>2. n \in Nat /\ (n = 0 => \A f \in RepoFile : source[f].version = head[f])
  BY DirtyCount
<1> HIDE DEF n
<1>3. SnapTypeOK'
  BY <1>1, <1>2 DEF SnapInv, SnapTypeOK
<1>4. /\ snap'.pc = "commit" /\ snap'.dirty = n /\ snap'.atHead = head
      /\ snap'.moved = snap.moved /\ snap'.copied = snap.copied /\ snap'.exclude = snap.exclude
  BY <1>1 DEF SnapInv, SnapTypeOK
<1>5. Identified'
  BY <1>1, <1>2, <1>4 DEF Identified
<1>6. Copied' /\ ~report'.there
  BY <1>1, <1>4 DEF SnapInv, Copied, UnderWay
<1> QED BY <1>3, <1>5, <1>6 DEF SnapInv, SnapshotIsWhole, OneCommitOfAll, CleanSnapshotIsTheCommit

LEMMA CommitSnapshotStep == SnapInv /\ CommitSnapshot => SnapInv'
<1> SUFFICES ASSUME SnapInv, CommitSnapshot PROVE SnapInv'
  OBVIOUS
<1>1. UNCHANGED <<source, head, dest>> /\ snap.pc = "commit"
  BY DEF CommitSnapshot
<1>2. CASE Refuse /\ UNCHANGED git
  BY <1>1, <1>2, RefuseStep DEF SnapInv, SnapTypeOK
<1>3. ASSUME NEW init \in {"ok", "failed", "mismatch"}, NEW t \in SUBSET RepoFile,
             Return(init, t),
             git' \in [there : BOOLEAN, wipeable : BOOLEAN, tree : SUBSET RepoFile, commits : Nat],
             init = "ok" => /\ git'.commits = 1 /\ git'.tree = t /\ t = snap.copied
                            /\ \A f \in RepoFile \ t : ~(dest[f] > 0)
      PROVE SnapInv'
  <2>1. /\ report'.there /\ report'.init = init /\ report'.copied = snap.copied
        /\ report'.dirty = snap.dirty /\ report'.exclude = snap.exclude
        /\ report'.verifiedHead = (init = "ok" /\ snap.exclude # {} /\ t \cap snap.exclude = {})
        /\ snap' = [IdleSnap EXCEPT !.moved = snap.moved, !.atHead = snap.atHead]
    BY <1>3 DEF Return
  <2>2. /\ snap'.pc = "idle" /\ snap'.moved = snap.moved /\ snap'.atHead = snap.atHead
        /\ snap' \in [pc : {"idle", "copying", "identity", "commit"}, exclude : SUBSET RepoFile,
                      todo : SUBSET RepoFile, copied : SUBSET RepoFile, dirty : Nat,
                      moved : BOOLEAN, atHead : [RepoFile -> Nat]]
    BY <2>1, IdleSnapType DEF SnapInv, SnapTypeOK
  <2>3. report' \in [there : BOOLEAN, init : {"ok", "failed", "mismatch"}, copied : SUBSET RepoFile,
                     dirty : Nat, reset : BOOLEAN, verifiedTree : BOOLEAN, verifiedHead : BOOLEAN,
                     exclude : SUBSET RepoFile]
    <3>1. /\ (snap.exclude # {}) \in BOOLEAN
          /\ (init = "ok" /\ snap.exclude # {} /\ t \cap snap.exclude = {}) \in BOOLEAN
      OBVIOUS
    <3> QED BY <1>3, <3>1 DEF Return, SnapInv, SnapTypeOK
  <2>4. SnapTypeOK'
    BY <1>1, <1>3, <2>2, <2>3 DEF SnapInv, SnapTypeOK
  <2>5. /\ snap.copied \subseteq RepoFile /\ snap.copied \cap (Secretlike \cup snap.exclude) = {}
        /\ \A f \in snap.copied : dest[f] > 0
        /\ ~snap.moved => \A f \in snap.copied : dest[f] = source[f].version
    BY <1>1 DEF SnapInv, SnapTypeOK, Copied, UnderWay
  <2>6. OneCommitOfAll'
    <3>1. SUFFICES ASSUME init = "ok"
                   PROVE  /\ git'.commits = 1
                          /\ git'.tree = {f \in RepoFile : dest'[f] > 0}
                          /\ git'.tree \cap (Secretlike \cup report'.exclude) = {}
                          /\ report'.verifiedHead = (report'.exclude # {})
      BY <2>1 DEF OneCommitOfAll
    <3>2. t = {f \in RepoFile : dest[f] > 0}
      BY <1>3, <2>5, <3>1
    <3>3. (init = "ok" /\ snap.exclude # {} /\ t \cap snap.exclude = {}) = (snap.exclude # {})
      BY <1>3, <2>5, <3>1
    <3> QED BY <1>1, <1>3, <2>1, <2>5, <3>1, <3>2, <3>3
  <2>7. CleanSnapshotIsTheCommit'
    BY <1>1, <2>1, <2>2, <2>5 DEF CleanSnapshotIsTheCommit, SnapInv, Identified
  <2>8. Copied' /\ Identified'
    BY <2>2 DEF Copied, Identified, UnderWay
  <2> QED BY <2>4, <2>6, <2>7, <2>8 DEF SnapInv, SnapshotIsWhole
<1>4. snap.copied \in SUBSET RepoFile /\ {} \in SUBSET RepoFile
  BY DEF SnapInv, SnapTypeOK
<1>5. CASE /\ git' = [there |-> TRUE, wipeable |-> TRUE, tree |-> {}, commits |-> 0]
           /\ Return("failed", {})
  BY <1>3, <1>4, <1>5
<1>6. CASE /\ git' = [there |-> TRUE, wipeable |-> TRUE, tree |-> snap.copied,
                      commits |-> IF snap.copied = {} THEN 0 ELSE 1]
           /\ IF snap.copied = {}
              THEN Return("failed", {})
              ELSE Return(IF \E f \in RepoFile \ snap.copied : dest[f] > 0
                          THEN "mismatch" ELSE "ok", snap.copied)
  <2>1. /\ git' \in [there : BOOLEAN, wipeable : BOOLEAN, tree : SUBSET RepoFile, commits : Nat]
        /\ git'.tree = snap.copied /\ (snap.copied # {} => git'.commits = 1)
    BY <1>4, <1>6
  <2>2. CASE snap.copied = {}
    BY <1>3, <1>4, <1>6, <2>1, <2>2
  <2>3. CASE snap.copied # {} /\ \E f \in RepoFile \ snap.copied : dest[f] > 0
    <3>1. Return("mismatch", snap.copied)
      BY <1>6, <2>3
    <3> QED BY <1>3, <1>4, <2>1, <3>1
  <2>4. CASE snap.copied # {} /\ ~\E f \in RepoFile \ snap.copied : dest[f] > 0
    <3>1. Return("ok", snap.copied)
      BY <1>6, <2>4
    <3> QED BY <1>3, <1>4, <2>1, <2>4, <3>1
  <2> QED BY <2>2, <2>3, <2>4
<1> QED BY <1>2, <1>5, <1>6 DEF CommitSnapshot

\* A snapshot that reports itself whole is one commit of what lies at the
\* destination, without secrets and exclusions, and a clean one is the commit
\* that it names, for any files, versions, exclusions and leftovers.
THEOREM SnapshotHolds == Spec => []SnapshotIsWhole
<1>1. Init => SnapInv
  BY SnapInitOK DEF Init
<1>2. SnapInv /\ [Next]_vars => SnapInv'
  <2>1. [Next]_vars => SnapNext \/ UNCHANGED snapVars
    BY DEF Next, vars
  <2>2. SnapInv /\ UNCHANGED snapVars => SnapInv'
    BY DEF snapVars, SnapInv, SnapTypeOK, Copied, Identified, UnderWay, SnapshotIsWhole,
           OneCommitOfAll, CleanSnapshotIsTheCommit
  <2> QED BY <2>1, <2>2, EditSourceStep, WorkAtDestStep, BeginStep, CopyOneStep, VerifyTreeStep,
             IdentifyStep, CommitSnapshotStep DEF SnapNext
<1>3. SnapInv => SnapshotIsWhole
  BY DEF SnapInv
<1> QED BY <1>1, <1>2, <1>3, PTL DEF Spec

(***************************************************************************)
(* The cost meter of a slot                                                *)
(*                                                                         *)
(* Whoever is between the acquisition of the lock and its release holds    *)
(* it; whoever has opened the slot has seen a meter; and as long as no     *)
(* first meter was written over the work of others, one is on its way only *)
(* while there is none, so that what an update has read is still so when   *)
(* it replaces the meter.                                                  *)
(***************************************************************************)
SlotPc == {"new", "initTmp", "initReplace", "open", "read", "append", "tmp", "replace"}
Locked(p) == worker[p].pc \in {"read", "append", "tmp", "replace"}
Opening(p) == worker[p].pc \in {"initTmp", "initReplace"}

SlotTypeOK ==
    /\ meter \in Nat \cup {NoMeter, Unreadable}
    /\ tmp \in Nat \cup {NoMeter}
    /\ slotRows \in Nat
    /\ holder \in Proc \cup {"none"}
    /\ worker \in [Proc -> [pc : SlotPc, value : Nat]]
    /\ slotGhost \in [charged : Nat, appended : Nat, overlap : BOOLEAN, damaged : BOOLEAN, kills : Nat]

SlotLocked ==
    /\ \A p \in Proc : Locked(p) => holder = p
    /\ \A p \in Proc : Locked(p) \/ worker[p].pc = "open" => meter # NoMeter

SlotCounted ==
    /\ slotGhost.charged > 0 => meter # NoMeter
    /\ slotRows = slotGhost.appended

SlotOpened ==
    ~slotGhost.overlap =>
        \A p \in Proc :
            /\ Opening(p) => meter = NoMeter /\ worker[p].value = 0
            /\ worker[p].pc = "initReplace" => tmp = 0

SlotExact ==
    ~slotGhost.damaged /\ ~slotGhost.overlap =>
        /\ meter = slotGhost.charged \/ meter = NoMeter
        /\ \A p \in Proc :
            /\ worker[p].pc = "tmp" => worker[p].value = slotGhost.charged + 1
            /\ worker[p].pc = "replace" => tmp = slotGhost.charged + 1

SlotInv == SlotTypeOK /\ SlotLocked /\ SlotCounted /\ SlotOpened /\ SlotExact

LEMMA SlotInitOK == SlotInit => SlotInv
BY DEF SlotInit, SlotInv, SlotTypeOK, SlotLocked, SlotCounted, SlotOpened, SlotExact, Locked,
       Opening, SlotPc, NoMeter, Unreadable

LEMMA SlotStep == SlotInv /\ [SlotNext]_slotVars => SlotInv'
<1> SUFFICES ASSUME SlotInv, [SlotNext]_slotVars PROVE SlotInv'
  OBVIOUS
<1> USE DEF SlotInv, SlotTypeOK, SlotLocked, SlotCounted, SlotOpened, SlotExact, Locked, Opening,
            SlotPc, NoMeter, Unreadable, At, GoTo, OthersOpening
<1>1. ASSUME NEW p \in Proc, Allocate(p) PROVE SlotInv'
  BY <1>1 DEF Allocate
<1>2. ASSUME NEW p \in Proc, WriteTmp(p) PROVE SlotInv'
  BY <1>2 DEF WriteTmp
<1>3. ASSUME NEW p \in Proc, ReplaceMeter(p) PROVE SlotInv'
  <2>1. SlotTypeOK'
    <3>1. meter' \in Nat \cup {NoMeter, Unreadable} /\ tmp' \in Nat \cup {NoMeter}
      BY <1>3 DEF ReplaceMeter
    <3>2. holder' \in Proc \cup {"none"} /\ slotRows' \in Nat
      BY <1>3 DEF ReplaceMeter
    <3>3. worker' \in [Proc -> [pc : SlotPc, value : Nat]]
      BY <1>3 DEF ReplaceMeter
    <3>4. slotGhost' \in [charged : Nat, appended : Nat, overlap : BOOLEAN, damaged : BOOLEAN, kills : Nat]
      <4>1. /\ slotGhost.charged + 1 \in Nat /\ slotGhost.charged \in Nat
            /\ OthersOpening(p) \in BOOLEAN
        OBVIOUS
      <4> QED BY <1>3, <4>1 DEF ReplaceMeter
    <3> QED BY <3>1, <3>2, <3>3, <3>4
  <2>2. SlotLocked'
    BY <1>3 DEF ReplaceMeter
  <2>3. SlotCounted'
    BY <1>3 DEF ReplaceMeter
  <2>4. SlotOpened'
    BY <1>3 DEF ReplaceMeter
  <2>5. SlotExact'
    BY <1>3 DEF ReplaceMeter
  <2> QED BY <2>1, <2>2, <2>3, <2>4, <2>5 DEF SlotInv
<1>4. ASSUME NEW p \in Proc, Acquire(p) PROVE SlotInv'
  BY <1>4, SlotAssumption DEF Acquire
<1>5. ASSUME NEW p \in Proc, ReadMeter(p) PROVE SlotInv'
  BY <1>5 DEF ReadMeter
<1>6. ASSUME NEW p \in Proc, AppendManifest(p) PROVE SlotInv'
  BY <1>6 DEF AppendManifest
<1>7. ASSUME NEW p \in Proc, Kill(p) PROVE SlotInv'
  BY <1>7 DEF Kill
<1>8. CASE Damage
  <2>1. SlotTypeOK'
    BY <1>8 DEF Damage
  <2>2. SlotLocked' /\ SlotCounted'
    BY <1>8 DEF Damage
  <2>3. SlotOpened'
    BY <1>8 DEF Damage
  <2>4. SlotExact'
    BY <1>8 DEF Damage
  <2> QED BY <2>1, <2>2, <2>3, <2>4 DEF SlotInv
<1>9. CASE UNCHANGED slotVars
  BY <1>9 DEF slotVars
<1> QED BY <1>1, <1>2, <1>3, <1>4, <1>5, <1>6, <1>7, <1>8, <1>9 DEF SlotNext

\* The meter holds what was charged and the manifest what was appended,
\* whichever processes open the slot, work in it and die.
THEOREM SlotTells == Spec => []SlotTellsAll
<1>1. Init => SlotInv
  BY SlotInitOK DEF Init
<1>2. SlotInv /\ [Next]_vars => SlotInv'
  <2>1. [Next]_vars => [SlotNext]_slotVars
    BY DEF Next, vars
  <2> QED BY <2>1, SlotStep
<1>3. SlotInv => SlotTellsAll
  BY DEF SlotInv, SlotCounted, SlotExact, SlotTellsAll
<1> QED BY <1>1, <1>2, <1>3, PTL DEF Spec

(***************************************************************************)
(* The delivery of a bundle                                                *)
(*                                                                         *)
(* Nobody copies before the manifest is frozen, and then it stays. What a  *)
(* copier holds is what the manifest says; it has its directory to itself  *)
(* while it writes, and a directory without the manifest file is the only  *)
(* kind that is still written to.                                          *)
(***************************************************************************)
DirRecord == [files : Seq(Nat), manifest : {"none", "whole", "torn"}, extra : BOOLEAN, touched : BOOLEAN]
CopierRecord ==
    [at : {"read", "mkdir", "write", "recheck", "validate", "returned", "failed"},
     held : Seq(Nat), dir : Nat, checked : Nat]

DeliveryTypeOK ==
    /\ approved \in [Path -> Nat]
    /\ manifest \in Seq(Nat) /\ Len(manifest) <= Paths
    /\ saw \in [Copier \cup {"builder"} -> Int]
    /\ dirs \in Seq(DirRecord)
    /\ destination \in 0..Len(dirs)
    /\ copier \in [Copier -> CopierRecord]
    /\ sourceEdits \in Nat /\ bundleMishaps \in Nat

FreezesOnce ==
    /\ saw["builder"] # NotReading => ~Frozen
    /\ \A c \in Copier : saw[c] # NotReading => Frozen /\ copier[c].at = "read"
    /\ \A c \in Copier : copier[c].held # <<>> => Frozen
    /\ \A c \in Copier : copier[c].at # "read" => Frozen
    /\ dirs # <<>> => Frozen

Agrees(s) == \A k \in 1..Len(s) : s[k] = manifest[k]

HoldsFrozen ==
    \A c \in Copier :
        /\ Len(copier[c].held) <= Paths
        /\ Agrees(copier[c].held)
        /\ copier[c].at = "read" => Len(copier[c].held) < Paths
        /\ copier[c].at \in {"mkdir", "write"} => Len(copier[c].held) = Paths

WritesAlone ==
    /\ \A c \in Copier : copier[c].at \in {"write", "recheck", "validate", "returned"} =>
           copier[c].dir \in 1..Len(dirs)
    /\ \A c \in Copier : copier[c].at = "write" => dirs[copier[c].dir].manifest = "none"
    /\ \A c, e \in Copier : copier[c].at = "write" /\ copier[e].at = "write"
                            /\ copier[c].dir = copier[e].dir => c = e
    /\ \A c \in Copier : copier[c].at = "write" /\ ~dirs[copier[c].dir].touched =>
           Agrees(dirs[copier[c].dir].files)
    /\ \A d \in 1..Len(dirs) : Len(dirs[d].files) <= Paths

ValidatesWhole ==
    /\ \A d \in 1..Len(dirs) : dirs[d].manifest = "whole" /\ ~dirs[d].touched =>
           dirs[d].files = manifest
    /\ \A c \in Copier : copier[c].at = "validate" /\ copier[c].checked > 0 =>
           dirs[copier[c].dir].manifest = "whole"
    /\ \A c \in Copier : copier[c].at = "returned" => dirs[copier[c].dir].manifest = "whole"

DeliveryInv == DeliveryTypeOK /\ FreezesOnce /\ HoldsFrozen /\ WritesAlone /\ ValidatesWhole

LEMMA DeliveryAssumed ==
    /\ "builder" \notin Copier
    /\ Paths \in Nat /\ Paths > 0
    /\ Path = 1..Paths
    /\ NotReading \in Int /\ NotReading < 0
BY DeliveryAssumption DEF Path, NotReading

LEMMA DeliveryInitOK == DeliveryInit => DeliveryInv
<1> SUFFICES ASSUME DeliveryInit PROVE DeliveryInv
  OBVIOUS
<1>1. \A c \in Copier : /\ copier[c].at = "read" /\ copier[c].held = <<>> /\ saw[c] = NotReading
                        /\ copier[c] \in CopierRecord
  BY DEF DeliveryInit, NewCopier, CopierRecord
<1>2. DeliveryTypeOK
  BY <1>1, DeliveryAssumed DEF DeliveryInit, DeliveryTypeOK
<1>3. dirs = <<>> /\ saw["builder"] = NotReading
  BY DEF DeliveryInit
<1> QED BY <1>1, <1>2, <1>3, DeliveryAssumed DEF DeliveryInv, FreezesOnce, HoldsFrozen, WritesAlone,
           ValidatesWhole, Agrees

\* A step that leaves manifest, copiers and directories alone.
LEMMA QuietDelivery ==
    ASSUME DeliveryInv, DeliveryTypeOK', UNCHANGED <<manifest, dirs, copier>>,
           FreezesOnce'
    PROVE  DeliveryInv'
BY DEF DeliveryInv, HoldsFrozen, WritesAlone, ValidatesWhole, Agrees

LEMMA BuildStep == DeliveryInv /\ (BuildOpens \/ BuildReads) => DeliveryInv'
<1> SUFFICES ASSUME DeliveryInv, BuildOpens \/ BuildReads PROVE DeliveryInv'
  OBVIOUS
<1> USE DeliveryAssumed DEF Frozen
<1> DEFINE f == Len(manifest) + 1
<1>1. CASE BuildOpens
  <2>1. ~Frozen /\ saw' = [saw EXCEPT !["builder"] = approved[f]] /\ f \in Path
        /\ UNCHANGED <<approved, manifest, dirs, destination, copier, sourceEdits, bundleMishaps>>
    BY <1>1, SeqFacts DEF BuildOpens, Open, DeliveryInv, DeliveryTypeOK
  <2>2. DeliveryTypeOK'
    BY <2>1 DEF DeliveryInv, DeliveryTypeOK
  <2>3. FreezesOnce'
    BY <2>1 DEF DeliveryInv, DeliveryTypeOK, FreezesOnce
  <2> QED BY <2>1, <2>2, <2>3, QuietDelivery
<1>2. CASE BuildReads
  <2>1. /\ ~Frozen /\ saw' = [saw EXCEPT !["builder"] = NotReading] /\ f \in Path
        /\ manifest' = Append(manifest, approved[f]) \/ manifest' = <<>>
        /\ UNCHANGED <<approved, dirs, destination, copier, sourceEdits, bundleMishaps>>
    BY <1>2, SeqFacts DEF BuildReads, Close, DeliveryInv, DeliveryTypeOK, FreezesOnce
  <2>2. manifest' \in Seq(Nat) /\ Len(manifest') <= Paths
    <3>1. manifest \in Seq(Nat) /\ approved[f] \in Nat /\ Len(manifest) + 1 <= Paths
      BY <2>1, SeqFacts DEF DeliveryInv, DeliveryTypeOK
    <3>2. Append(manifest, approved[f]) \in Seq(Nat)
          /\ Len(Append(manifest, approved[f])) = Len(manifest) + 1
      BY <3>1
    <3>3. CASE manifest' = Append(manifest, approved[f])
      BY <3>1, <3>2, <3>3
    <3>4. CASE manifest' = <<>>
      BY <3>4
    <3> QED BY <2>1, <3>3, <3>4
  <2>3. DeliveryTypeOK'
    BY <2>1, <2>2 DEF DeliveryInv, DeliveryTypeOK
  <2>4. \A c \in Copier : /\ saw'[c] = NotReading /\ copier'[c].at = "read"
                          /\ copier'[c].held = <<>>
    BY <2>1 DEF DeliveryInv, DeliveryTypeOK, FreezesOnce
  <2>5. dirs' = <<>> /\ saw'["builder"] = NotReading
    BY <2>1 DEF DeliveryInv, DeliveryTypeOK, FreezesOnce
  <2> QED BY <2>3, <2>4, <2>5 DEF DeliveryInv, FreezesOnce, HoldsFrozen, WritesAlone, ValidatesWhole, Agrees
<1> QED BY <1>1, <1>2

LEMMA CopyOpensStep == ASSUME NEW c \in Copier PROVE DeliveryInv /\ CopyOpens(c) => DeliveryInv'
<1> SUFFICES ASSUME DeliveryInv, CopyOpens(c) PROVE DeliveryInv'
  OBVIOUS
<1> USE DeliveryAssumed
<1> DEFINE f == Len(copier[c].held) + 1
<1>1. /\ Frozen /\ copier[c].at = "read" /\ saw' = [saw EXCEPT ![c] = approved[f]]
      /\ UNCHANGED <<approved, manifest, dirs, destination, copier, sourceEdits, bundleMishaps>>
  BY DEF CopyOpens, Open
<1>2. copier[c] \in CopierRecord
  BY DEF DeliveryInv, DeliveryTypeOK
<1>3. f \in Path
  BY <1>1, <1>2, SeqFacts DEF DeliveryInv, HoldsFrozen, CopierRecord
<1>4. DeliveryTypeOK'
  BY <1>1, <1>3 DEF DeliveryInv, DeliveryTypeOK
<1>5. FreezesOnce'
  BY <1>1 DEF DeliveryInv, DeliveryTypeOK, FreezesOnce, Frozen
<1> QED BY <1>1, <1>4, <1>5, QuietDelivery

LEMMA CopyReadsStep == ASSUME NEW c \in Copier PROVE DeliveryInv /\ CopyReads(c) => DeliveryInv'
<1> SUFFICES ASSUME DeliveryInv, CopyReads(c) PROVE DeliveryInv'
  OBVIOUS
<1> USE DeliveryAssumed
<1> DEFINE f == Len(copier[c].held) + 1
           good == UnchangedSinceOpen(c, f) /\ Matches(f, approved[f])
           held == Append(copier[c].held, approved[f])
           new == copier'[c]
<1>1. /\ Frozen /\ copier[c].at = "read" /\ saw[c] # NotReading
      /\ saw' = [saw EXCEPT ![c] = NotReading]
      /\ UNCHANGED <<approved, manifest, dirs, destination, sourceEdits, bundleMishaps>>
  BY DEF CopyReads, Close, DeliveryInv, FreezesOnce
<1>2. copier[c] \in CopierRecord /\ copier[c].held \in Seq(Nat)
  BY DEF DeliveryInv, DeliveryTypeOK, CopierRecord
<1>3. f \in Path /\ f \in Nat
  BY <1>1, <1>2, SeqFacts DEF DeliveryInv, HoldsFrozen
<1>4. approved[f] \in Nat /\ (good => approved[f] = manifest[f])
  BY <1>3 DEF DeliveryInv, DeliveryTypeOK, Matches
<1>5. /\ held \in Seq(Nat) /\ Len(held) = f /\ held[f] = approved[f]
      /\ \A k \in 1..Len(copier[c].held) : held[k] = copier[c].held[k]
  BY <1>2, <1>4, SeqFacts
<1>6. /\ copier' = [e \in Copier |-> copier'[e]]
      /\ \A e \in Copier : e # c => copier'[e] = copier[e]
  BY DEF CopyReads, DeliveryInv, DeliveryTypeOK
<1>7. /\ new \in CopierRecord /\ new.at \in {"read", "mkdir", "failed"}
      /\ Len(new.held) <= Paths /\ Agrees(new.held)
      /\ new.at = "read" => Len(new.held) < Paths
      /\ new.at = "mkdir" => Len(new.held) = Paths
  <2>1. CASE good
    <3>1. /\ new.held = held /\ new.at = IF f = Paths THEN "mkdir" ELSE "read"
          /\ new \in CopierRecord
      <4>1. new.held = held
        BY <2>1 DEF CopyReads, DeliveryInv, DeliveryTypeOK
      <4>2. new.at = IF f = Paths THEN "mkdir" ELSE "read"
        BY <2>1 DEF CopyReads, DeliveryInv, DeliveryTypeOK
      <4>3. new \in CopierRecord
        BY <1>2, <1>5, <2>1 DEF CopyReads, DeliveryInv, DeliveryTypeOK, CopierRecord
      <4> QED BY <4>1, <4>2, <4>3
    <3>2. Agrees(copier[c].held) /\ Len(copier[c].held) \in Nat
      BY <1>2, SeqFacts DEF DeliveryInv, HoldsFrozen
    <3> HIDE DEF held
    <3>3. Agrees(held)
      <4>1. \A k \in 1..f : k = f \/ k \in 1..Len(copier[c].held)
        BY <1>2, <3>2
      <4>2. \A k \in 1..Len(copier[c].held) : copier[c].held[k] = manifest[k]
        BY <3>2 DEF Agrees
      <4>3. approved[f] = manifest[f]
        BY <1>4, <2>1
      <4> QED BY ONLY <1>5, <4>1, <4>2, <4>3 DEF Agrees
    <3> HIDE DEF f, good
    <3> QED BY <1>3, <1>5, <3>1, <3>3
  <2>2. CASE ~good
    <3>1. new \in CopierRecord /\ new.held = copier[c].held /\ new.at = "failed"
      BY <1>2, <2>2 DEF CopyReads, DeliveryInv, DeliveryTypeOK, CopierRecord
    <3> QED BY <3>1 DEF DeliveryInv, HoldsFrozen
  <2> QED BY <2>1, <2>2
<1> HIDE DEF held, good
<1>8. DeliveryTypeOK'
  BY <1>1, <1>6, <1>7 DEF DeliveryInv, DeliveryTypeOK
<1>9. FreezesOnce'
  BY <1>1, <1>6, <1>7 DEF DeliveryInv, DeliveryTypeOK, FreezesOnce, Frozen
<1>10. HoldsFrozen'
  BY <1>1, <1>6, <1>7 DEF DeliveryInv, HoldsFrozen, Agrees
<1>11. WritesAlone'
  BY <1>1, <1>6, <1>7 DEF DeliveryInv, WritesAlone, Agrees
<1>12. ValidatesWhole'
  BY <1>1, <1>6, <1>7 DEF DeliveryInv, ValidatesWhole
<1> QED BY <1>8, <1>9, <1>10, <1>11, <1>12 DEF DeliveryInv

\* A copier goes on, to a place that is behind the writing, or gives up.
LEMMA CopierMoves ==
    ASSUME DeliveryInv, NEW c \in Copier, NEW n \in CopierRecord,
           copier' = [copier EXCEPT ![c] = n],
           UNCHANGED <<approved, manifest, saw, dirs>>, destination' \in 0..Len(dirs),
           sourceEdits' \in Nat, bundleMishaps' \in Nat,
           copier[c].at # "read", n.held = copier[c].held,
           n.at \in {"recheck", "validate", "returned", "failed"},
           n.at # "failed" => n.dir \in 1..Len(dirs),
           n.at = "returned" \/ (n.at = "validate" /\ n.checked > 0) =>
               dirs[n.dir].manifest = "whole"
    PROVE  DeliveryInv'
<1>1. copier'[c] = n /\ \A e \in Copier : e # c => copier'[e] = copier[e]
  BY DEF DeliveryInv, DeliveryTypeOK
<1>2. DeliveryTypeOK'
  BY DEF DeliveryInv, DeliveryTypeOK
<1>3. FreezesOnce'
  BY <1>1 DEF DeliveryInv, DeliveryTypeOK, FreezesOnce, Frozen
<1>4. HoldsFrozen'
  BY <1>1 DEF DeliveryInv, HoldsFrozen, Agrees
<1>5. WritesAlone'
  BY <1>1 DEF DeliveryInv, WritesAlone, Agrees
<1>6. ValidatesWhole'
  BY <1>1 DEF DeliveryInv, ValidatesWhole
<1> QED BY <1>2, <1>3, <1>4, <1>5, <1>6 DEF DeliveryInv

\* What is written to a directory that one copier writes to alone.
LEMMA DirectoryStep ==
    ASSUME DeliveryInv, NEW c \in Copier, copier[c].at = "write",
           NEW d \in DirRecord, dirs' = [dirs EXCEPT ![copier[c].dir] = d],
           UNCHANGED <<approved, manifest, saw, destination>>,
           sourceEdits' \in Nat, bundleMishaps' \in Nat,
           NEW n \in CopierRecord, copier' = [copier EXCEPT ![c] = n],
           n.held = copier[c].held, n.dir = copier[c].dir, n.at \in {"write", "recheck", "failed"},
           Len(d.files) <= Paths, d.touched = dirs[copier[c].dir].touched,
           n.at = "write" => d.manifest = "none" /\ (~d.touched => Agrees(d.files)),
           d.manifest = "whole" /\ ~d.touched => d.files = manifest
    PROVE  DeliveryInv'
<1> DEFINE k == copier[c].dir
<1>1. copier'[c] = n /\ \A e \in Copier : e # c => copier'[e] = copier[e]
  BY DEF DeliveryInv, DeliveryTypeOK
<1>2. dirs \in Seq(DirRecord) /\ k \in 1..Len(dirs)
  BY DEF DeliveryInv, DeliveryTypeOK, WritesAlone
<1>3. /\ dirs' \in Seq(DirRecord) /\ Len(dirs') = Len(dirs) /\ dirs'[k] = d
      /\ \A j \in 1..Len(dirs) : j # k => dirs'[j] = dirs[j]
  <2> HIDE DEF k
  <2>1. dirs' = [dirs EXCEPT ![k] = d]
    BY DEF k
  <2>2. /\ [dirs EXCEPT ![k] = d] \in Seq(DirRecord) /\ Len([dirs EXCEPT ![k] = d]) = Len(dirs)
        /\ [dirs EXCEPT ![k] = d][k] = d
        /\ \A j \in 1..Len(dirs) : j # k => [dirs EXCEPT ![k] = d][j] = dirs[j]
    BY <1>2, SeqUpdate
  <2> QED BY <2>1, <2>2
<1>4. DeliveryTypeOK'
  BY <1>3 DEF DeliveryInv, DeliveryTypeOK
<1>5. FreezesOnce'
  BY <1>1, <1>2, <1>3 DEF DeliveryInv, DeliveryTypeOK, FreezesOnce, Frozen
<1>6. HoldsFrozen'
  BY <1>1 DEF DeliveryInv, HoldsFrozen, Agrees
<1>7. dirs[k].manifest = "none"
  BY DEF DeliveryInv, WritesAlone
<1>8. \A e \in Copier : e # c /\ copier[e].at = "write" => copier[e].dir # k
  BY DEF DeliveryInv, WritesAlone
<1> HIDE DEF k
<1>9. n.dir = k /\ copier[c].dir = k
  BY DEF k
<1>10. WritesAlone'
  BY <1>1, <1>3, <1>8, <1>9 DEF DeliveryInv, WritesAlone, Agrees
<1>11. ValidatesWhole'
  <2>1. \A e \in Copier : e # c /\ (copier[e].at = "returned" \/ (copier[e].at = "validate" /\ copier[e].checked > 0))
           => copier[e].dir # k
    BY <1>7 DEF DeliveryInv, ValidatesWhole
  <2>2. \A e \in Copier : copier[e].at \in {"validate", "returned"} => copier[e].dir \in 1..Len(dirs)
    BY DEF DeliveryInv, WritesAlone
  <2>3. ASSUME NEW j \in 1..Len(dirs'), dirs'[j].manifest = "whole", ~dirs'[j].touched
        PROVE  dirs'[j].files = manifest'
    <3>1. CASE j = k
      BY <1>3, <2>3, <3>1
    <3>2. CASE j # k
      BY <1>3, <2>3, <3>2 DEF DeliveryInv, ValidatesWhole
    <3> QED BY <3>1, <3>2
  <2>4. ASSUME NEW e \in Copier,
               copier'[e].at = "returned" \/ (copier'[e].at = "validate" /\ copier'[e].checked > 0)
        PROVE  dirs'[copier'[e].dir].manifest = "whole"
    <3>1. e # c /\ copier'[e] = copier[e]
      BY <1>1, <2>4
    <3>2. copier[e].dir \in 1..Len(dirs) /\ copier[e].dir # k
      BY <2>1, <2>2, <2>4, <3>1
    <3> QED BY <1>3, <2>4, <3>1, <3>2 DEF DeliveryInv, ValidatesWhole
  <2>5. (\A j \in 1..Len(dirs) : dirs[j].manifest = "whole" /\ ~dirs[j].touched => dirs[j].files = manifest)'
    BY <2>3
  <2>6. (\A e \in Copier : copier[e].at = "validate" /\ copier[e].checked > 0 =>
            dirs[copier[e].dir].manifest = "whole")'
    BY <2>4
  <2>7. (\A e \in Copier : copier[e].at = "returned" => dirs[copier[e].dir].manifest = "whole")'
    BY <2>4
  <2> QED BY <2>5, <2>6, <2>7 DEF ValidatesWhole
<1> QED BY <1>4, <1>5, <1>6, <1>10, <1>11 DEF DeliveryInv

LEMMA MakeDestinationStep == ASSUME NEW c \in Copier PROVE DeliveryInv /\ MakeDestination(c) => DeliveryInv'
<1> SUFFICES ASSUME DeliveryInv, MakeDestination(c) PROVE DeliveryInv'
  OBVIOUS
<1>1. copier[c] \in CopierRecord /\ copier[c].at = "mkdir" /\ dirs \in Seq(DirRecord)
      /\ UNCHANGED <<approved, manifest, saw, sourceEdits, bundleMishaps>>
  BY DEF MakeDestination, DeliveryInv, DeliveryTypeOK
<1>2. CASE destination # 0
  <2> DEFINE n == [copier[c] EXCEPT !.at = "failed"]
  <2>1. copier' = [copier EXCEPT ![c] = n] /\ UNCHANGED <<dirs, destination>>
    BY <1>2 DEF MakeDestination
  <2>2. n \in CopierRecord /\ n.at = "failed" /\ n.held = copier[c].held
    BY <1>1 DEF CopierRecord
  <2> HIDE DEF n
  <2> QED BY <1>1, <2>1, <2>2, CopierMoves DEF DeliveryInv, DeliveryTypeOK
<1>3. CASE destination = 0
  <2> DEFINE l == Len(dirs) + 1
  <2>1. /\ dirs' = Append(dirs, NewDir) /\ destination' = l
        /\ copier' = [copier EXCEPT ![c].at = "write", ![c].dir = l]
    BY <1>3 DEF MakeDestination
  <2>2. NewDir \in DirRecord /\ NewDir.files = <<>> /\ NewDir.manifest = "none" /\ ~NewDir.touched
    BY DEF NewDir, DirRecord
  <2>3. /\ dirs' \in Seq(DirRecord) /\ Len(dirs') = l /\ l \in Nat /\ l > 0 /\ dirs'[l] = NewDir
        /\ Len(dirs) = l - 1
        /\ \A j \in 1..Len(dirs) : dirs'[j] = dirs[j]
    BY <1>1, <2>1, <2>2, SeqFacts
  <2> HIDE DEF l
  <2>4. /\ copier' \in [Copier -> CopierRecord]
        /\ copier'[c].at = "write" /\ copier'[c].dir = l /\ copier'[c].held = copier[c].held
        /\ \A e \in Copier : e # c => copier'[e] = copier[e]
    <3>1. copier \in [Copier -> CopierRecord]
      BY DEF DeliveryInv, DeliveryTypeOK
    <3>2. copier'[c].at = "write" /\ copier'[c].dir = l /\ copier'[c].held = copier[c].held
      BY <2>1, <3>1 DEF CopierRecord
    <3>3. \A e \in Copier : e # c => copier'[e] = copier[e]
      BY <2>1, <3>1
    <3>5. PICK k \in Nat : k = l
      BY <2>3
    <3>6. \A q \in CopierRecord : [q EXCEPT !.at = "write", !.dir = k] \in CopierRecord
      BY DEF CopierRecord
    <3>7. copier' = [copier EXCEPT ![c] = [copier[c] EXCEPT !.at = "write", !.dir = k]]
      BY <2>1, <3>1, <3>5
    <3>4. copier' \in [Copier -> CopierRecord]
      BY ONLY <3>1, <3>6, <3>7
    <3> QED BY <3>2, <3>3, <3>4
  <2>5. DeliveryTypeOK'
    BY <1>1, <2>1, <2>3, <2>4 DEF DeliveryInv, DeliveryTypeOK
  <2>6. Frozen /\ saw[c] = NotReading
    BY <1>1 DEF DeliveryInv, FreezesOnce
  <2>7. FreezesOnce'
    BY <1>1, <2>4, <2>6 DEF DeliveryInv, DeliveryTypeOK, FreezesOnce, Frozen
  <2>8. HoldsFrozen'
    BY <1>1, <2>4 DEF DeliveryInv, HoldsFrozen, Agrees
  <2>9. \A e \in Copier : e # c /\ copier[e].at \in {"write", "recheck", "validate", "returned"} =>
           copier[e].dir \in 1..Len(dirs) /\ copier[e].dir # l
    BY <2>3 DEF DeliveryInv, WritesAlone
  <2>10. WritesAlone'
    <3>1. \A e \in Copier : copier[e].at = "write" => e = c \/ copier[e].at \in {"write", "recheck", "validate", "returned"}
      OBVIOUS
    <3>2. \A e \in Copier : copier'[e].at \in {"write", "recheck", "validate", "returned"} =>
             copier'[e].dir \in 1..Len(dirs')
      BY <2>3, <2>4, <2>9
    <3>3. \A e \in Copier : copier'[e].at = "write" /\ e # c =>
             /\ copier'[e] = copier[e] /\ copier[e].at = "write"
             /\ copier[e].dir \in 1..Len(dirs) /\ copier[e].dir # l
             /\ dirs'[copier[e].dir] = dirs[copier[e].dir]
      BY <2>3, <2>4, <2>9
    <3>4. dirs'[l].manifest = "none" /\ dirs'[l].files = <<>>
      BY <2>2, <2>3
    <3>5. \A e \in Copier : copier'[e].at = "write" => dirs'[copier'[e].dir].manifest = "none"
      BY <2>4, <3>3, <3>4 DEF DeliveryInv, WritesAlone
    <3>6. \A e, g \in Copier : copier'[e].at = "write" /\ copier'[g].at = "write"
                            /\ copier'[e].dir = copier'[g].dir => e = g
      BY <2>4, <3>3 DEF DeliveryInv, WritesAlone
    <3>7. \A e \in Copier : copier'[e].at = "write" /\ ~dirs'[copier'[e].dir].touched =>
             Agrees(dirs[copier[e].dir].files)'
      <4> SUFFICES ASSUME NEW e \in Copier, copier'[e].at = "write", ~dirs'[copier'[e].dir].touched
                   PROVE  Agrees(dirs[copier[e].dir].files)'
        OBVIOUS
      <4>1. CASE e = c
        <5>1. dirs'[copier'[e].dir].files = <<>>
          BY <2>4, <3>4, <4>1
        <5> QED BY <5>1 DEF Agrees
      <4>2. CASE e # c
        <5>1. PICK s : s = dirs[copier[e].dir].files /\ s = dirs'[copier'[e].dir].files
          BY <3>3, <4>2
        <5>2. Agrees(s)
          BY <3>3, <4>2, <5>1 DEF DeliveryInv, WritesAlone
        <5> QED BY <1>1, <5>1, <5>2 DEF Agrees
      <4> QED BY <4>1, <4>2
    <3>8. \A k \in 1..Len(dirs') : Len(dirs'[k].files) <= Paths
      BY <2>3, <3>4, DeliveryAssumed DEF DeliveryInv, WritesAlone
    <3> QED BY ONLY <3>2, <3>5, <3>6, <3>7, <3>8 DEF WritesAlone, Agrees
  <2>11. ValidatesWhole'
    BY <1>1, <2>2, <2>3, <2>4, <2>9 DEF DeliveryInv, ValidatesWhole
  <2> QED BY <2>5, <2>7, <2>8, <2>10, <2>11 DEF DeliveryInv
<1> QED BY <1>2, <1>3

\* What is known of a copier that writes and of its directory.
LEMMA WriterFacts ==
    ASSUME DeliveryInv, NEW c \in Copier, copier[c].at = "write"
    PROVE  /\ copier[c] \in CopierRecord /\ copier[c].dir \in 1..Len(dirs)
           /\ Inside(c) \in DirRecord /\ Inside(c).files \in Seq(Nat)
           /\ Inside(c).manifest = "none"
           /\ Len(Inside(c).files) \in Nat /\ Len(Inside(c).files) <= Paths
           /\ ~Inside(c).touched => Agrees(Inside(c).files)
           /\ copier[c].held = manifest /\ Len(manifest) = Paths /\ manifest \in Seq(Nat)
<1>1. copier[c] \in CopierRecord /\ copier[c].held \in Seq(Nat) /\ manifest \in Seq(Nat)
      /\ Len(copier[c].held) = Paths /\ Agrees(copier[c].held) /\ Len(manifest) = Paths
  BY DEF DeliveryInv, DeliveryTypeOK, CopierRecord, HoldsFrozen, FreezesOnce, Frozen
<1>2. copier[c].held = manifest
  <2>1. PICK h \in Seq(Nat) : h = copier[c].held
    BY <1>1
  <2>2. Len(h) = Len(manifest) /\ \A k \in 1..Len(h) : h[k] = manifest[k]
    BY <1>1, <2>1 DEF Agrees
  <2>3. h = manifest
    BY ONLY <1>1, <2>2, SMT
  <2> QED BY <2>1, <2>3
<1>3. copier[c].dir \in 1..Len(dirs) /\ dirs \in Seq(DirRecord)
  BY DEF DeliveryInv, DeliveryTypeOK, WritesAlone
<1>4. Inside(c) \in DirRecord
  BY <1>3 DEF Inside
<1>5. Inside(c).files \in Seq(Nat)
  BY <1>4 DEF DirRecord
<1> QED BY <1>1, <1>2, <1>3, <1>4, <1>5 DEF DeliveryInv, WritesAlone, Inside

LEMMA WriteFileStep == ASSUME NEW c \in Copier PROVE DeliveryInv /\ WriteFile(c) => DeliveryInv'
<1> SUFFICES ASSUME DeliveryInv, WriteFile(c) PROVE DeliveryInv'
  OBVIOUS
<1> DEFINE files == Inside(c).files
           more == Append(files, copier[c].held[Len(files) + 1])
           d == [Inside(c) EXCEPT !.files = more]
<1>1. /\ copier[c].at = "write" /\ Len(files) < Paths
      /\ UNCHANGED <<approved, manifest, saw, destination, copier, sourceEdits, bundleMishaps>>
  BY DEF WriteFile
<1>2. dirs' = [dirs EXCEPT ![copier[c].dir] = d]
  BY DEF WriteFile, Inside
<1>3. Len(files) + 1 \in 1..Paths /\ manifest[Len(files) + 1] \in Nat
  BY <1>1, WriterFacts, DeliveryAssumed
<1>4. /\ more \in Seq(Nat) /\ Len(more) = Len(files) + 1
      /\ more[Len(files) + 1] = manifest[Len(files) + 1]
      /\ \A k \in 1..Len(files) : more[k] = files[k]
  <2>1. PICK x \in Nat : x = copier[c].held[Len(files) + 1] /\ x = manifest[Len(files) + 1]
    BY <1>1, <1>3, WriterFacts
  <2>2. PICK s \in Seq(Nat) : s = files
    BY <1>1, WriterFacts
  <2>3. more = Append(s, x)
    BY <2>1, <2>2
  <2> HIDE DEF more
  <2> QED BY <2>1, <2>2, <2>3, SeqFacts
<1>5. ~Inside(c).touched => Agrees(more)
  <2>1. Len(files) \in Nat /\ (~Inside(c).touched => Agrees(files))
    BY <1>1, WriterFacts
  <2>2. \A k \in 1..Len(files) + 1 : k = Len(files) + 1 \/ k \in 1..Len(files)
    BY <2>1
  <2> HIDE DEF more
  <2> QED BY <1>4, <2>1, <2>2 DEF Agrees
<1> HIDE DEF more
<1>6. d \in DirRecord /\ d.files = more /\ d.manifest = "none" /\ d.touched = Inside(c).touched
  BY <1>1, <1>4, WriterFacts DEF DirRecord
<1> HIDE DEF d
<1>7. copier' = [copier EXCEPT ![c] = copier[c]] /\ copier[c] \in CopierRecord
  BY <1>1 DEF DeliveryInv, DeliveryTypeOK
<1>8. Len(d.files) <= Paths /\ d.touched = dirs[copier[c].dir].touched
  <2>1. Len(d.files) <= Paths
    BY <1>3, <1>4, <1>6, DeliveryAssumed
  <2> QED BY <1>6, <2>1 DEF Inside
<1>9. sourceEdits' \in Nat /\ bundleMishaps' \in Nat
  BY <1>1 DEF DeliveryInv, DeliveryTypeOK
<1> QED BY <1>1, <1>2, <1>5, <1>6, <1>7, <1>8, <1>9, DirectoryStep

LEMMA WriteManifestStep == ASSUME NEW c \in Copier PROVE DeliveryInv /\ WriteManifest(c) => DeliveryInv'
<1> SUFFICES ASSUME DeliveryInv, WriteManifest(c) PROVE DeliveryInv'
  OBVIOUS
<1> DEFINE d == [Inside(c) EXCEPT !.manifest = "whole"]
           n == [copier[c] EXCEPT !.at = "recheck"]
<1>1. /\ copier[c].at = "write" /\ Len(Inside(c).files) = Paths
      /\ UNCHANGED <<approved, manifest, saw, destination, sourceEdits, bundleMishaps>>
      /\ dirs' = [dirs EXCEPT ![copier[c].dir] = d] /\ copier' = [copier EXCEPT ![c] = n]
  BY DEF WriteManifest, Inside
<1>2. /\ d \in DirRecord /\ d.files = Inside(c).files /\ d.manifest = "whole"
      /\ d.touched = Inside(c).touched
  BY <1>1, WriterFacts DEF DirRecord
<1>3. n \in CopierRecord /\ n.at = "recheck" /\ n.held = copier[c].held /\ n.dir = copier[c].dir
  BY <1>1, WriterFacts DEF CopierRecord
<1> HIDE DEF d, n
<1>4. ~d.touched => d.files = manifest
  <2>1. SUFFICES ASSUME ~d.touched PROVE Inside(c).files = manifest
    BY <1>2
  <2>2. Agrees(Inside(c).files) /\ Inside(c).files \in Seq(Nat) /\ Len(Inside(c).files) = Paths
    BY <1>1, <1>2, <2>1, WriterFacts
  <2>3. manifest \in Seq(Nat) /\ Len(manifest) = Paths
    BY <1>1, WriterFacts
  <2> QED BY <2>2, <2>3 DEF Agrees
<1>5. Len(d.files) <= Paths /\ d.touched = dirs[copier[c].dir].touched
  BY <1>1, <1>2, WriterFacts, DeliveryAssumed DEF Inside
<1>6. sourceEdits' \in Nat /\ bundleMishaps' \in Nat
  BY <1>1 DEF DeliveryInv, DeliveryTypeOK
<1> QED BY <1>1, <1>2, <1>3, <1>4, <1>5, <1>6, DirectoryStep

LEMMA BreakOffStep == ASSUME NEW c \in Copier PROVE DeliveryInv /\ BreakOff(c) => DeliveryInv'
<1> SUFFICES ASSUME DeliveryInv, BreakOff(c) PROVE DeliveryInv'
  OBVIOUS
<1> DEFINE n == [copier[c] EXCEPT !.at = "failed"]
<1>1. /\ copier[c].at \in {"write", "recheck", "validate"}
      /\ UNCHANGED <<approved, manifest, saw, destination, sourceEdits>>
      /\ copier' = [copier EXCEPT ![c] = n] /\ bundleMishaps' = bundleMishaps + 1
  BY DEF BreakOff
<1>2. n \in CopierRecord /\ n.at = "failed" /\ n.held = copier[c].held /\ n.dir = copier[c].dir
  <2>1. copier[c] \in CopierRecord
    BY DEF DeliveryInv, DeliveryTypeOK
  <2> QED BY <2>1 DEF CopierRecord
<1> HIDE DEF n
<1>3. sourceEdits' \in Nat /\ bundleMishaps' \in Nat /\ destination' \in 0..Len(dirs)
  BY <1>1 DEF DeliveryInv, DeliveryTypeOK
<1>4. CASE UNCHANGED dirs
  BY <1>1, <1>2, <1>3, <1>4, CopierMoves
<1>5. CASE ~UNCHANGED dirs
  <2> DEFINE files == Inside(c).files
             d == IF Len(files) < Paths THEN [Inside(c) EXCEPT !.files = Append(files, Foreign)]
                  ELSE [Inside(c) EXCEPT !.manifest = "torn"]
  <2>1. copier[c].at = "write" /\ dirs' = [dirs EXCEPT ![copier[c].dir] = d]
    <3>1. copier[c].at = "write" /\ dirs' = [dirs EXCEPT ![copier[c].dir] =
                IF Len(@.files) < Paths THEN [@ EXCEPT !.files = Append(Inside(c).files, Foreign)]
                ELSE [@ EXCEPT !.manifest = "torn"]]
      BY <1>5 DEF BreakOff
    <3>2. CASE Len(files) < Paths
      BY <3>1, <3>2 DEF Inside
    <3>3. CASE ~(Len(files) < Paths)
      BY <3>1, <3>3 DEF Inside
    <3> QED BY <3>2, <3>3
  <2>2. Append(files, Foreign) \in Seq(Nat) /\ Len(Append(files, Foreign)) = Len(files) + 1
    BY <2>1, WriterFacts DEF Foreign
  <2>3. /\ d \in DirRecord /\ Len(d.files) <= Paths /\ d.manifest \in {"none", "torn"}
        /\ d.touched = Inside(c).touched
    <3>1. CASE Len(files) < Paths
      <4> DEFINE e == [Inside(c) EXCEPT !.files = Append(files, Foreign)]
      <4>1. /\ e \in DirRecord /\ e.files = Append(files, Foreign) /\ e.manifest = "none"
            /\ e.touched = Inside(c).touched
        BY <2>1, <2>2, WriterFacts DEF DirRecord
      <4>2. d = e
        BY <3>1
      <4>3. Len(files) + 1 <= Paths
        BY <2>1, <3>1, WriterFacts, DeliveryAssumed
      <4> HIDE DEF d, e
      <4> QED BY <2>2, <4>1, <4>2, <4>3
    <3>2. CASE ~(Len(files) < Paths)
      <4> DEFINE e == [Inside(c) EXCEPT !.manifest = "torn"]
      <4>1. /\ e \in DirRecord /\ e.files = files /\ e.manifest = "torn"
            /\ e.touched = Inside(c).touched
        BY <2>1, WriterFacts DEF DirRecord
      <4>2. d = e
        BY <3>2
      <4> HIDE DEF d, e
      <4> QED BY <2>1, <4>1, <4>2, WriterFacts
    <3> QED BY <3>1, <3>2
  <2> HIDE DEF d
  <2>4. d.touched = dirs[copier[c].dir].touched
    BY <2>3 DEF Inside
  <2> QED BY <1>1, <1>2, <1>3, <2>1, <2>3, <2>4, DirectoryStep
<1> QED BY <1>4, <1>5

LEMMA CheckNextStep == ASSUME NEW c \in Copier PROVE DeliveryInv /\ CheckNext(c) => DeliveryInv'
<1> SUFFICES ASSUME DeliveryInv, CheckNext(c) PROVE DeliveryInv'
  OBVIOUS
<1> DEFINE f == copier[c].checked + 1
           ahead == [copier[c] EXCEPT !.checked = f]
           over == [copier[c] EXCEPT !.at = "failed"]
           seen == f = 1 => copier[c].at = "recheck" \/ Inside(c).manifest = "whole"
<1>1. /\ copier[c].at \in {"recheck", "validate"}
      /\ UNCHANGED <<approved, manifest, saw, dirs, destination, sourceEdits, bundleMishaps>>
      /\ \/ seen /\ copier' = [copier EXCEPT ![c] = ahead]
         \/ copier' = [copier EXCEPT ![c] = over]
  BY DEF CheckNext
<1>2. copier[c] \in CopierRecord /\ copier[c].dir \in 1..Len(dirs)
  BY <1>1 DEF DeliveryInv, DeliveryTypeOK, WritesAlone
<1>3. /\ ahead \in CopierRecord /\ ahead.at = copier[c].at /\ ahead.held = copier[c].held
      /\ ahead.dir = copier[c].dir
  BY <1>2 DEF CopierRecord
<1>4. over \in CopierRecord /\ over.at = "failed" /\ over.held = copier[c].held
  BY <1>2 DEF CopierRecord
<1>5. seen /\ copier[c].at = "validate" => Inside(c).manifest = "whole"
  BY <1>1, <1>2 DEF DeliveryInv, ValidatesWhole, Inside, CopierRecord
<1>6. sourceEdits' \in Nat /\ bundleMishaps' \in Nat /\ destination' \in 0..Len(dirs)
  BY <1>1 DEF DeliveryInv, DeliveryTypeOK
<1> HIDE DEF ahead, over
<1>7. CASE seen /\ copier' = [copier EXCEPT ![c] = ahead]
  <2>1. ahead.at = "validate" => dirs[ahead.dir].manifest = "whole"
    BY <1>3, <1>5, <1>7 DEF Inside
  <2> QED BY <1>1, <1>2, <1>3, <1>6, <1>7, <2>1, CopierMoves
<1>8. CASE copier' = [copier EXCEPT ![c] = over]
  BY <1>1, <1>2, <1>4, <1>6, <1>8, CopierMoves
<1> QED BY <1>1, <1>7, <1>8

LEMMA ValidateBundleStep == ASSUME NEW c \in Copier PROVE DeliveryInv /\ ValidateBundle(c) => DeliveryInv'
<1> SUFFICES ASSUME DeliveryInv, ValidateBundle(c) PROVE DeliveryInv'
  OBVIOUS
<1>1. /\ copier[c].at = "recheck"
      /\ UNCHANGED <<approved, manifest, saw, dirs, destination, sourceEdits, bundleMishaps>>
  BY DEF ValidateBundle
<1>2. copier \in [Copier -> CopierRecord] /\ destination \in 0..Len(dirs)
  BY DEF DeliveryInv, DeliveryTypeOK
<1>3. PICK x : /\ x = [copier[c] EXCEPT !.at = IF destination = 0 THEN "failed" ELSE "validate",
                                        !.dir = destination, !.checked = 0]
               /\ copier' = [copier EXCEPT ![c] = x]
  BY DEF ValidateBundle
<1>4. /\ x.at = (IF destination = 0 THEN "failed" ELSE "validate") /\ x.dir = destination
      /\ x.checked = 0 /\ x.held = copier[c].held /\ x \in CopierRecord
  <2>1. copier[c] \in CopierRecord /\ destination \in Nat
    BY <1>2 DEF DeliveryInv, DeliveryTypeOK
  <2> QED BY <1>3, <2>1 DEF CopierRecord
<1>5. /\ copier' = [copier EXCEPT ![c] = x] /\ copier[c].at # "read"
      /\ x.at \in {"recheck", "validate", "returned", "failed"}
      /\ x.at # "failed" => x.dir \in 1..Len(dirs)
      /\ ~(x.at = "returned" \/ (x.at = "validate" /\ x.checked > 0))
  BY <1>1, <1>2, <1>3, <1>4
<1>6. sourceEdits' \in Nat /\ bundleMishaps' \in Nat /\ destination' \in 0..Len(dirs)
  BY <1>1 DEF DeliveryInv, DeliveryTypeOK
<1>7. x \in CopierRecord /\ x.held = copier[c].held
  BY <1>4
<1> QED BY <1>1, <1>5, <1>6, <1>7, CopierMoves

LEMMA ReturnDestinationStep ==
    ASSUME NEW c \in Copier PROVE DeliveryInv /\ ReturnDestination(c) => DeliveryInv'
<1> SUFFICES ASSUME DeliveryInv, ReturnDestination(c) PROVE DeliveryInv'
  OBVIOUS
<1> DEFINE n == [copier[c] EXCEPT !.at = "returned"]
<1>1. /\ copier[c].at = "validate" /\ copier[c].checked = Paths
      /\ UNCHANGED <<approved, manifest, saw, dirs, destination, sourceEdits, bundleMishaps>>
      /\ copier' = [copier EXCEPT ![c] = n]
  BY DEF ReturnDestination
<1>2. copier[c] \in CopierRecord /\ copier[c].dir \in 1..Len(dirs)
  BY <1>1 DEF DeliveryInv, DeliveryTypeOK, WritesAlone
<1>3. n \in CopierRecord /\ n.at = "returned" /\ n.held = copier[c].held /\ n.dir = copier[c].dir
  BY <1>2 DEF CopierRecord
<1>4. dirs[copier[c].dir].manifest = "whole"
  BY <1>1, DeliveryAssumed DEF DeliveryInv, ValidatesWhole
<1>5. sourceEdits' \in Nat /\ bundleMishaps' \in Nat /\ destination' \in 0..Len(dirs)
  BY <1>1 DEF DeliveryInv, DeliveryTypeOK
<1> HIDE DEF n
<1> QED BY <1>1, <1>2, <1>3, <1>4, <1>5, CopierMoves

LEMMA OthersStep ==
    DeliveryInv /\ ((\E f \in Path : EditApproved(f)) \/ RemoveDestination) => DeliveryInv'
<1> SUFFICES ASSUME DeliveryInv, (\E f \in Path : EditApproved(f)) \/ RemoveDestination PROVE DeliveryInv'
  OBVIOUS
<1>1. UNCHANGED <<manifest, saw, dirs, copier>>
  BY DEF EditApproved, RemoveDestination
<1>2. ASSUME NEW f \in Path, EditApproved(f) PROVE DeliveryTypeOK'
  BY <1>2 DEF EditApproved, DeliveryInv, DeliveryTypeOK
<1>3. CASE RemoveDestination
  BY <1>3 DEF RemoveDestination, DeliveryInv, DeliveryTypeOK, FreezesOnce, HoldsFrozen, WritesAlone,
     ValidatesWhole, Agrees, Frozen
<1>4. CASE \E f \in Path : EditApproved(f)
  <2>1. FreezesOnce'
    BY <1>1 DEF DeliveryInv, FreezesOnce, Frozen
  <2> QED BY <1>1, <1>2, <1>4, <2>1, QuietDelivery
<1> QED BY <1>3, <1>4

LEMMA EditDestinationStep == DeliveryInv /\ EditDestination => DeliveryInv'
<1> SUFFICES ASSUME DeliveryInv, EditDestination PROVE DeliveryInv'
  OBVIOUS
<1> DEFINE k == destination
<1>1. /\ k # 0 /\ bundleMishaps' = bundleMishaps + 1
      /\ UNCHANGED <<approved, manifest, saw, destination, copier, sourceEdits>>
  BY DEF EditDestination
<1>2. dirs \in Seq(DirRecord) /\ k \in 1..Len(dirs) /\ dirs[k] \in DirRecord
  BY <1>1 DEF DeliveryInv, DeliveryTypeOK
<1> DEFINE Edited(x) == /\ x \in DirRecord /\ Len(x.files) = Len(dirs[k].files)
                        /\ x.manifest = dirs[k].manifest /\ x.touched
                        /\ dirs' = [dirs EXCEPT ![k] = x]
<1>3. ASSUME dirs' = [dirs EXCEPT ![k] = [@ EXCEPT !.extra = TRUE, !.touched = TRUE]]
      PROVE  \E x : Edited(x)
  <2>1. PICK x : /\ x = [dirs[k] EXCEPT !.extra = TRUE, !.touched = TRUE]
                 /\ dirs' = [dirs EXCEPT ![k] = x]
    BY <1>3
  <2>2. x \in DirRecord /\ x.files = dirs[k].files /\ x.manifest = dirs[k].manifest /\ x.touched
    BY <1>2, <2>1 DEF DirRecord
  <2>3. Edited(x)
    BY <2>1, <2>2
  <2> QED BY <2>3
<1>4. ASSUME NEW f \in DOMAIN dirs[k].files,
             dirs' = [dirs EXCEPT ![k] =
                         [@ EXCEPT !.files = [dirs[k].files EXCEPT ![f] = Foreign], !.touched = TRUE]]
      PROVE  \E x : Edited(x)
  <2>1. dirs[k].files \in Seq(Nat) /\ f \in 1..Len(dirs[k].files)
    BY <1>2 DEF DirRecord
  <2>2. PICK s : s = [dirs[k].files EXCEPT ![f] = Foreign]
    OBVIOUS
  <2>3. s \in Seq(Nat) /\ Len(s) = Len(dirs[k].files)
    BY <2>1, <2>2, SeqUpdate DEF Foreign
  <2>4. PICK x : x = [dirs[k] EXCEPT !.files = s, !.touched = TRUE] /\ dirs' = [dirs EXCEPT ![k] = x]
    BY <1>4, <2>2
  <2>5. x \in DirRecord /\ x.files = s /\ x.manifest = dirs[k].manifest /\ x.touched
    BY <1>2, <2>3, <2>4 DEF DirRecord
  <2>6. Edited(x)
    BY <2>3, <2>4, <2>5
  <2> QED BY <2>6
<1>5. PICK d : Edited(d)
  <2>1. \/ dirs' = [dirs EXCEPT ![k] = [@ EXCEPT !.extra = TRUE, !.touched = TRUE]]
        \/ \E f \in DOMAIN dirs[k].files :
              dirs' = [dirs EXCEPT ![k] =
                         [@ EXCEPT !.files = [dirs[k].files EXCEPT ![f] = Foreign], !.touched = TRUE]]
    BY DEF EditDestination
  <2> HIDE DEF Edited
  <2> QED BY <1>3, <1>4, <2>1
<1>6. /\ dirs' \in Seq(DirRecord) /\ Len(dirs') = Len(dirs) /\ dirs'[k] = d
      /\ \A j \in 1..Len(dirs) : j # k => dirs'[j] = dirs[j]
  <2>1. /\ [dirs EXCEPT ![k] = d] \in Seq(DirRecord) /\ Len([dirs EXCEPT ![k] = d]) = Len(dirs)
        /\ [dirs EXCEPT ![k] = d][k] = d
        /\ \A j \in 1..Len(dirs) : j # k => [dirs EXCEPT ![k] = d][j] = dirs[j]
    BY <1>2, <1>5, SeqUpdate
  <2> QED BY <1>5, <2>1
<1> HIDE DEF k
<1>7. DeliveryTypeOK'
  BY <1>1, <1>6 DEF DeliveryInv, DeliveryTypeOK
<1>8. FreezesOnce'
  BY <1>1, <1>2, <1>6 DEF DeliveryInv, DeliveryTypeOK, FreezesOnce, Frozen
<1>9. HoldsFrozen'
  BY <1>1 DEF DeliveryInv, HoldsFrozen, Agrees
<1>10. \A j \in 1..Len(dirs) : /\ dirs'[j].manifest = dirs[j].manifest
                               /\ Len(dirs'[j].files) = Len(dirs[j].files)
                               /\ ~dirs'[j].touched => dirs'[j] = dirs[j]
  BY <1>5, <1>6
<1>11. WritesAlone'
  BY <1>1, <1>6, <1>10 DEF DeliveryInv, WritesAlone, Agrees
<1>12. \A e \in Copier : copier[e].at \in {"validate", "returned"} => copier[e].dir \in 1..Len(dirs)
  BY DEF DeliveryInv, WritesAlone
<1>13. ValidatesWhole'
  BY <1>1, <1>6, <1>10, <1>12 DEF DeliveryInv, ValidatesWhole
<1> QED BY <1>7, <1>8, <1>9, <1>11, <1>13 DEF DeliveryInv

\* A directory with the whole manifest holds the frozen files and a returned
\* destination was such a directory, for any number of paths and copiers, of
\* edits, failures and removals.
THEOREM DeliveredStaysFrozen == Spec => []DeliveredIsFrozen
<1>1. Init => DeliveryInv
  BY DeliveryInitOK DEF Init
<1>2. DeliveryInv /\ [Next]_vars => DeliveryInv'
  <2>1. [Next]_vars => DeliveryNext \/ UNCHANGED deliveryVars
    BY DEF Next, vars
  <2>2. DeliveryInv /\ UNCHANGED deliveryVars => DeliveryInv'
    BY DEF deliveryVars, DeliveryInv, DeliveryTypeOK, FreezesOnce, HoldsFrozen, WritesAlone,
           ValidatesWhole, Agrees, Frozen
  <2> QED BY <2>1, <2>2, BuildStep, CopyOpensStep, CopyReadsStep, MakeDestinationStep, WriteFileStep,
             WriteManifestStep, BreakOffStep, CheckNextStep, ValidateBundleStep,
             ReturnDestinationStep, OthersStep, EditDestinationStep DEF DeliveryNext
<1>3. DeliveryInv => DeliveredIsFrozen
  <2> SUFFICES ASSUME DeliveryInv PROVE DeliveredIsFrozen
    OBVIOUS
  <2>1. DOMAIN dirs = 1..Len(dirs)
    BY SeqFacts DEF DeliveryInv, DeliveryTypeOK
  <2> QED BY <2>1 DEF DeliveryInv, WritesAlone, ValidatesWhole, DeliveredIsFrozen, Whole
<1> QED BY <1>1, <1>2, <1>3, PTL DEF Spec

(***************************************************************************)
(* The receipts of the tiers                                               *)
(*                                                                         *)
(* While no two grants or imports have been under way together, the one    *)
(* that is has checked what it is about to replace, and that still stands. *)
(***************************************************************************)
ClaimPc == {"idle", "evidence", "receipt", "token"}

TierTypeOK ==
    /\ receipt \in [tier : 0..2, evidence : Int]
    /\ evidence \subseteq Int
    /\ token \in Token \cup {NoToken}
    /\ claim \in [Claimant -> [pc : ClaimPc, tier : 0..2, cycles : Int, token : Token \cup {NoToken}]]
    /\ day \in 0..MaxDay /\ release \in {1, 2} /\ grants \in Nat
    /\ raced \in BOOLEAN

\* What a claim has made sure of by the time that it replaces a file.
Checked(c) ==
    /\ claim[c].pc \in {"evidence", "receipt"} =>
        /\ receipt.tier <= claim[c].tier
        /\ claim[c].tier = 2 => claim[c].cycles >= MinimumCycles
    /\ claim[c].pc = "receipt" /\ claim[c].tier = 2 => claim[c].cycles \in evidence
    /\ claim[c].pc = "token" => claim[c].token.tier >= token.tier

TierInv ==
    /\ TierTypeOK
    /\ ~raced =>
        /\ \A c, d \in Claimant : claim[c].pc # "idle" /\ claim[d].pc # "idle" => c = d
        /\ \A c \in Claimant : Checked(c)

LEMMA TierBounds == MaxDay \in Nat /\ MaxGrants \in Nat /\ MinimumCycles \in Nat
BY TierAssumption

LEMMA TokenTypes ==
    /\ NoToken.tier = 0
    /\ \A t \in Token : t.tier \in 3..9
    /\ \A t \in Token \cup {NoToken} : t.tier \in Int
<1>1. NoToken.tier = 0
  BY DEF NoToken
<1>2. ASSUME NEW t \in Token PROVE t.tier \in 3..9
  BY <1>2, TierAssumption DEF Token
<1> QED BY <1>1, <1>2

LEMMA TokenClaim ==
    ASSUME NEW t, NEW k, k = [NoClaim EXCEPT !.pc = "token", !.token = t]
    PROVE  k = [pc |-> "token", tier |-> 0, cycles |-> 0, token |-> t]
BY DEF NoClaim

LEMMA TierInitOK == TierInit => TierInv
<1> SUFFICES ASSUME TierInit PROVE TierInv
  OBVIOUS
<1>1. TierTypeOK
  <2>1. NoClaim \in [pc : ClaimPc, tier : 0..2, cycles : Int, token : Token \cup {NoToken}]
    BY DEF NoClaim, ClaimPc
  <2>2. receipt \in [tier : 0..2, evidence : Int]
    BY DEF TierInit
  <2>3. claim \in [Claimant -> [pc : ClaimPc, tier : 0..2, cycles : Int, token : Token \cup {NoToken}]]
    BY <2>1 DEF TierInit
  <2>4. evidence \subseteq Int /\ token \in Token \cup {NoToken} /\ raced \in BOOLEAN
    BY DEF TierInit
  <2>5. day \in 0..MaxDay /\ release \in {1, 2} /\ grants \in Nat
    BY TierBounds DEF TierInit
  <2> QED BY <2>2, <2>3, <2>4, <2>5 DEF TierTypeOK
<1>2. \A c \in Claimant : claim[c].pc = "idle"
  BY DEF TierInit, NoClaim
<1> QED BY <1>1, <1>2 DEF TierInv, Checked

LEMMA EnterStep ==
    ASSUME TierInv, NEW c \in Claimant, NEW k, Enter(c, k), UNCHANGED <<receipt, evidence, token, day, release>>,
           k \in [pc : ClaimPc, tier : 0..2, cycles : Int, token : Token \cup {NoToken}],
           claim[c].pc = "idle" /\ claim' = [claim EXCEPT ![c] = k] => Checked(c)'
    PROVE  TierInv'
<1> USE DEF TierInv, TierTypeOK, Enter
<1>1. TierTypeOK'
  BY DEF Racing
<1>2. claim' = [claim EXCEPT ![c] = k] /\ claim[c].pc = "idle" /\ Checked(c)'
  OBVIOUS
<1>3. ASSUME ~raced' PROVE ~raced /\ \A d \in Claimant : claim[d].pc = "idle"
  BY <1>3 DEF Racing
<1>4. ASSUME ~raced', NEW d \in Claimant, d # c PROVE claim'[d].pc = "idle"
  BY <1>2, <1>3, <1>4
<1>5. ASSUME ~raced', NEW d \in Claimant PROVE Checked(d)'
  <2>1. CASE d = c
    BY <2>1, <1>2
  <2>2. CASE d # c
    BY <1>4, <1>5, <2>2 DEF Checked
  <2> QED BY <2>1, <2>2
<1> QED BY <1>1, <1>4, <1>5

LEMMA TierStep == TierInv /\ [TierNext]_tierVars => TierInv'
<1> SUFFICES ASSUME TierInv, [TierNext]_tierVars PROVE TierInv'
  OBVIOUS
<1>1. ASSUME NEW c \in Claimant, CheckGrant(c) PROVE TierInv'
  <2>1. PICK tier \in 1..2, cycles \in 0..MinimumCycles + 1 :
          /\ tier = 2 => cycles >= MinimumCycles
          /\ receipt.tier <= tier
          /\ Enter(c, [NoClaim EXCEPT !.pc = IF tier = 2 THEN "evidence" ELSE "receipt",
                                      !.tier = tier, !.cycles = cycles])
    BY <1>1 DEF CheckGrant
  <2> DEFINE k == [NoClaim EXCEPT !.pc = IF tier = 2 THEN "evidence" ELSE "receipt",
                                  !.tier = tier, !.cycles = cycles]
  <2>2. /\ k \in [pc : ClaimPc, tier : 0..2, cycles : Int, token : Token \cup {NoToken}]
        /\ k.tier = tier /\ k.cycles = cycles /\ k.pc = IF tier = 2 THEN "evidence" ELSE "receipt"
    <3>1. tier \in 0..2 /\ cycles \in Int
      BY TierBounds
    <3> QED BY <3>1 DEF NoClaim, ClaimPc
  <2>3. Enter(c, k)
    BY <2>1
  <2> HIDE DEF k
  <2>4. UNCHANGED <<receipt, evidence, token, day, release>>
    BY <1>1 DEF CheckGrant
  <2>5. claim' = [claim EXCEPT ![c] = k] => Checked(c)'
    BY <2>1, <2>2, <2>4 DEF Checked, TierInv, TierTypeOK
  <2> QED BY <2>2, <2>3, <2>4, <2>5, EnterStep
<1>2. ASSUME NEW c \in Claimant, CheckImport(c) PROVE TierInv'
  <2>1. PICK t \in Token :
          /\ token = NoToken \/ (token.genuine /\ t.tier >= token.tier)
          /\ Enter(c, [NoClaim EXCEPT !.pc = "token", !.token = t])
    BY <1>2 DEF CheckImport
  <2> DEFINE k == [NoClaim EXCEPT !.pc = "token", !.token = t]
  <2>2. /\ k \in [pc : ClaimPc, tier : 0..2, cycles : Int, token : Token \cup {NoToken}]
        /\ k.pc = "token" /\ k.token = t
    <3>1. k = [pc |-> "token", tier |-> 0, cycles |-> 0, token |-> t]
      BY TokenClaim
    <3> HIDE DEF k
    <3> QED BY <3>1 DEF ClaimPc
  <2>3. Enter(c, k)
    BY <2>1
  <2> HIDE DEF k
  <2>4. UNCHANGED <<receipt, evidence, token, day, release>>
    BY <1>2 DEF CheckImport
  <2>5. t.tier >= token.tier
    BY <2>1, TokenTypes
  <2>6. claim' = [claim EXCEPT ![c] = k] => Checked(c)'
    BY <2>2, <2>4, <2>5 DEF Checked, TierInv, TierTypeOK
  <2> QED BY <2>2, <2>3, <2>4, <2>6, EnterStep
<1> USE DEF TierInv, TierTypeOK, Checked, ClaimPc
<1>3. ASSUME NEW c \in Claimant, WriteEvidence(c) PROVE TierInv'
  BY <1>3 DEF WriteEvidence, KeptEvidence
<1>4. ASSUME NEW c \in Claimant, WriteReceipt(c) PROVE TierInv'
  BY <1>4, TierBounds DEF WriteReceipt, NoClaim
<1>5. ASSUME NEW c \in Claimant, WriteToken(c) PROVE TierInv'
  BY <1>5, TierAssumption DEF WriteToken, NoClaim
<1>6. ASSUME NEW c \in Claimant, Abandon(c) PROVE TierInv'
  BY <1>6, TierAssumption DEF Abandon, NoClaim
<1>7. CASE NextDay
  BY <1>7, TierAssumption DEF NextDay
<1>8. CASE NewRelease
  BY <1>8 DEF NewRelease
<1>9. CASE UNCHANGED tierVars
  BY <1>9 DEF tierVars
<1> QED BY <1>1, <1>2, <1>3, <1>4, <1>5, <1>6, <1>7, <1>8, <1>9 DEF TierNext

LEMMA TierKept ==
    ASSUME TierInv, [TierNext]_tierVars, ~raced'
    PROVE  /\ token'.tier >= token.tier
           /\ \A tier \in 1..2 : Admits(tier, TRUE) => Admits(tier, TRUE)'
<1> DEFINE Unlocked(tier) == ReceiptStands /\ receipt.tier >= tier
<1>1. \A tier \in 1..2 : Admits(tier, TRUE) <=> Unlocked(tier)
  BY DEF Admits
<1>2. \A tier \in 1..2 : Admits(tier, TRUE)' <=> Unlocked(tier)'
  BY DEF Admits
<1>3. token.tier \in Int /\ receipt.tier \in 0..2
  BY TokenTypes DEF TierInv, TierTypeOK
<1>4. ASSUME UNCHANGED <<receipt, token>>, evidence \subseteq evidence'
      PROVE token'.tier >= token.tier /\ \A tier \in 1..2 : Unlocked(tier) => Unlocked(tier)'
  BY <1>3, <1>4 DEF ReceiptStands
<1>5. ASSUME NEW c \in Claimant, WriteReceipt(c)
      PROVE token' = token /\ \A tier \in 1..2 : Unlocked(tier) => Unlocked(tier)'
  BY <1>5, TierAssumption DEF WriteReceipt, TierInv, TierTypeOK, Checked, ReceiptStands
<1>6. ASSUME NEW c \in Claimant, WriteToken(c)
      PROVE token'.tier >= token.tier /\ UNCHANGED <<receipt, evidence>>
  BY <1>6 DEF WriteToken, TierInv, Checked
<1>7. \/ UNCHANGED <<receipt, token>> /\ evidence \subseteq evidence'
      \/ \E c \in Claimant : WriteReceipt(c)
      \/ \E c \in Claimant : WriteToken(c)
  BY DEF TierNext, tierVars, CheckGrant, CheckImport, WriteEvidence, KeptEvidence, Abandon,
         NextDay, NewRelease
<1>8. ASSUME UNCHANGED <<receipt, evidence>>, NEW tier \in 1..2
      PROVE Unlocked(tier) => Unlocked(tier)'
  BY <1>8 DEF ReceiptStands
<1> HIDE DEF Unlocked
<1>9. token'.tier >= token.tier /\ \A tier \in 1..2 : Unlocked(tier) => Unlocked(tier)'
  <2>1. ASSUME NEW c \in Claimant, WriteReceipt(c)
        PROVE token'.tier >= token.tier /\ \A tier \in 1..2 : Unlocked(tier) => Unlocked(tier)'
    BY <1>3, <1>5, <2>1
  <2>2. ASSUME NEW c \in Claimant, WriteToken(c)
        PROVE token'.tier >= token.tier /\ \A tier \in 1..2 : Unlocked(tier) => Unlocked(tier)'
    BY <1>6, <1>8, <2>2
  <2> QED BY <1>4, <1>7, <2>1, <2>2
<1> QED BY <1>1, <1>2, <1>9

\* No grant and no import takes back an admission or lowers the tier of the
\* token, for any claimants, days, releases and evidence, unless two were
\* under way together.
THEOREM AcquiredTierIsKept == Spec => AcquiredTierStays
<1>1. Init => TierInv
  BY TierInitOK DEF Init
<1>2. [Next]_vars => [TierNext]_tierVars
  BY DEF Next, vars
<1>3. TierInv /\ [Next]_vars => TierInv'
  BY <1>2, TierStep
<1>4. TierInv /\ [Next]_vars =>
        [~raced' => /\ token'.tier >= token.tier
                    /\ \A tier \in 1..2 : Admits(tier, TRUE) => Admits(tier, TRUE)']_tierVars
  BY <1>2, TierKept
<1> QED BY <1>1, <1>3, <1>4, PTL DEF Spec, AcquiredTierStays
===============================================================================
