-------------------------- MODULE MigrationsProofs --------------------------
(* Theorems about Migrations, for any set of files, builds and runners.    *)
EXTENDS Migrations, TLAPS

USE ConstantsAssumption

-----------------------------------------------------------------------------
(* The order of statements.                                                *)

LEMMA StatementsTyped ==
  ASSUME NEW p \in Statements
  PROVE  /\ p = <<p[1], p[2]>>
         /\ p[1] \in Versions
         /\ p[2] \in 1 .. Len(Files[p[1]])
  BY DEF Statements

LEMMA FilesTyped ==
  ASSUME NEW v \in Versions
  PROVE  /\ Files[v] \in Seq(Statement)
         /\ Len(Files[v]) \in Nat
  BY DEF Versions

\* One more statement of file v.
LEMMA PrecedingNext ==
  ASSUME NEW v \in Versions, NEW k \in Nat, NEW S,
         Preceding(v, k) \subseteq S
  PROVE  Preceding(v, k + 1) \subseteq S \cup {<<v, k + 1>>}
  <1> SUFFICES ASSUME NEW p \in Preceding(v, k + 1), p # <<v, k + 1>>
               PROVE  p \in Preceding(v, k)
    OBVIOUS
  <1>1. /\ p \in Statements
        /\ p[1] < v \/ (p[1] = v /\ p[2] <= k + 1)
    BY DEF Preceding
  <1>2. p = <<p[1], p[2]>> /\ p[1] \in Versions /\ p[2] \in Nat
    BY <1>1, StatementsTyped, FilesTyped
  <1>3. p[1] < v \/ (p[1] = v /\ p[2] <= k)
    BY <1>1, <1>2
  <1> QED
    BY <1>1, <1>3 DEF Preceding

\* All statements of file v.
LEMMA PrecedingAll ==
  ASSUME NEW v \in Versions, NEW k \in Nat, k >= Len(Files[v])
  PROVE  Through(v) \subseteq Preceding(v, k)
  <1> SUFFICES ASSUME NEW p \in Through(v)
               PROVE  p \in Preceding(v, k)
    OBVIOUS
  <1>1. /\ p \in Statements
        /\ p[1] < v + 1 \/ (p[1] = v + 1 /\ p[2] <= 0)
    BY DEF Through, Preceding
  <1>2. p[1] \in Versions /\ p[2] \in 1 .. Len(Files[p[1]]) /\ Len(Files[p[1]]) \in Nat
    BY <1>1, StatementsTyped, FilesTyped
  <1>3. p[1] < v \/ (p[1] = v /\ p[2] <= k)
    <2>1. p[1] \in Nat /\ p[2] \in Nat \ {0} /\ v \in Nat
      BY <1>2 DEF Versions
    <2>2. p[1] < v \/ p[1] = v
      BY <1>1, <2>1
    <2>3. p[1] = v => p[2] <= Len(Files[v]) /\ Len(Files[v]) \in Nat
      BY <1>2
    <2> QED
      BY <2>1, <2>2, <2>3
  <1> QED
    BY <1>1, <1>3 DEF Preceding

LEMMA PrecedingTyped ==
  ASSUME NEW v, NEW k
  PROVE  Preceding(v, k) \subseteq Statements /\ Through(v) \subseteq Statements
  BY DEF Preceding, Through

-----------------------------------------------------------------------------
(* Type correctness.                                                       *)

LEMMA AtTyped ==
  ASSUME TypeOK, NEW r \in Runners, pc[r] = "execute"
  PROVE  /\ Current(r) \in Statements
         /\ At(Current(r)) \in Statement
  <1>1. /\ target[r] \in Versions
        /\ index[r] + 1 \in 1 .. Len(Files[target[r]])
    BY FilesTyped, SMTT(30) DEF TypeOK, Versions
  <1>2. Current(r) \in {target[r]} \X (1 .. Len(Files[target[r]]))
    BY <1>1 DEF Current
  <1>3. Current(r) \in Statements
    BY <1>1, <1>2 DEF Statements
  <1>4. Files[target[r]][index[r] + 1] \in Statement
    BY <1>1, FilesTyped
  <1> QED
    BY <1>3, <1>4 DEF At, Current

LEMMA BookmarkTyped ==
  ASSUME TypeOK, bookmark # NoBookmark
  PROVE  bookmark.file \in Versions /\ bookmark.index \in Nat
  BY DEF TypeOK

\* Resuming starts inside the file, or at its beginning.
LEMMA ResumeIndexTyped ==
  ASSUME TypeOK, NEW v \in Versions
  PROVE  ResumeIndex(v) \in Nat
  BY BookmarkTyped DEF ResumeIndex

LEMMA BeginAtTyped ==
  ASSUME TypeOK, NEW r \in Runners, pc[r] = "resume", NEW k \in Nat, BeginAt(r, k),
         faults' \in 0 .. MaxFaults
  PROVE  TypeOK'
  <1>1. /\ target[r] \in 1 .. Build[r] /\ target[r] \in Versions
        /\ Len(Files[target[r]]) \in Nat
    BY FilesTyped DEF TypeOK, Versions
  <1>2. /\ index' = [index EXCEPT ![r] = k]
        /\ UNCHANGED <<schema, version, bookmark, done, lockWorks, lock, command,
                       target, conn, lost>>
    BY DEF BeginAt, db
  <1>3. CASE k < Len(Files[target[r]])
    <2>1. pc' = [pc EXCEPT ![r] = "bookmark"]
      BY <1>3 DEF BeginAt, Goto, NextStep
    <2> QED
      BY <1>1, <1>2, <1>3, <2>1 DEF TypeOK
  <1>4. CASE ~(k < Len(Files[target[r]]))
    <2>1. pc' = [pc EXCEPT ![r] = "stamp"]
      BY <1>4 DEF BeginAt, Goto, NextStep
    <2> QED
      BY <1>1, <1>2, <2>1 DEF TypeOK
  <1> QED
    BY <1>3, <1>4

LEMMA TypeInit == Init => TypeOK
  <1> SUFFICES ASSUME Init PROVE TypeOK
    OBVIOUS
  <1>1. version \in 0 .. Len(Files) /\ Len(Files) \in Nat
    BY DEF Init
  <1>2. schema \subseteq Objects
    BY DEF Init, SchemaAt
  <1>3. done \subseteq Statements
    BY PrecedingTyped DEF Init
  <1> QED
    BY <1>1, <1>2, <1>3 DEF Init, TypeOK

LEMMA TypeStep == TypeOK /\ [Next]_vars => TypeOK'
  <1> SUFFICES ASSUME TypeOK, [Next]_vars PROVE TypeOK'
    OBVIOUS
  <1> USE DEF TypeOK, Versions, db
  <1>0. ASSUME NEW r \in Runners, NEW c \in Commands, Start(r, c)
        PROVE  TypeOK'
    BY <1>0 DEF Start, Goto
  <1>1. ASSUME NEW r \in Runners, GetLock(r)
        PROVE  TypeOK'
    BY <1>1 DEF GetLock, Goto, AfterLock
  <1>2. ASSUME NEW r \in Runners, LockUnavailable(r)
        PROVE  TypeOK'
    BY <1>2 DEF LockUnavailable, Goto, AfterLock
  <1>3. ASSUME NEW r \in Runners, LockTimeout(r)
        PROVE  TypeOK'
    BY <1>3 DEF LockTimeout, Goto, Return
  <1>4. ASSUME NEW r \in Runners, ReadVersion(r)
        PROVE  TypeOK'
    <2>1. CASE version + 1 > Build[r]
      <3>1. /\ pc' = [pc EXCEPT ![r] = "release"]
            /\ UNCHANGED <<db, lockWorks, lock, command, target, index, conn, faults, lost>>
        BY <1>4, <2>1 DEF ReadVersion, Goto, FirstPending
      <3> QED
        BY <3>1
    <2>2. CASE ~(version + 1 > Build[r])
      <3>1. version + 1 \in 1 .. Build[r] /\ version + 1 \in 0 .. Len(Files)
        BY <2>2
      <3>2. /\ target' = [target EXCEPT ![r] = version + 1]
            /\ pc' = [pc EXCEPT ![r] = "resume"]
        BY <1>4, <2>2 DEF ReadVersion, Goto, FirstPending
      <3> QED
        BY <1>4, <3>1, <3>2 DEF ReadVersion
    <2> QED
      BY <2>1, <2>2
  <1>5. ASSUME NEW r \in Runners, ReadBookmark(r)
        PROVE  TypeOK'
    <2>1. CASE bookmark = NoBookmark \/ bookmark.file > Build[r]
      <3>1. pc' = [pc EXCEPT ![r] = "release"]
            /\ UNCHANGED <<db, lockWorks, lock, command, target, index, conn, faults, lost>>
        BY <1>5, <2>1 DEF ReadBookmark, Goto
      <3> QED
        BY <3>1
    <2>2. CASE bookmark # NoBookmark /\ ~(bookmark.file > Build[r])
      <3>1. bookmark.file \in 1 .. Build[r] /\ bookmark.file \in 0 .. Len(Files)
        BY <2>2, BookmarkTyped, SMTT(30)
      <3>2. /\ target' = [target EXCEPT ![r] = bookmark.file]
            /\ pc' = [pc EXCEPT ![r] = "resume"]
        BY <1>5, <2>2 DEF ReadBookmark, Goto
      <3> QED
        BY <1>5, <3>1, <3>2 DEF ReadBookmark
    <2> QED
      BY <2>1, <2>2
  <1>6. ASSUME NEW r \in Runners, Resume(r)
        PROVE  TypeOK'
    <2>1. target[r] \in Versions
      BY <1>6 DEF Resume
    <2> QED
      BY <1>6, <2>1, ResumeIndexTyped, BeginAtTyped DEF Resume
  <1>7. ASSUME NEW r \in Runners, WriteBookmark(r)
        PROVE  TypeOK'
    BY <1>7 DEF WriteBookmark, Goto, Place
  <1>8. ASSUME NEW r \in Runners, Execute(r)
        PROVE  TypeOK'
    <2>1. Current(r) \in Statements /\ At(Current(r)) \in Statement
      BY <1>8, AtTyped DEF Execute
    <2>2. schema' \subseteq Objects
      BY <1>8, <2>1 DEF Execute, After, Object, Objects, Statement
    <2>3. /\ version' \in 0 .. Len(Files)
          /\ bookmark' \in {NoBookmark} \cup [file : Versions, index : Nat]
          /\ done' \subseteq Statements
      BY <1>8, <2>1 DEF Execute
    <2>4. /\ target[r] \in 1 .. Build[r]
          /\ index[r] < Len(Files[target[r]])
          /\ Len(Files[target[r]]) \in Nat
      BY <1>8, FilesTyped DEF Execute
    <2>5. index' = [index EXCEPT ![r] = index[r] + 1]
      BY <1>8 DEF Execute
    <2>6. pc' = [pc EXCEPT ![r] = NextStep(target[r], index[r] + 1)]
      BY <1>8 DEF Execute, Goto
    <2>7. UNCHANGED <<lockWorks, lock, command, target, conn, faults, lost>>
      BY <1>8 DEF Execute
    <2>8. CASE index[r] + 1 < Len(Files[target[r]])
      <3>1. pc' = [pc EXCEPT ![r] = "bookmark"]
        BY <2>6, <2>8 DEF NextStep
      <3> QED
        BY <2>2, <2>3, <2>4, <2>5, <2>7, <2>8, <3>1, SMTT(30)
    <2>9. CASE ~(index[r] + 1 < Len(Files[target[r]]))
      <3>1. pc' = [pc EXCEPT ![r] = "stamp"]
        BY <2>6, <2>9 DEF NextStep
      <3> QED
        BY <2>2, <2>3, <2>4, <2>5, <2>7, <3>1, SMTT(30)
    <2> QED
      BY <2>8, <2>9
  <1>9. ASSUME NEW r \in Runners, ExecuteFails(r)
        PROVE  TypeOK'
    BY <1>9 DEF ExecuteFails, Goto
  <1>10. ASSUME NEW r \in Runners, Stamp(r)
        PROVE  TypeOK'
    <2>1. target[r] \in 1 .. Build[r] /\ Build[r] \in 0 .. Len(Files)
      BY <1>10 DEF Stamp
    <2>2. CASE command[r] = "run" /\ target[r] < Build[r]
      <3>1. /\ target' = [target EXCEPT ![r] = target[r] + 1]
            /\ pc' = [pc EXCEPT ![r] = "resume"]
        BY <1>10, <2>2 DEF Stamp, Goto
      <3>2. target[r] + 1 \in 1 .. Build[r] /\ target[r] + 1 \in 0 .. Len(Files)
        BY <2>1, <2>2, SMTT(30)
      <3> QED
        BY <1>10, <2>1, <3>1, <3>2 DEF Stamp
    <2>3. CASE ~(command[r] = "run" /\ target[r] < Build[r])
      <3>1. /\ target' = target
            /\ pc' = [pc EXCEPT ![r] = "clear"]
        BY <1>10, <2>3 DEF Stamp, Goto
      <3> QED
        BY <1>10, <2>1, <3>1 DEF Stamp
    <2> QED
      BY <2>2, <2>3
  <1>11. ASSUME NEW r \in Runners, StampFails(r)
        PROVE  TypeOK'
    BY <1>11 DEF StampFails, Goto
  <1>12. ASSUME NEW r \in Runners, ClearBookmark(r)
        PROVE  TypeOK'
    BY <1>12 DEF ClearBookmark, Goto
  <1>13. ASSUME NEW r \in Runners, Release(r)
        PROVE  TypeOK'
    BY <1>13 DEF Release, Return, Goto, Unlocked
  <1>14. ASSUME NEW r \in Runners, ResumeBlind(r)
        PROVE  TypeOK'
    <2>1. pc[r] = "resume" /\ BeginAt(r, 0)
      BY <1>14 DEF ResumeBlind
    <2>2. faults' \in 0 .. MaxFaults /\ 0 \in Nat
      BY <1>14 DEF ResumeBlind
    <2>3. TypeOK
      OBVIOUS
    <2> HIDE DEF TypeOK
    <2> QED
      BY <2>1, <2>2, <2>3, BeginAtTyped
  <1>15. ASSUME NEW r \in Runners, ClearFails(r)
        PROVE  TypeOK'
    BY <1>15 DEF ClearFails, Goto
  <1>16. ASSUME NEW r \in Runners, Crash(r)
        PROVE  TypeOK'
    BY <1>16 DEF Crash, Return, Goto, Unlocked
  <1>17. ASSUME NEW r \in Runners, LoseConnection(r)
        PROVE  TypeOK'
    BY <1>17 DEF LoseConnection, Unlocked
  <1>18. CASE UNCHANGED vars
    BY <1>18 DEF vars, runner
  <1> QED
    BY <1>0, <1>1, <1>2, <1>3, <1>4, <1>5, <1>6, <1>7, <1>8, <1>9, <1>10, <1>11, <1>12, <1>13, <1>14, <1>15, <1>16, <1>17, <1>18 DEF Next, Step, Fault

\* Every reachable state is well typed.
THEOREM TypeCorrect == Spec => []TypeOK
  BY TypeInit, TypeStep, PTL DEF Spec

-----------------------------------------------------------------------------
(* No statement is skipped.                                                *)

LEMMA PrecedingMonotone ==
  ASSUME NEW v \in Versions, NEW k \in Nat, NEW l \in Nat, k <= l
  PROVE  Preceding(v, k) \subseteq Preceding(v, l)
  <1> SUFFICES ASSUME NEW p \in Preceding(v, k)
               PROVE  p \in Preceding(v, l)
    OBVIOUS
  <1>1. p \in Statements /\ (p[1] < v \/ (p[1] = v /\ p[2] <= k))
    BY DEF Preceding
  <1>2. p[2] \in Nat
    BY <1>1, StatementsTyped, FilesTyped
  <1> QED
    BY <1>1, <1>2 DEF Preceding

LEMMA NothingBeforeFirst == Through(0) = {}
  <1> SUFFICES ASSUME NEW p \in Through(0)
               PROVE  FALSE
    OBVIOUS
  <1>1. p \in Statements /\ (p[1] < 1 \/ (p[1] = 1 /\ p[2] <= 0))
    BY DEF Through, Preceding
  <1>2. p[1] \in Versions /\ p[2] \in 1 .. Len(Files[p[1]]) /\ Len(Files[p[1]]) \in Nat
    BY <1>1, StatementsTyped, FilesTyped
  <1> QED
    BY <1>1, <1>2 DEF Versions

\* What a runner inside applyOne has behind it has been executed.
Progress(r) ==
  /\ pc[r] = "resume" => Preceding(target[r], 0) \subseteq done
  /\ pc[r] \in {"bookmark", "execute", "stamp"} => Preceding(target[r], index[r]) \subseteq done
  /\ pc[r] = "stamp" => Through(target[r]) \subseteq done

\* The inductive invariant behind NothingSkipped.
SkipInv == NothingSkipped /\ \A r \in Runners : Progress(r)

\* A step of one runner leaves the progress of another true.
LEMMA ProgressOfOthers ==
  ASSUME NEW r, NEW q, Progress(q), done \subseteq done', pc'[q] = pc[q],
         target'[q] = target[q], index'[q] = index[q]
  PROVE  Progress(q)'
  BY DEF Progress

LEMMA OnlyOneMoves ==
  ASSUME TypeOK, NEW r \in Runners, NEW q \in Runners, q # r,
         Step(r) \/ Fault(r) \/ \E c \in Commands : Start(r, c)
  PROVE  /\ pc'[q] = pc[q] /\ command'[q] = command[q] /\ target'[q] = target[q]
         /\ index'[q] = index[q] /\ conn'[q] = conn[q]
  <1> USE DEF TypeOK, Goto, Return, BeginAt, runner
  <1>0. CASE \E c \in Commands : Start(r, c)
    BY <1>0 DEF Start
  <1>1. CASE GetLock(r)
    BY <1>1 DEF GetLock
  <1>2. CASE LockUnavailable(r)
    BY <1>2 DEF LockUnavailable
  <1>3. CASE LockTimeout(r)
    BY <1>3 DEF LockTimeout
  <1>4. CASE ReadVersion(r)
    BY <1>4 DEF ReadVersion
  <1>5. CASE ReadBookmark(r)
    BY <1>5 DEF ReadBookmark
  <1>6. CASE Resume(r)
    BY <1>6 DEF Resume
  <1>7. CASE WriteBookmark(r)
    BY <1>7 DEF WriteBookmark
  <1>8. CASE Execute(r)
    BY <1>8 DEF Execute
  <1>9. CASE ExecuteFails(r)
    BY <1>9 DEF ExecuteFails
  <1>10. CASE Stamp(r)
    BY <1>10 DEF Stamp
  <1>11. CASE StampFails(r)
    BY <1>11 DEF StampFails
  <1>12. CASE ClearBookmark(r)
    BY <1>12 DEF ClearBookmark
  <1>13. CASE Release(r)
    BY <1>13 DEF Release
  <1>14. CASE ResumeBlind(r)
    BY <1>14 DEF ResumeBlind
  <1>15. CASE ClearFails(r)
    BY <1>15 DEF ClearFails
  <1>16. CASE Crash(r)
    BY <1>16 DEF Crash
  <1>17. CASE LoseConnection(r)
    BY <1>17 DEF LoseConnection
  <1> QED
    BY <1>0, <1>1, <1>2, <1>3, <1>4, <1>5, <1>6, <1>7, <1>8, <1>9, <1>10, <1>11, <1>12, <1>13, <1>14, <1>15, <1>16, <1>17 DEF Step, Fault

LEMMA SkipInit == Init => SkipInv
  BY DEF Init, SkipInv, NothingSkipped, Progress

LEMMA BeginAtSkips ==
  ASSUME TypeOK, NEW r \in Runners, pc[r] = "resume", NEW k \in Nat, BeginAt(r, k),
         Preceding(target[r], k) \subseteq done
  PROVE  Progress(r)'
  <1>1. target[r] \in Versions /\ Len(Files[target[r]]) \in Nat
    BY FilesTyped DEF TypeOK, Versions
  <1>2. /\ index'[r] = k /\ target'[r] = target[r] /\ done' = done
        /\ pc'[r] = NextStep(target[r], k)
    BY DEF BeginAt, Goto, TypeOK, db
  <1>3. k >= Len(Files[target[r]]) => Through(target[r]) \subseteq done
    BY <1>1, PrecedingAll
  <1> QED
    BY <1>1, <1>2, <1>3 DEF Progress, NextStep

LEMMA SkipStep == TypeOK /\ SkipInv /\ [Next]_vars => SkipInv'
  <1> SUFFICES ASSUME TypeOK, SkipInv, [Next]_vars PROVE SkipInv'
    OBVIOUS
  <1> USE DEF db
  \* The three parts of SkipInv' for a step of r.
  <1>a. ASSUME NEW r \in Runners, Step(r) \/ Fault(r) \/ \E c \in Commands : Start(r, c),
               done \subseteq done', NothingSkipped', Progress(r)'
        PROVE  SkipInv'
    <2>1. ASSUME NEW q \in Runners, q # r PROVE Progress(q)'
      BY <1>a, <2>1, OnlyOneMoves, ProgressOfOthers DEF SkipInv
    <2> QED
      BY <1>a, <2>1 DEF SkipInv
  \* A step that leaves the database alone.
  <1>b. ASSUME NEW r \in Runners, Step(r) \/ Fault(r) \/ \E c \in Commands : Start(r, c),
               UNCHANGED db, Progress(r)'
        PROVE  SkipInv'
    BY <1>a, <1>b DEF SkipInv, NothingSkipped
  \* ... and that takes r out of applyOne.
  <1>c. ASSUME NEW r \in Runners, Step(r) \/ Fault(r) \/ \E c \in Commands : Start(r, c),
               UNCHANGED db, pc'[r] \notin {"resume", "bookmark", "execute", "stamp"}
        PROVE  SkipInv'
    BY <1>b, <1>c DEF Progress
  <1>0. ASSUME NEW r \in Runners, NEW c \in Commands, Start(r, c)
        PROVE  SkipInv'
    BY <1>0, <1>c DEF Start, Goto, TypeOK
  <1>1. ASSUME NEW r \in Runners, GetLock(r)
        PROVE  SkipInv'
    <2>0. Step(r)
      BY <1>1 DEF Step
    <2> QED
      BY <1>1, <1>c, <2>0 DEF GetLock, Goto, AfterLock, TypeOK
  <1>2. ASSUME NEW r \in Runners, LockUnavailable(r)
        PROVE  SkipInv'
    <2>0. Step(r)
      BY <1>2 DEF Step
    <2> QED
      BY <1>2, <1>c, <2>0 DEF LockUnavailable, Goto, AfterLock, TypeOK
  <1>3. ASSUME NEW r \in Runners, LockTimeout(r)
        PROVE  SkipInv'
    <2>0. Step(r)
      BY <1>3 DEF Step
    <2> QED
      BY <1>3, <1>c, <2>0 DEF LockTimeout, Goto, Return, TypeOK
  <1>4. ASSUME NEW r \in Runners, ReadVersion(r)
        PROVE  SkipInv'
    <2>0. Step(r)
      BY <1>4 DEF Step
    <2>1. Progress(r)'
      BY <1>4 DEF ReadVersion, Progress, SkipInv, NothingSkipped, Through, FirstPending, Goto, TypeOK
    <2> QED
      BY <1>4, <1>b, <2>0, <2>1 DEF ReadVersion
  <1>5. ASSUME NEW r \in Runners, ReadBookmark(r)
        PROVE  SkipInv'
    <2>0. Step(r)
      BY <1>5 DEF Step
    <2>1. CASE bookmark = NoBookmark \/ bookmark.file > Build[r]
      BY <1>5, <1>c, <2>0, <2>1 DEF ReadBookmark, Goto, TypeOK
    <2>2. CASE bookmark # NoBookmark /\ ~(bookmark.file > Build[r])
      <3>1. /\ pc'[r] = "resume" /\ target'[r] = bookmark.file
            /\ UNCHANGED db
        BY <1>5, <2>2 DEF ReadBookmark, Goto, TypeOK
      <3>2. Preceding(bookmark.file, 0) \subseteq done
        BY <2>2, BookmarkTyped, PrecedingMonotone DEF SkipInv, NothingSkipped
      <3>3. Progress(r)'
        BY <3>1, <3>2 DEF Progress
      <3> QED
        BY <1>b, <2>0, <3>1, <3>3
    <2> QED
      BY <2>1, <2>2
  <1>6. ASSUME NEW r \in Runners, Resume(r)
        PROVE  SkipInv'
    <2>0. Step(r)
      BY <1>6 DEF Step
    <2>1. target[r] \in Versions
      BY <1>6 DEF Resume, TypeOK, Versions
    <2>2. Preceding(target[r], ResumeIndex(target[r])) \subseteq done
      BY <1>6 DEF Resume, ResumeIndex, SkipInv, NothingSkipped, Progress
    <2>3. ResumeIndex(target[r]) \in Nat
      BY <2>1, ResumeIndexTyped
    <2>4. pc[r] = "resume" /\ BeginAt(r, ResumeIndex(target[r]))
      BY <1>6 DEF Resume
    <2>5. Progress(r)'
      BY <2>2, <2>3, <2>4, BeginAtSkips
    <2> QED
      BY <1>b, <2>0, <2>4, <2>5 DEF BeginAt
  <1>7. ASSUME NEW r \in Runners, WriteBookmark(r)
        PROVE  SkipInv'
    <2>0. Step(r)
      BY <1>7 DEF Step
    <2>1. Progress(r)'
      BY <1>7 DEF WriteBookmark, Progress, SkipInv, Goto, TypeOK
    <2>2. NothingSkipped'
      BY <1>7 DEF WriteBookmark, Place, NothingSkipped, SkipInv, Progress
    <2> QED
      BY <1>7, <1>a, <2>0, <2>1, <2>2 DEF WriteBookmark
  <1>8. ASSUME NEW r \in Runners, Execute(r)
        PROVE  SkipInv'
    <2>0. Step(r)
      BY <1>8 DEF Step
    <2>1. /\ target[r] \in Versions /\ index[r] \in Nat
          /\ Len(Files[target[r]]) \in Nat
      BY <1>8, FilesTyped DEF Execute, TypeOK, Versions
    <2>2. /\ done' = done \cup {<<target[r], index[r] + 1>>}
          /\ target'[r] = target[r] /\ index'[r] = index[r] + 1
          /\ pc'[r] = NextStep(target[r], index[r] + 1)
      BY <1>8 DEF Execute, Current, Goto, TypeOK
    <2>3. Preceding(target[r], index[r] + 1) \subseteq done'
      <3>1. Preceding(target[r], index[r]) \subseteq done
        BY <1>8 DEF Execute, SkipInv, Progress
      <3> QED
        BY <2>1, <2>2, <3>1, PrecedingNext
    <2>4. index[r] + 1 >= Len(Files[target[r]]) => Through(target[r]) \subseteq done'
      <3>1. index[r] + 1 \in Nat
        BY <2>1
      <3>2. index[r] + 1 >= Len(Files[target[r]])
              => Through(target[r]) \subseteq Preceding(target[r], index[r] + 1)
        BY <2>1, <3>1, PrecedingAll
      <3> QED
        BY <2>3, <3>2
    <2>5. Progress(r)'
      BY <2>1, <2>2, <2>3, <2>4 DEF Progress, NextStep
    <2>6. NothingSkipped'
      BY <1>8, <2>2, NothingBeforeFirst DEF Execute, NothingSkipped, SkipInv
    <2> QED
      BY <1>a, <2>0, <2>2, <2>5, <2>6
  <1>9. ASSUME NEW r \in Runners, ExecuteFails(r)
        PROVE  SkipInv'
    <2>0. Step(r)
      BY <1>9 DEF Step
    <2> QED
      BY <1>9, <1>c, <2>0 DEF ExecuteFails, Goto, TypeOK
  <1>10. ASSUME NEW r \in Runners, Stamp(r)
        PROVE  SkipInv'
    <2>0. Step(r)
      BY <1>10 DEF Step
    <2>1. Through(target[r]) \subseteq done
      BY <1>10 DEF Stamp, SkipInv, Progress
    <2>2. NothingSkipped'
      BY <1>10, <2>1 DEF Stamp, NothingSkipped, SkipInv
    <2>3. Progress(r)'
      <3>1. done' = done /\ pc'[r] \notin {"bookmark", "execute", "stamp"}
        BY <1>10 DEF Stamp, Goto, TypeOK
      <3>2. pc'[r] = "resume" => target'[r] = target[r] + 1
        BY <1>10 DEF Stamp, Goto, TypeOK
      <3> QED
        BY <2>1, <3>1, <3>2 DEF Progress, Through
    <2> QED
      BY <1>10, <1>a, <2>0, <2>2, <2>3 DEF Stamp
  <1>11. ASSUME NEW r \in Runners, StampFails(r)
        PROVE  SkipInv'
    <2>0. Step(r)
      BY <1>11 DEF Step
    <2> QED
      BY <1>11, <1>c, <2>0 DEF StampFails, Goto, TypeOK
  <1>12. ASSUME NEW r \in Runners, ClearBookmark(r)
        PROVE  SkipInv'
    <2>0. Step(r)
      BY <1>12 DEF Step
    <2>1. NothingSkipped' /\ Progress(r)'
      BY <1>12 DEF ClearBookmark, NothingSkipped, SkipInv, Progress, Goto, TypeOK
    <2> QED
      BY <1>12, <1>a, <2>0, <2>1 DEF ClearBookmark
  <1>13. ASSUME NEW r \in Runners, Release(r)
        PROVE  SkipInv'
    <2>0. Step(r)
      BY <1>13 DEF Step
    <2> QED
      BY <1>13, <1>c, <2>0 DEF Release, Goto, Return, TypeOK
  <1>14. ASSUME NEW r \in Runners, ResumeBlind(r)
        PROVE  SkipInv'
    <2>0. Fault(r)
      BY <1>14 DEF Fault
    <2>1. target[r] \in Versions
      BY <1>14 DEF ResumeBlind, TypeOK, Versions
    <2>2. Preceding(target[r], 0) \subseteq done
      BY <1>14 DEF ResumeBlind, ResumeIndex, SkipInv, NothingSkipped, Progress
    <2>3. 0 \in Nat
      BY <2>1, ResumeIndexTyped
    <2>4. pc[r] = "resume" /\ BeginAt(r, 0)
      BY <1>14 DEF ResumeBlind
    <2>5. Progress(r)'
      BY <2>2, <2>3, <2>4, BeginAtSkips
    <2> QED
      BY <1>b, <2>0, <2>4, <2>5 DEF BeginAt
  <1>15. ASSUME NEW r \in Runners, ClearFails(r)
        PROVE  SkipInv'
    <2>0. Fault(r)
      BY <1>15 DEF Fault
    <2> QED
      BY <1>15, <1>c, <2>0 DEF ClearFails, Goto, TypeOK
  <1>16. ASSUME NEW r \in Runners, Crash(r)
        PROVE  SkipInv'
    <2>0. Fault(r)
      BY <1>16 DEF Fault
    <2> QED
      BY <1>16, <1>c, <2>0 DEF Crash, Goto, Return, TypeOK
  <1>17. ASSUME NEW r \in Runners, LoseConnection(r)
        PROVE  SkipInv'
    <2>0. Fault(r)
      BY <1>17 DEF Fault
    <2>1. Progress(r)'
      BY <1>17 DEF LoseConnection, Progress, SkipInv
    <2> QED
      BY <1>17, <1>b, <2>0, <2>1 DEF LoseConnection
  <1>18. CASE UNCHANGED vars
    BY <1>18 DEF vars, runner, SkipInv, NothingSkipped, Progress
  <1> QED
    BY <1>0, <1>1, <1>2, <1>3, <1>4, <1>5, <1>6, <1>7, <1>8, <1>9, <1>10, <1>11, <1>12, <1>13, <1>14, <1>15, <1>16, <1>17, <1>18 DEF Next, Step, Fault

\* Whatever crashes, lost connections, timeouts and repairs occur, with or
\* without the lock, a version is stamped only when every statement up to it has
\* been executed, and a bookmark stands only after statements that have been.
THEOREM NeverSkips == Spec => []NothingSkipped
  <1>1. SkipInv => NothingSkipped
    BY DEF SkipInv
  <1> QED
    BY <1>1, SkipInit, SkipStep, TypeCorrect, PTL DEF Spec

\* A statement is first executed after all that precede it.
THEOREM ExecutesInOrder == Spec => InOrder
  <1>1. ASSUME TypeOK, SkipInv, [Next]_vars
        PROVE  [\A p \in done' \ done : Preceding(p[1], p[2] - 1) \subseteq done]_done
    <2> SUFFICES ASSUME NEW p \in done' \ done
                 PROVE  Preceding(p[1], p[2] - 1) \subseteq done
      OBVIOUS
    <2>1. PICK r \in Runners : Execute(r)
      BY <1>1 DEF Next, vars, db, Step, Fault, Start, GetLock, LockUnavailable, LockTimeout,
           ReadVersion, ReadBookmark, Resume, ResumeBlind, BeginAt, WriteBookmark,
           ExecuteFails, Stamp, StampFails, ClearBookmark, ClearFails, Release, Crash,
           LoseConnection
    <2>2. p = <<target[r], index[r] + 1>>
      BY <2>1 DEF Execute, Current
    <2>3. index[r] \in Nat /\ Preceding(target[r], index[r]) \subseteq done
      BY <1>1, <2>1 DEF Execute, SkipInv, Progress, TypeOK
    <2> QED
      BY <2>2, <2>3
  <1> QED
    BY <1>1, SkipInit, SkipStep, TypeCorrect, PTL DEF Spec, InOrder

-----------------------------------------------------------------------------
(* The lock.                                                               *)

\* A runner past the lock whose connection lives holds the lock.
Inside(r) == conn[r] /\ pc[r] \notin {"idle", "locking"}
HolderInv == lockWorks => \A r \in Runners : Inside(r) => lock = r

LEMMA HolderInit == Init => HolderInv
  BY DEF Init, HolderInv, Inside

LEMMA HolderStep == TypeOK /\ HolderInv /\ [Next]_vars => HolderInv'
  <1> SUFFICES ASSUME TypeOK, HolderInv, [Next]_vars PROVE HolderInv'
    OBVIOUS
  <1> USE DEF TypeOK, HolderInv, Inside, db
  <1>0. ASSUME NEW r \in Runners, NEW c \in Commands, Start(r, c)
        PROVE  HolderInv'
    BY <1>0 DEF Start, Goto
  <1>1. ASSUME NEW r \in Runners, GetLock(r)
        PROVE  HolderInv'
    BY <1>1 DEF GetLock, Goto, AfterLock, LockFree
  <1>2. ASSUME NEW r \in Runners, LockUnavailable(r)
        PROVE  HolderInv'
    BY <1>2 DEF LockUnavailable, Goto, AfterLock
  <1>3. ASSUME NEW r \in Runners, LockTimeout(r)
        PROVE  HolderInv'
    BY <1>3 DEF LockTimeout, Goto, Return
  <1>4. ASSUME NEW r \in Runners, ReadVersion(r)
        PROVE  HolderInv'
    BY <1>4 DEF ReadVersion, Goto
  <1>5. ASSUME NEW r \in Runners, ReadBookmark(r)
        PROVE  HolderInv'
    BY <1>5 DEF ReadBookmark, Goto
  <1>6. ASSUME NEW r \in Runners, Resume(r)
        PROVE  HolderInv'
    BY <1>6 DEF Resume, Goto, BeginAt, NextStep
  <1>7. ASSUME NEW r \in Runners, WriteBookmark(r)
        PROVE  HolderInv'
    BY <1>7 DEF WriteBookmark, Goto
  <1>8. ASSUME NEW r \in Runners, Execute(r)
        PROVE  HolderInv'
    BY <1>8 DEF Execute, Goto, NextStep, Reaches
  <1>9. ASSUME NEW r \in Runners, ExecuteFails(r)
        PROVE  HolderInv'
    BY <1>9 DEF ExecuteFails, Goto
  <1>10. ASSUME NEW r \in Runners, Stamp(r)
        PROVE  HolderInv'
    BY <1>10 DEF Stamp, Goto, Reaches
  <1>11. ASSUME NEW r \in Runners, StampFails(r)
        PROVE  HolderInv'
    BY <1>11 DEF StampFails, Goto
  <1>12. ASSUME NEW r \in Runners, ClearBookmark(r)
        PROVE  HolderInv'
    BY <1>12 DEF ClearBookmark, Goto
  <1>13. ASSUME NEW r \in Runners, Release(r)
        PROVE  HolderInv'
    BY <1>13 DEF Release, Goto, Return, Unlocked
  <1>14. ASSUME NEW r \in Runners, ResumeBlind(r)
        PROVE  HolderInv'
    BY <1>14 DEF ResumeBlind, Goto, BeginAt, NextStep
  <1>15. ASSUME NEW r \in Runners, ClearFails(r)
        PROVE  HolderInv'
    BY <1>15 DEF ClearFails, Goto
  <1>16. ASSUME NEW r \in Runners, Crash(r)
        PROVE  HolderInv'
    BY <1>16 DEF Crash, Goto, Return, Unlocked
  <1>17. ASSUME NEW r \in Runners, LoseConnection(r)
        PROVE  HolderInv'
    BY <1>17 DEF LoseConnection, Unlocked
  <1>18. CASE UNCHANGED vars
    BY <1>18 DEF vars, runner
  <1> QED
    BY <1>0, <1>1, <1>2, <1>3, <1>4, <1>5, <1>6, <1>7, <1>8, <1>9, <1>10, <1>11, <1>12, <1>13, <1>14, <1>15, <1>16, <1>17, <1>18 DEF Next, Step, Fault

\* What FreshPlan says of one runner.
Fresh(r) ==
  command[r] = "run" /\ conn[r] /\ pc[r] \in {"resume", "bookmark", "execute", "stamp"}
    => target[r] = version + 1

LEMMA FreshStep == TypeOK /\ HolderInv /\ FreshPlan /\ [Next]_vars => FreshPlan'
  <1> SUFFICES ASSUME TypeOK, HolderInv, FreshPlan, [Next]_vars, lockWorks',
                      NEW q \in Runners
               PROVE  Fresh(q)'
    BY DEF FreshPlan, Fresh
  <1> USE DEF TypeOK, Fresh, db
  <1>a. lockWorks
    BY DEF Next, Step, Fault, vars, Start, GetLock, LockUnavailable, LockTimeout, ReadVersion,
       ReadBookmark, Resume, ResumeBlind, BeginAt, WriteBookmark, Execute, ExecuteFails, Stamp,
       StampFails, ClearBookmark, ClearFails, Release, Crash, LoseConnection
  <1>b. Fresh(q)
    BY <1>a DEF FreshPlan
  <1>0. ASSUME NEW r \in Runners, NEW c \in Commands, Start(r, c)
        PROVE  Fresh(q)'
    BY <1>0, <1>b DEF Start, Goto
  <1>1. ASSUME NEW r \in Runners, GetLock(r)
        PROVE  Fresh(q)'
    BY <1>1, <1>b DEF GetLock, Goto, AfterLock, LockFree
  <1>2. ASSUME NEW r \in Runners, LockUnavailable(r)
        PROVE  Fresh(q)'
    BY <1>2, <1>b DEF LockUnavailable, Goto, AfterLock
  <1>3. ASSUME NEW r \in Runners, LockTimeout(r)
        PROVE  Fresh(q)'
    BY <1>3, <1>b DEF LockTimeout, Goto, Return
  <1>4. ASSUME NEW r \in Runners, ReadVersion(r)
        PROVE  Fresh(q)'
    BY <1>4, <1>b DEF ReadVersion, Goto, FirstPending
  <1>5. ASSUME NEW r \in Runners, ReadBookmark(r)
        PROVE  Fresh(q)'
    <2>1. command[r] # "run"
      BY <1>5, <1>a DEF ReadBookmark
    <2> QED
      BY <1>5, <1>b, <2>1 DEF ReadBookmark, Goto
  <1>6. ASSUME NEW r \in Runners, Resume(r)
        PROVE  Fresh(q)'
    BY <1>6, <1>b DEF Resume, Goto, BeginAt, NextStep
  <1>7. ASSUME NEW r \in Runners, WriteBookmark(r)
        PROVE  Fresh(q)'
    BY <1>7, <1>b DEF WriteBookmark, Goto
  <1>8. ASSUME NEW r \in Runners, Execute(r)
        PROVE  Fresh(q)'
    <2>1. Inside(r)
      BY <1>8 DEF Execute, Reaches, Inside
    <2>2. CASE q # r
      <3>1. ~Inside(q)
        BY <1>a, <2>1, <2>2 DEF HolderInv
      <3>2. conn'[q] = conn[q] /\ pc'[q] = pc[q]
        BY <1>8, <2>2 DEF Execute, Goto
      <3> QED
        BY <3>1, <3>2 DEF Inside
    <2>3. CASE q = r
      <3>1. /\ command' = command /\ conn' = conn /\ target' = target
            /\ pc[r] = "execute"
        BY <1>8 DEF Execute
      <3>2. CASE version' = version
        BY <1>b, <2>3, <3>1, <3>2
      <3>3. CASE version' # version
        <4>1. /\ At(Current(r)).op = "drop" /\ At(Current(r)).table = Settings
              /\ version' = 0
          BY <1>8, <3>3 DEF Execute, Drops
        <4>2. Current(r) \in Statements
          BY <3>1, AtTyped
        <4>3. target[r] = 1
          BY <4>1, <4>2, SettingsAssumption DEF Current
        <4> QED
          BY <2>3, <3>1, <4>1, <4>3
      <3> QED
        BY <3>2, <3>3
    <2> QED
      BY <2>2, <2>3
  <1>9. ASSUME NEW r \in Runners, ExecuteFails(r)
        PROVE  Fresh(q)'
    BY <1>9, <1>b DEF ExecuteFails, Goto
  <1>10. ASSUME NEW r \in Runners, Stamp(r)
        PROVE  Fresh(q)'
    <2>1. Inside(r)
      BY <1>10 DEF Stamp, Reaches, Inside
    <2>2. CASE q # r
      <3>1. ~Inside(q)
        BY <1>a, <2>1, <2>2 DEF HolderInv
      <3>2. conn'[q] = conn[q] /\ pc'[q] = pc[q]
        BY <1>10, <2>2 DEF Stamp, Goto
      <3> QED
        BY <3>1, <3>2 DEF Inside
    <2>3. CASE q = r
      BY <1>10, <2>3 DEF Stamp, Goto
    <2> QED
      BY <2>2, <2>3
  <1>11. ASSUME NEW r \in Runners, StampFails(r)
        PROVE  Fresh(q)'
    BY <1>11, <1>b DEF StampFails, Goto
  <1>12. ASSUME NEW r \in Runners, ClearBookmark(r)
        PROVE  Fresh(q)'
    BY <1>12, <1>b DEF ClearBookmark, Goto
  <1>13. ASSUME NEW r \in Runners, Release(r)
        PROVE  Fresh(q)'
    BY <1>13, <1>b DEF Release, Goto, Return, Unlocked
  <1>14. ASSUME NEW r \in Runners, ResumeBlind(r)
        PROVE  Fresh(q)'
    BY <1>14, <1>b DEF ResumeBlind, Goto, BeginAt, NextStep
  <1>15. ASSUME NEW r \in Runners, ClearFails(r)
        PROVE  Fresh(q)'
    BY <1>15, <1>b DEF ClearFails, Goto
  <1>16. ASSUME NEW r \in Runners, Crash(r)
        PROVE  Fresh(q)'
    BY <1>16, <1>b DEF Crash, Goto, Return, Unlocked
  <1>17. ASSUME NEW r \in Runners, LoseConnection(r)
        PROVE  Fresh(q)'
    BY <1>17, <1>b DEF LoseConnection, Unlocked
  <1>18. CASE UNCHANGED vars
    BY <1>18, <1>b DEF vars, runner
  <1> QED
    BY <1>0, <1>1, <1>2, <1>3, <1>4, <1>5, <1>6, <1>7, <1>8, <1>9, <1>10, <1>11, <1>12, <1>13, <1>14, <1>15, <1>16, <1>17, <1>18 DEF Next, Step, Fault

\* With the lock, the version a run read under it stays the version until the run
\* itself stamps, so that it applies the file right above it, whatever the other
\* processes do and whichever connections are lost.
THEOREM PlanStaysFresh == Spec => []FreshPlan
  <1>1. Init => FreshPlan
    BY DEF Init, FreshPlan
  <1> QED
    BY <1>1, HolderInit, HolderStep, FreshStep, TypeCorrect, PTL DEF Spec
-----------------------------------------------------------------------------
(* The schema and its version.  With the lock, a file applied through the   *)
(* lock's connection is the one above the version or, in a repair, the      *)
(* version's own, which then drops nothing.  A runner whose connection is   *)
(* lost can still write the bookmark; as long as nobody repairs from it,    *)
(* what it says matters only when it is about the file above the version.   *)

NoDrops(v) == \A q \in Statements : Drops(At(q)) => q[1] < v

\* What the files below v and k statements of file v build on an empty database.
Built(v, k) ==
  {o \in Objects :
     \E p \in Preceding(v, k) :
       /\ ~Drops(At(p)) /\ Object(At(p)) = o
       /\ \A q \in Preceding(v, k) : Drops(At(q)) /\ At(q).table = o[1]
                                       => q \in Preceding(p[1], p[2])}

Working(r) == pc[r] \in {"resume", "bookmark", "execute", "stamp"}

Repairs == "repair" \in Commands

\* What a runner inside applyOne relies on.
RunnerOK(r) ==
  /\ command[r] = "repair" => Repairs
  /\ Repairs /\ pc[r] # "idle" => conn[r]
  /\ Working(r) => target[r] <= version + 1
  /\ Working(r) /\ conn[r] =>
       \/ target[r] = version + 1
       \/ Repairs /\ target[r] = version /\ NoDrops(target[r])
  /\ /\ pc[r] \in {"bookmark", "execute"}
     /\ conn[r] \/ (target[r] = version + 1 /\ NoDrops(target[r]))
     => Built(target[r], index[r]) \subseteq schema
  /\ Repairs /\ pc[r] = "execute" => bookmark = NoBookmark \/ bookmark = Place(r)
  /\ pc[r] = "stamp" /\ conn[r] => SchemaAt(target[r]) \subseteq schema
  /\ Repairs /\ pc[r] = "stamp" => bookmark = NoBookmark \/ bookmark.file = target[r]

BookmarkOK ==
  bookmark # NoBookmark =>
    /\ BookmarkFits
    /\ bookmark.file <= version + 1
    /\ Repairs => bookmark.file >= version /\ NoDrops(bookmark.file)
    /\ Repairs \/ bookmark.file = version + 1
         => Built(bookmark.file, bookmark.index) \subseteq schema

SchemaOK ==
  /\ SchemaAt(version) \subseteq schema
  /\ <<Settings, Wide>> \in schema => \E p \in Through(version + 1) : Widens(p)

\* The inductive invariant behind SchemaMatchesVersion.
InStep == lockWorks => SchemaOK /\ BookmarkOK /\ \A r \in Runners : RunnerOK(r)

LEMMA StatementsNumbered ==
  ASSUME NEW p \in Statements
  PROVE  p[1] \in Nat \ {0} /\ p[2] \in Nat \ {0}
  <1>1. p[1] \in Versions /\ p[2] \in 1 .. Len(Files[p[1]])
    BY StatementsTyped
  <1>2. Len(Files[p[1]]) \in Nat
    BY <1>1, FilesTyped
  <1> QED
    BY <1>1, <1>2 DEF Versions

LEMMA PrecedingSplit ==
  ASSUME NEW v \in Versions, NEW k \in Nat
  PROVE  /\ Preceding(v, k) \subseteq Preceding(v, k + 1)
         /\ Preceding(v, k + 1) \subseteq Preceding(v, k) \cup {<<v, k + 1>>}
  BY PrecedingNext, PrecedingMonotone

LEMMA BuiltSame ==
  ASSUME NEW v, NEW k, NEW w, NEW l, Preceding(v, k) = Preceding(w, l)
  PROVE  Built(v, k) = Built(w, l)
  BY DEF Built

LEMMA SchemaAtBuilt ==
  ASSUME NEW v
  PROVE  SchemaAt(v) = Built(v + 1, 0)
  BY DEF SchemaAt, Built, Through

\* At the end of file v, all it builds is there.
LEMMA BuiltAll ==
  ASSUME NEW v \in Versions, NEW k \in Nat, k >= Len(Files[v])
  PROVE  SchemaAt(v) = Built(v, k)
  <1>1. Through(v) \subseteq Preceding(v, k)
    BY PrecedingAll
  <1>2. Preceding(v, k) \subseteq Through(v)
    <2> SUFFICES ASSUME NEW p \in Preceding(v, k)
                 PROVE  p \in Through(v)
      OBVIOUS
    <2>1. p \in Statements /\ (p[1] < v \/ (p[1] = v /\ p[2] <= k))
      BY DEF Preceding
    <2>2. p[1] \in Versions /\ v \in Nat
      BY <2>1, StatementsTyped DEF Versions
    <2> QED
      BY <2>1, <2>2 DEF Through, Preceding, Versions
  <1>3. Preceding(v + 1, 0) = Preceding(v, k)
    BY <1>1, <1>2 DEF Through
  <1> QED
    BY <1>3, BuiltSame, SchemaAtBuilt

\* What the next statement of a file adds to what the ones before it build.
LEMMA BuiltNext ==
  ASSUME NEW v \in Versions, NEW k \in Nat, k < Len(Files[v]), NEW o \in Built(v, k + 1)
  PROVE  LET s == At(<<v, k + 1>>) IN
         IF Drops(s) THEN o \in Built(v, k) /\ o[1] # s.table
                     ELSE o \in Built(v, k) \/ o = Object(s)
  <1> DEFINE cur == <<v, k + 1>>
  <1>1. PICK p \in Preceding(v, k + 1) :
          /\ ~Drops(At(p)) /\ Object(At(p)) = o
          /\ \A q \in Preceding(v, k + 1) : Drops(At(q)) /\ At(q).table = o[1]
                                              => q \in Preceding(p[1], p[2])
    BY DEF Built
  <1>2. /\ Preceding(v, k) \subseteq Preceding(v, k + 1)
        /\ Preceding(v, k + 1) \subseteq Preceding(v, k) \cup {cur}
    BY PrecedingSplit
  <1>3. CASE p = cur
    BY <1>1, <1>3
  <1>4. CASE p # cur
    <2>1. p \in Preceding(v, k)
      BY <1>2, <1>4
    <2>2. o \in Objects
      BY DEF Built
    <2>3. o \in Built(v, k)
      BY <1>1, <1>2, <2>1, <2>2 DEF Built
    <2>4. ASSUME Drops(At(cur)), At(cur).table = o[1] PROVE FALSE
      <3>1. cur \in Preceding(v, k + 1)
        <4>1. Len(Files[v]) \in Nat /\ v \in Nat
          BY FilesTyped DEF Versions
        <4>2. cur \in {v} \X (1 .. Len(Files[v]))
          BY <4>1
        <4>3. cur \in Statements
          BY <4>2 DEF Statements
        <4> QED
          BY <4>1, <4>3 DEF Preceding
      <3>2. cur \in Preceding(p[1], p[2])
        BY <1>1, <2>4, <3>1
      <3>3. v < p[1] \/ (v = p[1] /\ k + 1 <= p[2])
        BY <3>2 DEF Preceding
      <3>4. p \in Statements /\ (p[1] < v \/ (p[1] = v /\ p[2] <= k))
        BY <2>1 DEF Preceding
      <3>5. p[1] \in Nat /\ p[2] \in Nat /\ v \in Nat
        BY <3>4, StatementsTyped, FilesTyped, SMTT(30) DEF Versions
      <3> QED
        BY <3>3, <3>4, <3>5
    <2> QED
      BY <2>3, <2>4
  <1> QED
    BY <1>3, <1>4

\* A file that drops nothing keeps what the files before it have built.
LEMMA BuiltBelow ==
  ASSUME NEW v \in Versions, NoDrops(v)
  PROVE  Built(v, 0) \subseteq SchemaAt(v)
  <1> SUFFICES ASSUME NEW o \in Built(v, 0)
               PROVE  o \in SchemaAt(v)
    OBVIOUS
  <1>0. v \in Nat
    BY DEF Versions
  <1>1. PICK p \in Preceding(v, 0) :
          /\ ~Drops(At(p)) /\ Object(At(p)) = o
          /\ \A q \in Preceding(v, 0) : Drops(At(q)) /\ At(q).table = o[1]
                                          => q \in Preceding(p[1], p[2])
    BY DEF Built
  <1>2. p \in Through(v)
    <2>1. p \in Statements /\ (p[1] < v \/ (p[1] = v /\ p[2] <= 0))
      BY DEF Preceding
    <2>2. p[1] \in Nat
      BY <2>1, StatementsTyped DEF Versions
    <2> QED
      BY <1>0, <2>1, <2>2 DEF Through, Preceding
  <1>3. \A q \in Through(v) : Drops(At(q)) => q \in Preceding(v, 0)
    BY DEF Through, Preceding, NoDrops
  <1>4. o \in Objects
    BY DEF Built
  <1> QED
    BY <1>1, <1>2, <1>3, <1>4 DEF SchemaAt

LEMMA NothingBuilt == SchemaAt(0) = {}
  BY NothingBeforeFirst DEF SchemaAt

\* The files below the one a runner applies have built what is there.
LEMMA BelowTarget ==
  ASSUME TypeOK, SchemaOK, NEW v \in Versions, v \in {version, version + 1},
         v = version => NoDrops(v)
  PROVE  Built(v, 0) \subseteq schema
  <1>1. CASE v = version
    BY <1>1, BuiltBelow DEF SchemaOK
  <1>2. CASE v = version + 1
    <2>1. SchemaAt(version) = Built(v, 0)
      BY <1>2, SchemaAtBuilt
    <2> QED
      BY <2>1 DEF SchemaOK
  <1> QED
    BY <1>1, <1>2

\* Once the settings can hold a bookmark, no file yet to be stamped drops anything.
LEMMA FitsNoDrops ==
  ASSUME SafeFiles, TypeOK, SchemaOK, BookmarkFits
  PROVE  NoDrops(version + 1)
  <1>1. PICK p \in Through(version + 1) : Widens(p)
    BY DEF SchemaOK, BookmarkFits
  <1>2. p \in Statements /\ p[1] < version + 2 /\ p[1] \in Nat /\ version \in Nat
    <2>1. p \in Statements /\ (p[1] < version + 1 + 1 \/ (p[1] = version + 1 + 1 /\ p[2] <= 0))
      BY DEF Through, Preceding
    <2>2. p[1] \in Nat /\ p[2] \in Nat \ {0}
      BY <2>1, StatementsNumbered
    <2>3. version \in Nat
      BY DEF TypeOK
    <2> QED
      BY <2>1, <2>2, <2>3
  <1>3. ASSUME NEW q \in Statements, Drops(At(q)) PROVE q[1] < version + 1
    <2>1. q[1] < p[1]
      BY <1>1, <1>2, <1>3 DEF SafeFiles
    <2>2. q[1] \in Nat
      BY StatementsNumbered
    <2> QED
      BY <1>2, <2>1, <2>2
  <1> QED
    BY <1>3 DEF NoDrops

\* One connected runner at a time is past the lock.
LEMMA Alone ==
  ASSUME HolderInv, lockWorks, NEW r \in Runners, NEW q \in Runners, q # r,
         conn[r], conn[q], pc[r] \notin {"idle", "locking"}
  PROVE  pc[q] \in {"idle", "locking"}
  BY DEF HolderInv, Inside

\* A step of a runner that leaves the database and the others alone.
LEMMA InStepLocal ==
  ASSUME TypeOK, InStep, lockWorks, UNCHANGED db, NEW r \in Runners, RunnerOK(r)',
         Step(r) \/ Fault(r) \/ \E c \in Commands : Start(r, c)
  PROVE  InStep'
  <1>1. SchemaOK' /\ BookmarkOK'
    BY DEF InStep, SchemaOK, BookmarkOK, BookmarkFits, db
  <1>2. ASSUME NEW q \in Runners, q # r PROVE RunnerOK(q)'
    <2>1. /\ pc'[q] = pc[q] /\ command'[q] = command[q] /\ target'[q] = target[q]
          /\ index'[q] = index[q] /\ conn'[q] = conn[q]
      BY <1>2, OnlyOneMoves
    <2>2. RunnerOK(q)
      BY DEF InStep
    <2> QED
      BY <2>1, <2>2 DEF RunnerOK, Working, Place, db
  <1> QED
    BY <1>1, <1>2 DEF InStep

LEMMA NotBelow ==
  ASSUME NEW a \in Nat, NEW b \in Nat, a + 1 <= b + 1, a >= b
  PROVE  a = b
  OBVIOUS

\* A step of a runner past the lock.  Without the connection it can change the
\* bookmark only; with it, what it drops no pending bookmark counts on.
LEMMA InStepHolder ==
  ASSUME TypeOK, HolderInv, InStep, lockWorks, NEW r \in Runners, pc[r] \notin {"idle", "locking"},
         Step(r) \/ Fault(r) \/ \E c \in Commands : Start(r, c),
         SchemaOK', BookmarkOK', RunnerOK(r)',
         version' \in Nat, version' >= version, conn[r] \/ UNCHANGED <<schema, version>>,
         version' = version /\ NoDrops(version + 1) => schema \subseteq schema'
  PROVE  InStep'
  <1>1. ASSUME NEW q \in Runners, q # r PROVE RunnerOK(q)'
    <2>1. /\ pc'[q] = pc[q] /\ command'[q] = command[q] /\ target'[q] = target[q]
          /\ index'[q] = index[q] /\ conn'[q] = conn[q]
      BY <1>1, OnlyOneMoves
    <2>2. RunnerOK(q) /\ RunnerOK(r)
      BY DEF InStep
    <2>3. /\ target[q] \in Nat /\ version \in Nat
      BY DEF TypeOK
    <2>4. CASE pc[q] \in {"idle", "locking"}
      BY <2>1, <2>2, <2>4 DEF RunnerOK, Working
    <2>5. CASE pc[q] \notin {"idle", "locking"} /\ conn[q]
      <3>1. ~conn[r]
        BY <1>1, <2>5, Alone
      <3>2. ~Repairs
        BY <2>2, <3>1 DEF RunnerOK
      <3>3. UNCHANGED <<schema, version>>
        BY <3>1
      <3> QED
        BY <2>1, <2>2, <3>2, <3>3 DEF RunnerOK, Working
    <2>6. CASE pc[q] \notin {"idle", "locking"} /\ ~conn[q]
      <3>1. ~Repairs /\ ~conn'[q]
        BY <2>1, <2>2, <2>6 DEF RunnerOK
      <3>2. command'[q] = "repair" => Repairs
        BY <2>1, <2>2 DEF RunnerOK
      <3>3. Working(q)' => target'[q] <= version' + 1
        BY <2>1, <2>2, <2>3 DEF RunnerOK, Working
      <3>4. ASSUME pc'[q] \in {"bookmark", "execute"}, target'[q] = version' + 1, NoDrops(target'[q])
            PROVE  Built(target'[q], index'[q]) \subseteq schema'
        <4>1. target[q] <= version + 1
          BY <2>1, <2>2, <3>4 DEF RunnerOK, Working
        <4>2. version' = version
          <5>1. target[q] = version' + 1
            BY <2>1, <3>4
          <5>2. version' + 1 <= version + 1 /\ version' \in Nat /\ version' >= version
            BY <4>1, <5>1
          <5> QED
            BY <2>3, <5>2, NotBelow
        <4>3. Built(target[q], index[q]) \subseteq schema
          BY <2>1, <2>2, <3>4, <4>2 DEF RunnerOK
        <4>4. schema \subseteq schema'
          BY <2>1, <3>4, <4>2
        <4> QED
          BY <2>1, <4>3, <4>4
      <3> QED
        BY <3>1, <3>2, <3>3, <3>4 DEF RunnerOK
    <2> QED
      BY <2>4, <2>5, <2>6
  <1> QED
    BY <1>1 DEF InStep

LEMMA InStepInit == Init => InStep
  <1> SUFFICES ASSUME Init PROVE InStep
    OBVIOUS
  <1>1. SchemaOK
    <2>1. ASSUME <<Settings, Wide>> \in schema PROVE \E p \in Through(version + 1) : Widens(p)
      <3>1. PICK p \in Through(version) : ~Drops(At(p)) /\ Object(At(p)) = <<Settings, Wide>>
        BY <2>1 DEF Init, SchemaAt
      <3>2. p \in Statements /\ (p[1] < version + 1 \/ (p[1] = version + 1 /\ p[2] <= 0))
        BY DEF Through, Preceding
      <3>3. p[1] \in Nat /\ p[2] \in Nat \ {0}
        BY <3>2, StatementsNumbered
      <3>4. version \in Nat
        BY DEF Init
      <3>5. p \in Through(version + 1)
        BY <3>2, <3>3, <3>4 DEF Through, Preceding
      <3> QED
        BY <3>1, <3>5 DEF Widens
    <2> QED
      BY <2>1 DEF SchemaOK, Init
  <1>2. BookmarkOK
    BY DEF BookmarkOK, Init
  <1>3. ASSUME NEW r \in Runners PROVE RunnerOK(r)
    <2>1. pc[r] = "idle" /\ command[r] = "run"
      BY DEF Init
    <2> QED
      BY <2>1 DEF RunnerOK, Working
  <1> QED
    BY <1>1, <1>2, <1>3 DEF InStep

\* Beginning a file, at the bookmark or at its first statement.
LEMMA BeginsInStep ==
  ASSUME SafeFiles, TypeOK, InStep, lockWorks, NEW r \in Runners, pc[r] = "resume", NEW k \in Nat,
         k < Len(Files[target[r]]),
         conn[r] \/ (target[r] = version + 1 /\ NoDrops(target[r]))
           => Built(target[r], k) \subseteq schema,
         BeginAt(r, k), Step(r) \/ Fault(r)
  PROVE  InStep'
  <1>1. /\ index'[r] = k /\ target'[r] = target[r] /\ pc'[r] = "bookmark"
        /\ conn'[r] = conn[r] /\ command'[r] = command[r]
        /\ UNCHANGED db
    BY DEF BeginAt, Goto, NextStep, TypeOK
  <1>2. RunnerOK(r)
    BY DEF InStep
  <1>3. RunnerOK(r)'
    BY <1>1, <1>2 DEF RunnerOK, Working, db
  <1> QED
    BY <1>1, <1>3, InStepLocal

LEMMA WritesInStep ==
  ASSUME SafeFiles, TypeOK, HolderInv, InStep, lockWorks, NEW r \in Runners, WriteBookmark(r)
  PROVE  InStep'
  <1>1. /\ pc[r] = "bookmark" /\ pc'[r] = "execute"
        /\ bookmark' = IF BookmarkFits THEN Place(r) ELSE bookmark
        /\ UNCHANGED <<schema, version, done, command, target, index, conn>>
    BY DEF WriteBookmark, Goto, TypeOK
  <1>2. SchemaOK /\ BookmarkOK /\ RunnerOK(r)
    BY DEF InStep
  <1>3. /\ target[r] \in Nat /\ version \in Nat /\ target[r] <= version + 1
        /\ conn[r] => target[r] = version + 1
                      \/ (Repairs /\ target[r] = version /\ NoDrops(target[r]))
        /\ Repairs => conn[r]
        /\ conn[r] \/ (target[r] = version + 1 /\ NoDrops(target[r]))
             => Built(target[r], index[r]) \subseteq schema
    BY <1>1, <1>2 DEF RunnerOK, Working, TypeOK
  <1>4. BookmarkFits => NoDrops(version + 1)
    BY <1>2, FitsNoDrops
  <1>5. Place(r).file = target[r] /\ Place(r).index = index[r] /\ Place(r)' = Place(r)
    BY <1>1 DEF Place
  <1>6. SchemaOK'
    BY <1>1, <1>2 DEF SchemaOK
  <1>7. BookmarkOK'
    <2>1. CASE BookmarkFits
      <3>1. Repairs => target[r] >= version /\ NoDrops(target[r])
        BY <1>3, <1>4, <2>1
      <3>2. Repairs \/ target[r] = version + 1 => Built(target[r], index[r]) \subseteq schema
        BY <1>3, <1>4, <2>1
      <3> QED
        BY <1>1, <1>3, <1>5, <2>1, <3>1, <3>2 DEF BookmarkOK, BookmarkFits
    <2>2. CASE ~BookmarkFits
      BY <1>1, <1>2, <2>2 DEF BookmarkOK, BookmarkFits
    <2> QED
      BY <2>1, <2>2
  <1>8. RunnerOK(r)'
    <2>1. bookmark' = NoBookmark \/ bookmark' = Place(r)
      BY <1>1, <1>2 DEF BookmarkOK
    <2> QED
      BY <1>1, <1>2, <1>5, <2>1 DEF RunnerOK, Working
  <1>9. Step(r)
    BY DEF Step
  <1>10. /\ version' \in Nat /\ version' >= version /\ UNCHANGED <<schema, version>>
         /\ schema \subseteq schema'
    BY <1>1, <1>3
  <1> QED
    BY <1>1, <1>6, <1>7, <1>8, <1>9, <1>10, InStepHolder

\* A statement of a file that is being applied leaves what the version promises.
LEMMA ExecutesInStep ==
  ASSUME SafeFiles, TypeOK, HolderInv, InStep, lockWorks, NEW r \in Runners, Execute(r)
  PROVE  InStep' /\ version' = version
  <1> DEFINE s == At(Current(r))
  <1> DEFINE v == target[r]
  <1> DEFINE k == index[r]
  <1>1. /\ pc[r] = "execute" /\ ~Rejected(s)
        /\ schema' = IF Tolerated(s) THEN schema ELSE After(s)
        /\ IF Drops(s) /\ s.table = Settings
           THEN version' = 0 /\ bookmark' = NoBookmark
           ELSE UNCHANGED <<version, bookmark>>
        /\ index'[r] = k + 1 /\ target'[r] = v /\ conn[r] /\ conn'[r] = conn[r]
        /\ command'[r] = command[r] /\ pc'[r] = NextStep(v, k + 1)
    BY DEF Execute, Goto, Reaches, TypeOK
  <1>2. SchemaOK /\ BookmarkOK /\ RunnerOK(r)
    BY DEF InStep
  <1>3. /\ v \in Versions /\ k \in Nat /\ version \in Nat /\ k < Len(Files[v])
        /\ Len(Files[v]) \in Nat
    <2>1. v \in 1 .. Build[r] /\ k \in Nat /\ version \in Nat /\ k < Len(Files[v])
      BY <1>1 DEF TypeOK
    <2>2. v \in Versions
      BY <2>1 DEF Versions
    <2> QED
      BY <2>1, <2>2, FilesTyped
  <1>4. Current(r) = <<v, k + 1>> /\ Current(r) \in Statements /\ s \in Statement
    BY <1>1, AtTyped DEF Current
  <1>5. /\ v \in {version, version + 1}
        /\ v # version + 1 => Repairs /\ NoDrops(v)
        /\ Built(v, k) \subseteq schema
        /\ Repairs => bookmark = NoBookmark \/ bookmark = Place(r)
        /\ command[r] = "repair" => Repairs
    BY <1>1, <1>2 DEF RunnerOK, Working
  <1>6. ASSUME Drops(s) PROVE v = version + 1 /\ ~NoDrops(version + 1) /\ bookmark = NoBookmark
    <2>1. ~NoDrops(v)
      <3>1. Current(r) \in Statements /\ Current(r)[1] = v /\ Drops(At(Current(r)))
        BY <1>4, <1>6
      <3>2. v \in Nat
        BY <1>3 DEF Versions
      <3> HIDE DEF v, s
      <3> QED
        BY <3>1, <3>2 DEF NoDrops
    <2>2. v = version + 1
      BY <1>5, <2>1
    <2>3. ~BookmarkFits
      BY <1>2, <2>1, <2>2, FitsNoDrops
    <2> QED
      BY <1>2, <2>1, <2>2, <2>3 DEF BookmarkOK
  <1>7. version' = version
    <2> SUFFICES ASSUME Drops(s), s.table = Settings PROVE version = 0
      BY <1>1
    <2>1. v = 1
      BY <1>4, SettingsAssumption DEF Drops
    <2> QED
      BY <1>3, <1>6, <2>1
  <1>8. bookmark' = bookmark
    BY <1>1, <1>6
  <1>9. IF Drops(s) THEN schema' = {o \in schema : o[1] # s.table}
                    ELSE schema \subseteq schema' /\ Object(s) \in schema'
    BY <1>1 DEF After, Tolerated, Drops
  <1> HIDE DEF s, v, k
  <1>10. Built(v, k + 1) \subseteq schema'
    <2> SUFFICES ASSUME NEW o \in Built(v, k + 1) PROVE o \in schema'
      OBVIOUS
    <2>1. IF Drops(At(<<v, k + 1>>)) THEN o \in Built(v, k) /\ o[1] # At(<<v, k + 1>>).table
                      ELSE o \in Built(v, k) \/ o = Object(At(<<v, k + 1>>))
      BY <1>3, BuiltNext
    <2>2. s = At(<<v, k + 1>>)
      BY <1>4 DEF s
    <2> QED
      BY <1>5, <1>9, <2>1, <2>2
  <1>11. SchemaAt(version) \subseteq schema'
    <2>1. SchemaAt(version) \subseteq schema
      BY <1>2 DEF SchemaOK
    <2>2. CASE ~Drops(s)
      BY <1>9, <2>1, <2>2
    <2>3. CASE Drops(s)
      <3> SUFFICES ASSUME NEW o \in SchemaAt(version), o[1] = s.table PROVE FALSE
        BY <1>9, <2>1, <2>3
      <3>1. PICK p \in Through(version) : ~Drops(At(p)) /\ Object(At(p)) = o
        BY DEF SchemaAt
      <3>2. At(p).table = s.table
        BY <3>1 DEF Object
      <3>3. p \in Statements
        BY PrecedingTyped
      <3>4. Current(r)[1] <= p[1]
        BY <1>4, <2>3, <3>1, <3>2, <3>3, Zenon DEF SafeFiles, s
      <3>5. p[1] < version + 1 \/ (p[1] = version + 1 /\ p[2] <= 0)
        BY DEF Through, Preceding
      <3>6. p[1] \in Nat /\ p[2] \in Nat \ {0}
        BY <3>3, StatementsTyped, FilesTyped DEF Versions
      <3>7. Current(r)[1] = version + 1
        BY <1>4, <1>6, <2>3
      <3> QED
        BY <1>3, <3>4, <3>5, <3>6, <3>7
    <2> QED
      BY <2>2, <2>3
  <1>12. SchemaOK'
    <2>1. ASSUME <<Settings, Wide>> \in schema' PROVE \E p \in Through(version + 1) : Widens(p)
      <3>1. CASE <<Settings, Wide>> \in schema
        BY <1>2, <3>1 DEF SchemaOK
      <3>2. CASE <<Settings, Wide>> \notin schema
        <4>1. ~Drops(s) /\ Object(s) = <<Settings, Wide>>
          BY <1>1, <1>9, <2>1, <3>2 DEF After
        <4>2. Widens(Current(r))
          BY <4>1 DEF Widens, s
        <4>3. Current(r) \in Through(version + 1)
          BY <1>3, <1>4, <1>5 DEF Through, Preceding
        <4> QED
          BY <4>2, <4>3
      <3> QED
        BY <3>1, <3>2
    <2> QED
      BY <1>7, <1>11, <2>1 DEF SchemaOK
  <1>13. BookmarkOK'
    <2> SUFFICES ASSUME bookmark # NoBookmark
                 PROVE  /\ bookmark.file <= version + 1
                        /\ Repairs => bookmark.file >= version /\ NoDrops(bookmark.file)
                        /\ BookmarkFits'
                        /\ Repairs \/ bookmark.file = version + 1
                             => Built(bookmark.file, bookmark.index) \subseteq schema'
      BY <1>7, <1>8 DEF BookmarkOK
    <2>1. schema \subseteq schema'
      BY <1>6, <1>9
    <2> QED
      BY <2>1, <1>2 DEF BookmarkOK, BookmarkFits
  <1>14. RunnerOK(r)'
    <2>1. SchemaAt(v) \subseteq schema' \/ pc'[r] # "stamp"
      <3>1. pc'[r] = "stamp" => k + 1 >= Len(Files[v])
        BY <1>1, <1>3 DEF NextStep
      <3>2. k + 1 >= Len(Files[v]) => SchemaAt(v) = Built(v, k + 1)
        BY <1>3, BuiltAll
      <3> QED
        BY <1>10, <3>1, <3>2
    <2>2. Repairs => bookmark = NoBookmark \/ bookmark.file = v
      BY <1>5 DEF Place, v
    <2>3. target'[r] = v /\ index'[r] = k + 1 /\ conn'[r] /\ command'[r] = command[r]
      BY <1>1
    <2>4. pc'[r] \in {"bookmark", "stamp"}
      BY <1>1 DEF NextStep
    <2>5. /\ v <= version' + 1
          /\ v = version' + 1 \/ (Repairs /\ v = version' /\ NoDrops(v))
      BY <1>3, <1>5, <1>7
    <2> QED
      BY <1>5, <1>8, <1>10, <2>1, <2>2, <2>3, <2>4, <2>5 DEF RunnerOK, Working
  <1>15. Step(r)
    BY DEF Step
  <1>16. /\ version' \in Nat /\ version' >= version
         /\ version' = version /\ NoDrops(version + 1) => schema \subseteq schema'
    BY <1>3, <1>6, <1>7, <1>9
  <1> QED
    BY <1>1, <1>7, <1>12, <1>13, <1>14, <1>15, <1>16, InStepHolder

LEMMA StampsInStep ==
  ASSUME TypeOK, HolderInv, InStep, lockWorks, NEW r \in Runners, Stamp(r)
  PROVE  InStep' /\ version' >= version
  <1>1. /\ pc[r] = "stamp" /\ version' = target[r] /\ UNCHANGED <<schema, bookmark>>
        /\ conn[r] /\ conn'[r] = conn[r] /\ command'[r] = command[r]
        /\ \/ pc'[r] = "resume" /\ target'[r] = target[r] + 1
           \/ pc'[r] = "clear"
    BY DEF Stamp, Goto, Reaches, TypeOK
  <1>2. SchemaOK /\ BookmarkOK /\ RunnerOK(r)
    BY DEF InStep
  <1>3. /\ SchemaAt(target[r]) \subseteq schema
        /\ Repairs => bookmark = NoBookmark \/ bookmark.file = target[r]
        /\ command[r] = "repair" => Repairs
        /\ target[r] \in {version, version + 1} /\ (target[r] = version => Repairs)
        /\ version \in Nat /\ target[r] \in Nat
    <2>1. /\ SchemaAt(target[r]) \subseteq schema
          /\ Repairs => bookmark = NoBookmark \/ bookmark.file = target[r]
          /\ command[r] = "repair" => Repairs
          /\ target[r] = version + 1 \/ (Repairs /\ target[r] = version)
      BY <1>1, <1>2 DEF RunnerOK, Working
    <2>2. version \in Nat /\ target[r] \in Nat
      BY DEF TypeOK
    <2> QED
      BY <2>1, <2>2
  <1>4. SchemaOK'
    <2>1. Through(version + 1) \subseteq Through(target[r] + 1)
      <3> SUFFICES ASSUME NEW p \in Through(version + 1), target[r] = version + 1
                   PROVE  p \in Through(target[r] + 1)
        BY <1>3
      <3>1. p \in Statements /\ (p[1] < version + 1 + 1 \/ (p[1] = version + 1 + 1 /\ p[2] <= 0))
        BY DEF Through, Preceding
      <3>2. p[1] \in Nat /\ p[2] \in Nat
        BY <3>1, StatementsTyped, FilesTyped DEF Versions
      <3> QED
        BY <1>3, <3>1, <3>2 DEF Through, Preceding
    <2> QED
      BY <1>1, <1>2, <1>3, <2>1 DEF SchemaOK
  <1>5. BookmarkOK'
    <2> SUFFICES ASSUME bookmark # NoBookmark
                 PROVE  /\ BookmarkFits
                        /\ bookmark.file <= target[r] + 1
                        /\ Repairs => bookmark.file >= target[r] /\ NoDrops(bookmark.file)
                        /\ Repairs \/ bookmark.file = target[r] + 1
                             => Built(bookmark.file, bookmark.index) \subseteq schema
      BY <1>1 DEF BookmarkOK, BookmarkFits
    <2>1. bookmark.file \in Nat
      BY BookmarkTyped DEF Versions
    <2>2. /\ BookmarkFits /\ bookmark.file <= version + 1
          /\ Repairs => NoDrops(bookmark.file)
          /\ Repairs => Built(bookmark.file, bookmark.index) \subseteq schema
      BY <1>2 DEF BookmarkOK
    <2> QED
      BY <1>3, <2>1, <2>2
  <1>6. RunnerOK(r)'
    BY <1>1, <1>3 DEF RunnerOK, Working
  <1>7. Step(r)
    BY DEF Step
  <1>8. /\ version' \in Nat /\ version' >= version /\ schema \subseteq schema'
    BY <1>1, <1>3
  <1> QED
    BY <1>1, <1>4, <1>5, <1>6, <1>7, <1>8, InStepHolder

LEMMA InStepStep ==
  ASSUME SafeFiles, MaxLost = 0 \/ ~Repairs
  PROVE  TypeOK /\ HolderInv /\ InStep /\ [Next]_vars =>
           InStep' /\ [lockWorks => version' >= version]_version
  <1> SUFFICES ASSUME TypeOK, HolderInv, InStep, [Next]_vars
               PROVE  InStep' /\ (lockWorks => version' >= version)
    OBVIOUS
  <1>a. lockWorks' = lockWorks
    BY DEF Next, Step, Fault, vars, Start, GetLock, LockUnavailable, LockTimeout, ReadVersion,
       ReadBookmark, Resume, ResumeBlind, BeginAt, WriteBookmark, Execute, ExecuteFails, Stamp,
       StampFails, ClearBookmark, ClearFails, Release, Crash, LoseConnection
  <1>b. CASE ~lockWorks
    BY <1>a, <1>b DEF InStep
  <1>c. CASE lockWorks
    <2>a. SchemaOK /\ BookmarkOK /\ \A r \in Runners : RunnerOK(r)
      BY <1>c DEF InStep
    <2>b. version >= version
      BY DEF TypeOK
    \* A step that leaves the database alone and takes r out of applyOne.
    <2>c. ASSUME NEW r \in Runners, Step(r) \/ Fault(r) \/ \E c \in Commands : Start(r, c),
                 UNCHANGED db, ~Working(r)', pc'[r] = "idle" \/ (Repairs => conn'[r]),
                 command'[r] \in {"run", command[r]} \cup Commands
          PROVE  InStep' /\ version' >= version
      <3>1. command'[r] = "repair" => Repairs
        BY <2>a, <2>c DEF RunnerOK, Repairs
      <3>2. RunnerOK(r)'
        BY <2>c, <3>1 DEF RunnerOK, Working
      <3> QED
        BY <1>c, <2>b, <2>c, <3>2, InStepLocal DEF db
    <2>d. ASSUME NEW r \in Runners, pc[r] # "idle" PROVE Repairs => conn[r]
      BY <2>a, <2>d DEF RunnerOK
    <2>0. ASSUME NEW r \in Runners, NEW c \in Commands, Start(r, c)
          PROVE  InStep' /\ version' >= version
      BY <2>0, <2>c DEF Start, Goto, TypeOK, Working
    <2>1. ASSUME NEW r \in Runners, GetLock(r)
          PROVE  InStep' /\ version' >= version
      <3>0. Step(r)
        BY <2>1 DEF Step
      <3> QED
        BY <2>1, <2>c, <2>d, <3>0 DEF GetLock, Goto, AfterLock, TypeOK, Working
    <2>2. ASSUME NEW r \in Runners, LockUnavailable(r)
          PROVE  InStep' /\ version' >= version
      <3>0. Step(r)
        BY <2>2 DEF Step
      <3> QED
        BY <2>2, <2>c, <2>d, <3>0 DEF LockUnavailable, Goto, AfterLock, TypeOK, Working
    <2>3. ASSUME NEW r \in Runners, LockTimeout(r)
          PROVE  InStep' /\ version' >= version
      <3>0. Step(r)
        BY <2>3 DEF Step
      <3> QED
        BY <2>3, <2>c, <3>0 DEF LockTimeout, Goto, Return, TypeOK, Working
    <2>4. ASSUME NEW r \in Runners, ReadVersion(r)
          PROVE  InStep' /\ version' >= version
      <3>0. Step(r) /\ (Repairs => conn[r])
        BY <2>4, <2>d DEF Step, ReadVersion
      <3>1. CASE FirstPending(version) > Build[r]
        BY <2>4, <2>c, <3>0, <3>1 DEF ReadVersion, Goto, TypeOK, Working
      <3>2. CASE ~(FirstPending(version) > Build[r])
        <4>1. /\ pc'[r] = "resume" /\ target'[r] = version + 1 /\ UNCHANGED <<command, conn, db>>
          BY <2>4, <3>2 DEF ReadVersion, Goto, TypeOK, FirstPending
        <4>2. version' = version /\ version \in Nat
          BY <4>1 DEF db, TypeOK
        <4>3. RunnerOK(r)'
          BY <2>a, <3>0, <4>1, <4>2 DEF RunnerOK, Working
        <4> QED
          BY <1>c, <3>0, <4>1, <4>2, <4>3, InStepLocal
      <3> QED
        BY <3>1, <3>2
    <2>5. ASSUME NEW r \in Runners, ReadBookmark(r)
          PROVE  InStep' /\ version' >= version
      <3>0. Step(r) /\ Repairs /\ conn[r]
        <4>1. Step(r) /\ pc[r] = "readBookmark"
          BY <2>5 DEF Step, ReadBookmark
        <4>2. command[r] = "repair"
          BY <4>1 DEF TypeOK
        <4> QED
          BY <2>a, <4>1, <4>2 DEF RunnerOK
      <3>1. CASE bookmark = NoBookmark \/ bookmark.file > Build[r]
        BY <2>5, <2>c, <3>0, <3>1 DEF ReadBookmark, Goto, TypeOK, Working
      <3>2. CASE bookmark # NoBookmark /\ ~(bookmark.file > Build[r])
        <4>1. /\ pc'[r] = "resume" /\ target'[r] = bookmark.file /\ UNCHANGED <<command, conn, db>>
          BY <2>5, <3>2 DEF ReadBookmark, Goto, TypeOK
        <4>2. version' = version /\ version \in Nat
          BY <4>1 DEF db, TypeOK
        <4>3. bookmark.file \in {version, version + 1} /\ NoDrops(bookmark.file)
          <5>1. /\ bookmark.file <= version + 1 /\ bookmark.file >= version
                /\ NoDrops(bookmark.file)
            BY <2>a, <3>0, <3>2 DEF BookmarkOK
          <5>2. bookmark.file \in Nat
            BY <3>2, BookmarkTyped DEF Versions
          <5> QED
            BY <4>2, <5>1, <5>2
        <4>4. RunnerOK(r)'
          BY <2>a, <3>0, <4>1, <4>2, <4>3 DEF RunnerOK, Working
        <4> QED
          BY <1>c, <3>0, <4>1, <4>2, <4>4, InStepLocal
      <3> QED
        BY <3>1, <3>2
    \* Where file target[r] may be begun.
    <2>e. ASSUME NEW r \in Runners, pc[r] = "resume"
          PROVE  /\ target[r] \in Versions /\ 0 < Len(Files[target[r]])
                 /\ conn[r] \/ target[r] = version + 1 => Built(target[r], 0) \subseteq schema
      <3>1. target[r] \in Versions
        BY <2>e DEF TypeOK, Versions
      <3>2. Files[target[r]] # <<>> /\ Files[target[r]] \in Seq(Statement)
        BY <3>1, FilesTyped DEF SafeFiles
      <3>3. 0 < Len(Files[target[r]])
        BY <3>2
      <3>4. ASSUME conn[r] \/ target[r] = version + 1
            PROVE  Built(target[r], 0) \subseteq schema
        <4>1. /\ target[r] \in {version, version + 1}
              /\ target[r] # version + 1 => NoDrops(target[r])
          BY <2>a, <2>e, <3>4 DEF RunnerOK, Working
        <4>2. version \in Nat
          BY DEF TypeOK
        <4> QED
          BY <2>a, <3>1, <4>1, <4>2, BelowTarget
      <3> QED
        BY <3>1, <3>3, <3>4
    <2>6. ASSUME NEW r \in Runners, Resume(r)
          PROVE  InStep' /\ version' >= version
      <3> DEFINE k == ResumeIndex(target[r])
      <3>0. Step(r) /\ pc[r] = "resume" /\ BeginAt(r, k) /\ version' = version
        BY <2>6 DEF Step, Resume, BeginAt, db
      <3>1. k \in Nat
        BY <2>e, <3>0, ResumeIndexTyped
      <3>2. k < Len(Files[target[r]])
        BY <2>e, <3>0 DEF ResumeIndex
      <3>3. ASSUME conn[r] \/ target[r] = version + 1
            PROVE  Built(target[r], k) \subseteq schema
        <4>1. k = 0 \/ (bookmark # NoBookmark /\ bookmark.file = target[r] /\ k = bookmark.index)
          BY DEF ResumeIndex
        <4>2. Repairs \/ target[r] = version + 1
          BY <2>a, <3>0, <3>3 DEF RunnerOK, Working
        <4>3. Built(target[r], 0) \subseteq schema
          BY <2>e, <3>0, <3>3
        <4> HIDE DEF k
        <4> QED
          BY <2>a, <4>1, <4>2, <4>3 DEF BookmarkOK
      <3> HIDE DEF k
      <3> QED
        BY <1>c, <2>b, <3>0, <3>1, <3>2, <3>3, BeginsInStep
    <2>7. ASSUME NEW r \in Runners, ResumeBlind(r)
          PROVE  InStep' /\ version' >= version
      <3>0. Fault(r) /\ pc[r] = "resume" /\ BeginAt(r, 0) /\ version' = version
        BY <2>7 DEF Fault, ResumeBlind, BeginAt, db
      <3> QED
        BY <1>c, <2>b, <2>e, <3>0, BeginsInStep
    <2>8. ASSUME NEW r \in Runners, WriteBookmark(r)
          PROVE  InStep' /\ version' >= version
      <3>1. version' = version
        BY <2>8 DEF WriteBookmark
      <3> QED
        BY <1>c, <2>b, <2>8, <3>1, WritesInStep
    <2>9. ASSUME NEW r \in Runners, Execute(r)
          PROVE  InStep' /\ version' >= version
      BY <1>c, <2>b, <2>9, ExecutesInStep
    <2>10. ASSUME NEW r \in Runners, ExecuteFails(r)
           PROVE  InStep' /\ version' >= version
      <3>0. Step(r)
        BY <2>10 DEF Step
      <3> QED
        BY <2>10, <2>c, <2>d, <3>0 DEF ExecuteFails, Goto, TypeOK, Working
    <2>11. ASSUME NEW r \in Runners, Stamp(r)
           PROVE  InStep' /\ version' >= version
      BY <1>c, <2>11, StampsInStep
    <2>12. ASSUME NEW r \in Runners, StampFails(r)
           PROVE  InStep' /\ version' >= version
      <3>0. Step(r)
        BY <2>12 DEF Step
      <3> QED
        BY <2>12, <2>c, <2>d, <3>0 DEF StampFails, Goto, TypeOK, Working
    <2>13. ASSUME NEW r \in Runners, ClearBookmark(r)
           PROVE  InStep' /\ version' >= version
      <3>0. /\ Step(r) /\ pc[r] = "clear" /\ pc'[r] = "release" /\ conn' = conn
            /\ bookmark' = NoBookmark /\ UNCHANGED <<schema, version>>
        BY <2>13 DEF Step, ClearBookmark, Goto, TypeOK
      <3>1. command' = command /\ version' \in Nat
        BY <2>13, <3>0 DEF ClearBookmark, TypeOK
      <3>2. SchemaOK' /\ BookmarkOK' /\ RunnerOK(r)'
        BY <2>a, <3>0, <3>1 DEF SchemaOK, BookmarkOK, RunnerOK, Working
      <3> QED
        BY <1>c, <2>b, <3>0, <3>1, <3>2, InStepHolder
    <2>14. ASSUME NEW r \in Runners, ClearFails(r)
           PROVE  InStep' /\ version' >= version
      <3>0. Fault(r)
        BY <2>14 DEF Fault
      <3> QED
        BY <2>14, <2>c, <2>d, <3>0 DEF ClearFails, Goto, TypeOK, Working
    <2>15. ASSUME NEW r \in Runners, Release(r)
           PROVE  InStep' /\ version' >= version
      <3>0. Step(r)
        BY <2>15 DEF Step
      <3> QED
        BY <2>15, <2>c, <3>0 DEF Release, Goto, Return, TypeOK, Working
    <2>16. ASSUME NEW r \in Runners, Crash(r)
           PROVE  InStep' /\ version' >= version
      <3>0. Fault(r)
        BY <2>16 DEF Fault
      <3> QED
        BY <2>16, <2>c, <3>0 DEF Crash, Goto, Return, TypeOK, Working
    <2>17. ASSUME NEW r \in Runners, LoseConnection(r)
           PROVE  InStep' /\ version' >= version
      <3>1. /\ pc' = pc /\ command' = command /\ target' = target /\ index' = index
            /\ ~conn'[r] /\ UNCHANGED db /\ conn[r] /\ lost < MaxLost
        BY <2>17 DEF LoseConnection, TypeOK
      <3>2. ~Repairs
        BY <3>1 DEF TypeOK
      <3>3. RunnerOK(r)'
        BY <2>a, <3>1, <3>2 DEF RunnerOK, Working, db
      <3>4. Fault(r)
        BY <2>17 DEF Fault
      <3> QED
        BY <1>c, <2>b, <3>1, <3>3, <3>4, InStepLocal DEF db
    <2>18. CASE UNCHANGED vars
      <3>1. SchemaOK' /\ BookmarkOK' /\ version' = version
        BY <2>18, <2>a DEF SchemaOK, BookmarkOK, BookmarkFits, vars, db
      <3>2. \A r \in Runners : RunnerOK(r)'
        BY <2>18, <2>a DEF RunnerOK, Working, Place, vars, db, runner
      <3> QED
        BY <2>b, <3>1, <3>2 DEF InStep
    <2> QED
      BY <2>0, <2>1, <2>2, <2>3, <2>4, <2>5, <2>6, <2>7, <2>8, <2>9, <2>10, <2>11, <2>12,
         <2>13, <2>14, <2>15, <2>16, <2>17, <2>18 DEF Next, Step, Fault
  <1> QED
    BY <1>b, <1>c

\* For files like those of migrations/ and with the lock, all that the files up to
\* the stamped version build is in the database, whatever crashes and is started
\* again: when processes only run, also if their connections are lost under them,
\* and when some repair, if none is.
THEOREM SchemaKeepsUp ==
  ASSUME SafeFiles, MaxLost = 0 \/ "repair" \notin Commands
  PROVE  Spec => []SchemaMatchesVersion
  <1>1. InStep => SchemaMatchesVersion
    BY DEF InStep, SchemaOK, SchemaMatchesVersion
  <1>2. TypeOK /\ HolderInv /\ InStep /\ [Next]_vars => InStep'
    BY InStepStep DEF Repairs
  <1> QED
    BY <1>1, <1>2, InStepInit, HolderInit, HolderStep, TypeCorrect, PTL DEF Spec

\* Under the same conditions the version row never goes back, whichever builds
\* run or repair in whatever order (runner.go:118).
THEOREM VersionAdvances ==
  ASSUME SafeFiles, MaxLost = 0 \/ "repair" \notin Commands
  PROVE  Spec => VersionOnlyAdvances
  <1>1. TypeOK /\ HolderInv /\ InStep /\ [Next]_vars =>
          InStep' /\ [lockWorks => version' >= version]_version
    BY InStepStep DEF Repairs
  <1> QED
    BY <1>1, InStepInit, HolderInit, HolderStep, TypeCorrect, PTL DEF Spec, VersionOnlyAdvances
=============================================================================
