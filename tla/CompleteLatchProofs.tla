------------------------ MODULE CompleteLatchProofs ------------------------
(***************************************************************************)
(* Proofs about a batch of tasks, for every finite set of tasks.  The      *)
(* inductive invariant IInv says what the counter counts (Count), which    *)
(* tasks are counted at which point of the submission (Submission), and    *)
(* where the participant that saw the counter at zero is (Last, Reports,   *)
(* Reporter).                                                              *)
(***************************************************************************)
EXTENDS CompleteLatch, FiniteSetTheorems, TLAPS

\* The counter holds one for the submitter and one per counted task, less
\* those that were decremented.
Count == taskNotCompleted = 1 + Cardinality(counted) - Cardinality(Checked)

\* All accepted tasks are counted but the one between the two halves of
\* submit; nothing is accepted after the loop; results are there from
\* addResult on.
Submission ==
    /\ pc[Submitter] # "increase" => counted = Accepted
    /\ pc[Submitter] = "increase" => \E t \in Tasks \ counted : Accepted = counted \cup {t}
    /\ pc[Submitter] \notin {"next", "increase"} => \A t \in Tasks : pc[t] # "offered"
    /\ hasSubmitCompleted <=> pc[Submitter] \notin {"next", "increase", "submitCompleted"}
    /\ list = {t \in Accepted : pc[t] \notin {"queued", "lost", "executing"}}
    /\ (Checked \cap Tasks) \ counted \subseteq early

\* A zero that was not read too early was read when all were through, and by
\* one participant.
Last ==
    early = {} => \A p \in Procs : isLast[p] =>
        /\ Checked = Accepted \cup {Submitter}
        /\ \A q \in Procs : isLast[q] => q = p

\* Whoever reports saw the zero after the last submission and reports once.
Reports ==
    /\ \A p \in Procs : pc[p] \in {"complete", "completing", "countDown"} =>
          isLast[p] /\ hasSubmitCompleted
    /\ \A p \in Procs : pc[p] \in {"completing", "countDown"} => \E c \in calls : c.by = p
    /\ \A c \in calls : /\ isLast[c.by] /\ hasSubmitCompleted
                        /\ pc[c.by] \notin {"check", "flag", "complete"}
                        /\ early = {} => c.results = list
    /\ \A c, d \in calls : c.by = d.by => c = d
    /\ \A p \in Procs : isLast[p] => p \in Checked
    /\ latch = 0 => \E c \in calls : pc[c.by] # "completing"
    /\ pc[Submitter] = "released" => latch = 0

\* When all are through, one of them saw the zero, and has reported the
\* batch in full or is about to.
Reporter ==
    Accepted \cup {Submitter} \subseteq Checked =>
        \E p \in Procs : /\ isLast[p]
                         /\ \/ pc[p] \in {"flag", "complete"}
                            \/ \E c \in calls : c.by = p /\ c.results = Accepted

IInv == TypeOK /\ Count /\ Submission /\ Last /\ Reports /\ Reporter

-----------------------------------------------------------------------------
(* Typing *)

LEMMA InitTyped == Init => TypeOK
<1> SUFFICES ASSUME Init PROVE TypeOK
  OBVIOUS
<1> USE BatchAssumption DEF Init, Procs
<1>1. pc \in [Procs -> SubmitterSteps \cup TaskSteps]
  BY DEF SubmitterSteps, TaskSteps
<1>2. pc[Submitter] \in SubmitterSteps /\ \A t \in Tasks : pc[t] \in TaskSteps
  BY DEF SubmitterSteps, TaskSteps
<1>3. hasSubmitCompleted \in BOOLEAN /\ isLast \in [Procs -> BOOLEAN]
  OBVIOUS
<1>4. calls \in SUBSET [by : Procs, results : SUBSET Tasks]
  BY Zenon
<1>5. taskNotCompleted \in Int /\ latch \in {0, 1} /\ list \subseteq Tasks
      /\ counted \subseteq Tasks /\ early \subseteq Tasks
  OBVIOUS
<1> QED BY <1>1, <1>2, <1>3, <1>4, <1>5, Zenon DEF TypeOK

\* Every step keeps the variables in their types.
LEMMA NextTyped == TypeOK /\ [Next]_vars => TypeOK'
<1> SUFFICES ASSUME TypeOK, [Next]_vars PROVE TypeOK'
  OBVIOUS
<1> USE BatchAssumption DEF TypeOK, Procs, SubmitterSteps, TaskSteps, CheckSteps,
        Goto, shared, history
<1>1. CASE Submitting
  <2>1. ASSUME NEW t \in Tasks, Skip(t) PROVE TypeOK'
    BY <2>1 DEF Skip
  <2>2. ASSUME NEW t \in Tasks, Submit(t) PROVE TypeOK'
    BY <2>2 DEF Submit
  <2>3. CASE Increase
    BY <2>3 DEF Increase, Accepted
  <2>4. CASE LeaveLoop
    BY <2>4 DEF LeaveLoop
  <2>5. CASE SubmitCompleted
    BY <2>5 DEF SubmitCompleted
  <2> QED BY <1>1, <2>1, <2>2, <2>3, <2>4, <2>5 DEF Submitting
<1>2. CASE Await
  BY <1>2 DEF Await
<1>3. CASE Interrupted
  BY <1>3 DEF Interrupted
<1>4. ASSUME NEW t \in Tasks, Worker(t) PROVE TypeOK'
  <2>1. CASE Start(t)
    BY <2>1 DEF Start
  <2>2. CASE Discard(t)
    BY <2>2 DEF Discard
  <2>3. CASE AddResult(t)
    BY <2>3 DEF AddResult
  <2>4. CASE Record(t)
    BY <2>4 DEF Record
  <2> QED BY <1>4, <2>1, <2>2, <2>3, <2>4 DEF Worker
<1>5. ASSUME NEW p \in Procs, Check(p) PROVE TypeOK'
  <2>1. CASE Decrement(p)
    BY <2>1 DEF Decrement
  <2>2. CASE ReadSubmitted(p)
    BY <2>2 DEF ReadSubmitted, AfterCheck
  <2>3. CASE OnComplete(p)
    BY <2>3 DEF OnComplete
  <2>4. CASE OnCompleteReturns(p)
    BY <2>4 DEF OnCompleteReturns
  <2>5. CASE OnCompleteThrows(p)
    BY <2>5 DEF OnCompleteThrows
  <2>6. CASE CountDown(p)
    BY <2>6 DEF CountDown, AfterCheck
  <2> QED BY <1>5, <2>1, <2>2, <2>3, <2>4, <2>5, <2>6 DEF Check
<1>6. CASE UNCHANGED vars
  BY <1>6 DEF vars
<1> QED BY <1>1, <1>2, <1>3, <1>4, <1>5, <1>6 DEF Next

\* Type correctness of a batch, whatever its tasks.
THEOREM TypeCorrect == Spec => []TypeOK
<1>1. Init => TypeOK
  BY InitTyped
<1>2. TypeOK /\ [Next]_vars => TypeOK'
  BY NextTyped
<1> QED BY <1>1, <1>2, PTL DEF Spec

-----------------------------------------------------------------------------
(* What each step does to the sets the invariant is stated with.           *)

\* Only the first half of submit accepts a task, and only a decrement takes a
\* participant through the counter; whoever decrements belongs to the batch.
LEMMA SetsOfStep ==
  ASSUME TypeOK, [Next]_vars
  PROVE  \/ /\ \E p \in Procs : Decrement(p)
            /\ Accepted' = Accepted
         \/ /\ \E t \in Tasks : Submit(t) /\ t \notin Accepted /\ Accepted' = Accepted \cup {t}
            /\ Checked' = Checked
         \/ /\ Accepted' = Accepted
            /\ Checked' = Checked
<1> USE BatchAssumption DEF TypeOK, Procs, Goto, Accepted, Checked, Unchecked, shared, history
<1>1. CASE Submitting
  <2>1. ASSUME NEW t \in Tasks, Skip(t) PROVE Accepted' = Accepted /\ Checked' = Checked
    BY <2>1 DEF Skip
  <2>2. ASSUME NEW t \in Tasks, Submit(t)
        PROVE  t \notin Accepted /\ Accepted' = Accepted \cup {t} /\ Checked' = Checked
    BY <2>2 DEF Submit
  <2>3. CASE Increase
    BY <2>3 DEF Increase
  <2>4. CASE LeaveLoop
    BY <2>4 DEF LeaveLoop
  <2>5. CASE SubmitCompleted
    BY <2>5 DEF SubmitCompleted
  <2> QED BY <1>1, <2>1, <2>2, <2>3, <2>4, <2>5 DEF Submitting
<1>2. CASE Await
  BY <1>2 DEF Await
<1>3. CASE Interrupted
  BY <1>3 DEF Interrupted
<1>4. ASSUME NEW t \in Tasks, Worker(t) PROVE Accepted' = Accepted /\ Checked' = Checked
  <2>1. CASE Start(t)
    BY <2>1 DEF Start
  <2>2. CASE Discard(t)
    BY <2>2 DEF Discard
  <2>3. CASE AddResult(t)
    BY <2>3 DEF AddResult
  <2>4. CASE Record(t)
    BY <2>4 DEF Record
  <2> QED BY <1>4, <2>1, <2>2, <2>3, <2>4 DEF Worker
<1>5. ASSUME NEW p \in Procs, Check(p)
      PROVE  Accepted' = Accepted /\ (Decrement(p) \/ Checked' = Checked)
  <2>1. CASE Decrement(p)
    BY <2>1 DEF Decrement
  <2>2. CASE ReadSubmitted(p)
    BY <2>2 DEF ReadSubmitted, AfterCheck
  <2>3. CASE OnComplete(p)
    BY <2>3 DEF OnComplete
  <2>4. CASE OnCompleteReturns(p)
    BY <2>4 DEF OnCompleteReturns
  <2>5. CASE OnCompleteThrows(p)
    BY <2>5 DEF OnCompleteThrows
  <2>6. CASE CountDown(p)
    BY <2>6 DEF CountDown, AfterCheck
  <2> QED BY <1>5, <2>1, <2>2, <2>3, <2>4, <2>5, <2>6 DEF Check
<1>6. CASE UNCHANGED vars
  BY <1>6 DEF vars
<1> QED BY <1>1, <1>2, <1>3, <1>4, <1>5, <1>6 DEF Next

LEMMA SetsOfDecrement ==
  ASSUME TypeOK, NEW p \in Procs, Decrement(p)
  PROVE  /\ p \notin Checked /\ Checked' = Checked \cup {p}
         /\ p \in Accepted \cup {Submitter}
  BY BatchAssumption DEF Decrement, TypeOK, Procs, Goto, Accepted, Checked, Unchecked

LEMMA FiniteSets ==
  ASSUME TypeOK
  PROVE  /\ IsFiniteSet(Accepted) /\ IsFiniteSet(counted) /\ IsFiniteSet(Checked)
         /\ Cardinality(Accepted) \in Nat /\ Cardinality(counted) \in Nat
         /\ Cardinality(Checked) \in Nat
<1>1. IsFiniteSet(Procs)
  BY BatchAssumption, FS_AddElement DEF Procs
<1>2. Accepted \subseteq Procs /\ counted \subseteq Procs /\ Checked \subseteq Procs
  BY DEF Accepted, Checked, Procs, TypeOK
<1>3. IsFiniteSet(Accepted) /\ IsFiniteSet(counted) /\ IsFiniteSet(Checked)
  BY <1>1, <1>2, FS_Subset
<1> QED BY <1>3, FS_CardinalityType

-----------------------------------------------------------------------------
(* The inductive invariant                                                 *)

LEMMA InitInvariant == Init => IInv
<1> SUFFICES ASSUME Init PROVE IInv
  OBVIOUS
<1>1. TypeOK
  BY InitTyped
<1>2. Accepted = {} /\ Checked = {}
  BY BatchAssumption DEF Init, Accepted, Checked, Unchecked, Procs
<1>3. Count
  BY <1>2, FS_EmptySet DEF Init, Count
<1>4. Submission
  BY <1>2, BatchAssumption DEF Init, Submission, Procs
<1>5. Last /\ Reports
  BY BatchAssumption DEF Init, Last, Reports, Procs
<1>6. Reporter
  BY <1>2 DEF Reporter
<1> QED BY <1>1, <1>3, <1>4, <1>5, <1>6 DEF IInv

\* Count is disturbed by a decrement and by the second half of submit only.
LEMMA CountStep == IInv /\ [Next]_vars => Count'
<1> SUFFICES ASSUME IInv, [Next]_vars PROVE Count'
  OBVIOUS
<1> USE DEF IInv
<1>1. ASSUME NEW p \in Procs, Decrement(p) PROVE Count'
  <2>1. Checked' = Checked \cup {p} /\ p \notin Checked
    BY <1>1, SetsOfDecrement
  <2>2. Cardinality(Checked') = Cardinality(Checked) + 1
    BY <2>1, FiniteSets, FS_AddElement
  <2>3. taskNotCompleted' = taskNotCompleted - 1 /\ counted' = counted
    BY <1>1 DEF Decrement
  <2> QED BY <2>2, <2>3, FiniteSets DEF Count, TypeOK
<1>2. CASE Increase
  <2>1. Checked' = Checked
    BY <1>2, SetsOfStep DEF Increase, Decrement, Submit, TypeOK
  <2>2. PICK t \in Tasks \ counted : Accepted = counted \cup {t}
    BY <1>2 DEF Increase, Submission
  <2>3. Cardinality(Accepted) = Cardinality(counted) + 1
    BY <2>2, FiniteSets, FS_AddElement
  <2> QED BY <1>2, <2>1, <2>3, FiniteSets DEF Count, Increase, TypeOK
<1>3. ASSUME ~Increase, \A p \in Procs : ~Decrement(p)
      PROVE  UNCHANGED <<taskNotCompleted, counted>> /\ Checked' = Checked
  <2>1. Checked' = Checked
    BY <1>3, SetsOfStep
  <2>2. UNCHANGED <<taskNotCompleted, counted>>
    BY <1>3 DEF Next, Submitting, Worker, Check, Skip, Submit, LeaveLoop, SubmitCompleted,
       Start, Discard, AddResult, Record, ReadSubmitted, OnComplete, OnCompleteReturns,
       OnCompleteThrows, CountDown, Await, Interrupted, vars, shared, history
  <2> QED BY <2>1, <2>2
<1> QED BY <1>1, <1>2, <1>3 DEF Count

LEMMA SubmissionStep == IInv /\ [Next]_vars => Submission'
<1> SUFFICES ASSUME IInv, [Next]_vars PROVE Submission'
  OBVIOUS
<1> USE BatchAssumption DEF IInv, TypeOK, Submission, Procs, Goto, shared, history
<1>1. CASE Submitting
  <2>1. ASSUME NEW t \in Tasks, Skip(t) PROVE Submission'
    BY <2>1 DEF Skip, Accepted, Checked, Unchecked
  <2>2. ASSUME NEW t \in Tasks, Submit(t) PROVE Submission'
    <3>1. /\ t \notin Accepted /\ Accepted' = Accepted \cup {t} /\ counted = Accepted
          /\ Checked' = Checked
      BY <2>2 DEF Submit, Accepted, Checked, Unchecked
    <3>2. list' = {u \in Accepted' : pc'[u] \notin {"queued", "lost", "executing"}}
      BY <2>2, <3>1 DEF Submit
    <3> QED BY <2>2, <3>1, <3>2 DEF Submit
  <2>3. CASE Increase
    <3>1. Accepted' = Accepted /\ Checked' = Checked /\ counted \subseteq counted'
      BY <2>3 DEF Increase, Accepted, Checked, Unchecked
    <3> QED BY <2>3, <3>1 DEF Increase
  <2>4. CASE LeaveLoop
    <3>1. Accepted' = Accepted /\ Checked' = Checked
      BY <2>4 DEF LeaveLoop, Accepted, Checked, Unchecked
    <3>2. pc'[Submitter] = "submitCompleted" /\ \A u \in Accepted : pc'[u] = pc[u]
      BY <2>4 DEF LeaveLoop, Accepted
    <3> QED BY <2>4, <3>1, <3>2 DEF LeaveLoop
  <2>5. CASE SubmitCompleted
    <3>1. Accepted' = Accepted /\ Checked' = Checked
      BY <2>5 DEF SubmitCompleted, Accepted, Checked, Unchecked
    <3> QED BY <2>5, <3>1 DEF SubmitCompleted, Accepted
  <2> QED BY <1>1, <2>1, <2>2, <2>3, <2>4, <2>5 DEF Submitting
<1>2. CASE Await
  BY <1>2 DEF Await, Accepted, Checked, Unchecked
<1>3. CASE Interrupted
  BY <1>3 DEF Interrupted, Accepted, Checked, Unchecked
<1>4. ASSUME NEW t \in Tasks, Worker(t) PROVE Submission'
  <2>1. CASE Start(t)
    BY <2>1 DEF Start, Accepted, Checked, Unchecked
  <2>2. CASE Discard(t)
    BY <2>2 DEF Discard, Accepted, Checked, Unchecked
  <2>3. CASE AddResult(t)
    BY <2>3 DEF AddResult, Accepted, Checked, Unchecked
  <2>4. CASE Record(t)
    BY <2>4 DEF Record, Accepted, Checked, Unchecked
  <2> QED BY <1>4, <2>1, <2>2, <2>3, <2>4 DEF Worker
<1>5. ASSUME NEW p \in Procs, Check(p) PROVE Submission'
  <2>1. CASE Decrement(p)
    BY <2>1 DEF Decrement, Accepted, Checked, Unchecked
  <2>2. CASE ReadSubmitted(p)
    BY <2>2 DEF ReadSubmitted, AfterCheck, Accepted, Checked, Unchecked
  <2>3. CASE OnComplete(p)
    BY <2>3 DEF OnComplete, Accepted, Checked, Unchecked
  <2>4. CASE OnCompleteReturns(p)
    BY <2>4 DEF OnCompleteReturns, Accepted, Checked, Unchecked
  <2>5. CASE OnCompleteThrows(p)
    BY <2>5 DEF OnCompleteThrows, Accepted, Checked, Unchecked
  <2>6. CASE CountDown(p)
    BY <2>6 DEF CountDown, AfterCheck, Accepted, Checked, Unchecked
  <2> QED BY <1>5, <2>1, <2>2, <2>3, <2>4, <2>5, <2>6 DEF Check
<1>6. CASE UNCHANGED vars
  BY <1>6 DEF vars, Accepted, Checked
<1> QED BY <1>1, <1>2, <1>3, <1>4, <1>5, <1>6 DEF Next

\* A decrement that reaches zero when no task was early is the last one.
LEMMA ZeroIsLast ==
  ASSUME IInv, NEW p \in Procs, Decrement(p), early' = {}, isLast'[p]
  PROVE  Checked' = Accepted' \cup {Submitter}
<1> USE DEF IInv
<1>1. /\ Checked' = Checked \cup {p} /\ p \notin Checked
      /\ Accepted' = Accepted /\ p \in Accepted \cup {Submitter}
  <2>1. Accepted' = Accepted
    BY DEF Decrement, TypeOK, Goto, Accepted, Procs
  <2> QED BY <2>1, SetsOfDecrement
<1>2. early = {} /\ Checked' \cap Tasks \subseteq counted
  BY <1>1 DEF Decrement, Submission
<1>3. Checked' \subseteq counted \cup {Submitter}
  BY <1>1, <1>2 DEF Checked, Procs
<1>4. Cardinality(Checked') = Cardinality(counted) + 1
  <2>1. Cardinality(Checked') = Cardinality(Checked) + 1
    BY <1>1, FiniteSets, FS_AddElement
  <2>2. taskNotCompleted - 1 = 0
    BY DEF Decrement, TypeOK
  <2> QED BY <2>1, <2>2, FiniteSets DEF Count, TypeOK
<1>5. Cardinality(counted \cup {Submitter}) = Cardinality(counted) + 1
  BY BatchAssumption, FiniteSets, FS_AddElement DEF TypeOK
<1>6. Checked' = counted \cup {Submitter}
  <2>1. IsFiniteSet(counted \cup {Submitter})
    BY FiniteSets, FS_AddElement
  <2> QED BY <1>3, <1>4, <1>5, <2>1, FS_Subset
<1>7. pc'[Submitter] # "increase" /\ pc[Submitter] # "increase"
  <2>1. Submitter \in Checked'
    BY <1>6
  <2> QED BY <2>1 DEF Checked, Unchecked, Decrement, TypeOK, Goto, Procs
<1>8. counted = Accepted
  BY <1>7 DEF Submission
<1> QED BY <1>1, <1>6, <1>8

LEMMA LastStep == IInv /\ [Next]_vars => Last'
<1> SUFFICES ASSUME IInv, [Next]_vars, early' = {} PROVE Last'
  BY DEF Last
<1> USE DEF IInv
<1>1. ASSUME NEW p \in Procs, Decrement(p) PROVE Last'
  <2>1. early = {}
    BY <1>1, early' = {} DEF Decrement
  <2>2. Checked' = Checked \cup {p} /\ p \notin Checked /\ p \in Accepted \cup {Submitter}
    BY <1>1, SetsOfDecrement
  <2>3. \A q \in Procs : ~isLast[q]
    BY <2>1, <2>2 DEF Last
  <2>4. \A q \in Procs : isLast'[q] => q = p
    BY <1>1, <2>3 DEF Decrement, TypeOK
  <2>5. isLast'[p] => Checked' = Accepted' \cup {Submitter}
    BY <1>1, ZeroIsLast
  <2> QED BY <2>4, <2>5 DEF Last
<1>2. ASSUME NEW t \in Tasks, Submit(t) PROVE Last'
  <2>1. early = {} /\ isLast' = isLast
    BY <1>2 DEF Submit, history
  <2>2. Submitter \notin Checked
    BY <1>2 DEF Submit, Checked, Unchecked
  <2> QED BY <2>1, <2>2 DEF Last, Procs
<1>3. ASSUME \A p \in Procs : ~Decrement(p), \A t \in Tasks : ~Submit(t)
      PROVE  Last'
  <2>1. Checked' = Checked /\ Accepted' = Accepted
    BY <1>3, SetsOfStep
  <2>2. isLast' = isLast /\ early' = early
    BY <1>3 DEF Next, Submitting, Worker, Check, Skip, Increase, LeaveLoop, SubmitCompleted,
       Start, Discard, AddResult, Record, ReadSubmitted, OnComplete, OnCompleteReturns,
       OnCompleteThrows, CountDown, Await, Interrupted, vars, shared, history
  <2> QED BY <2>1, <2>2 DEF Last
<1> QED BY <1>1, <1>2, <1>3

LEMMA ReportsStep == IInv /\ [Next]_vars => Reports'
<1> SUFFICES ASSUME IInv, [Next]_vars PROVE Reports'
  OBVIOUS
<1> USE BatchAssumption DEF IInv, TypeOK, Procs, Goto, shared, history
<1>1. CASE Submitting
  <2>1. ASSUME NEW t \in Tasks, Skip(t) PROVE Reports'
    BY <2>1 DEF Skip, Reports, Checked, Unchecked
  <2>2. ASSUME NEW t \in Tasks, Submit(t) PROVE Reports'
    BY <2>2 DEF Submit, Reports, Checked, Unchecked
  <2>3. CASE Increase
    BY <2>3 DEF Increase, Reports, Checked, Unchecked
  <2>4. CASE LeaveLoop
    BY <2>4 DEF LeaveLoop, Reports, Checked, Unchecked
  <2>5. CASE SubmitCompleted
    BY <2>5 DEF SubmitCompleted, Reports, Checked, Unchecked
  <2> QED BY <1>1, <2>1, <2>2, <2>3, <2>4, <2>5 DEF Submitting
<1>2. CASE Await
  BY <1>2 DEF Await, Reports, Checked, Unchecked
<1>3. CASE Interrupted
  BY <1>3 DEF Interrupted, Reports, Checked, Unchecked
<1>4. ASSUME NEW t \in Tasks, Worker(t) PROVE Reports'
  <2>1. CASE Start(t)
    BY <2>1 DEF Start, Reports, Checked, Unchecked
  <2>2. CASE Discard(t)
    BY <2>2 DEF Discard, Reports, Checked, Unchecked
  <2>3. CASE AddResult(t)
    <3>1. t \in Accepted /\ t \notin Checked /\ Checked' = Checked
      BY <2>3 DEF AddResult, Accepted, Checked, Unchecked
    <3>2. early = {} => \A p \in Procs : ~isLast[p]
      BY <3>1 DEF Last
    <3>3. early' = {} => calls' = {}
      BY <2>3, <3>2 DEF AddResult, Reports
    <3> QED BY <2>3, <3>1, <3>3 DEF AddResult, Reports
  <2>4. CASE Record(t)
    BY <2>4 DEF Record, Reports, Checked, Unchecked
  <2> QED BY <1>4, <2>1, <2>2, <2>3, <2>4 DEF Worker
<1>5. ASSUME NEW p \in Procs, Check(p) PROVE Reports'
  <2>1. CASE Decrement(p)
    BY <2>1 DEF Decrement, Reports, Checked, Unchecked
  <2>2. CASE ReadSubmitted(p)
    BY <2>2 DEF ReadSubmitted, AfterCheck, Reports, Checked, Unchecked
  <2>3. CASE OnComplete(p)
    <3> DEFINE new == [by |-> p, results |-> list]
    <3>1. Checked' = Checked
      BY <2>3 DEF OnComplete, Checked, Unchecked
    <3>2. \A c \in calls : c.by # p
      BY <2>3 DEF OnComplete, Reports
    <3>3. isLast[p] /\ hasSubmitCompleted /\ new.by = p /\ new.results = list
      BY <2>3 DEF OnComplete, Reports
    <3>4. calls' = calls \cup {new} /\ pc' = [pc EXCEPT ![p] = "completing"]
          /\ pc[p] = "complete"
      BY <2>3 DEF OnComplete
    <3>5. \A c \in calls' : c \in calls \/ c = new
      BY <3>4
    <3> HIDE DEF new
    <3>6. \A c, d \in calls' : c.by = d.by => c = d
      BY <3>2, <3>3, <3>5 DEF Reports
    <3>7. \A c \in calls' : /\ isLast'[c.by] /\ hasSubmitCompleted'
                            /\ pc'[c.by] \notin {"check", "flag", "complete"}
                            /\ early' = {} => c.results = list'
      BY <2>3, <3>2, <3>3, <3>4, <3>5 DEF Reports, OnComplete
    <3>8. \A q \in Procs : pc'[q] \in {"complete", "completing", "countDown"} =>
            isLast'[q] /\ hasSubmitCompleted'
      BY <2>3, <3>3, <3>4 DEF Reports, OnComplete
    <3>9. latch' = 0 => \E c \in calls' : pc'[c.by] # "completing"
      BY <2>3, <3>2, <3>4 DEF Reports, OnComplete
    <3>10. \A q \in Procs : isLast'[q] => q \in Checked'
      BY <2>3, <3>1 DEF Reports, OnComplete
    <3>11. \A q \in Procs : pc'[q] \in {"completing", "countDown"} => \E c \in calls' : c.by = q
      BY <3>3, <3>4 DEF Reports
    <3>12. pc'[Submitter] = "released" => latch' = 0
      BY <2>3, <3>4 DEF Reports, OnComplete
    <3> QED BY <3>6, <3>7, <3>8, <3>9, <3>10, <3>11, <3>12 DEF Reports
  <2>4. CASE OnCompleteReturns(p)
    BY <2>4 DEF OnCompleteReturns, Reports, Checked, Unchecked
  <2>5. CASE OnCompleteThrows(p)
    BY <2>5 DEF OnCompleteThrows, Reports, Checked, Unchecked
  <2>6. CASE CountDown(p)
    BY <2>6 DEF CountDown, AfterCheck, Reports, Checked, Unchecked
  <2> QED BY <1>5, <2>1, <2>2, <2>3, <2>4, <2>5, <2>6 DEF Check
<1>6. CASE UNCHANGED vars
  BY <1>6 DEF vars, Reports, Checked
<1> QED BY <1>1, <1>2, <1>3, <1>4, <1>5, <1>6 DEF Next

LEMMA ReporterStep == IInv /\ [Next]_vars => Reporter'
<1> SUFFICES ASSUME IInv, [Next]_vars, Accepted' \cup {Submitter} \subseteq Checked'
             PROVE  \E p \in Procs : /\ isLast'[p]
                                     /\ \/ pc'[p] \in {"flag", "complete"}
                                        \/ \E c \in calls' : c.by = p /\ c.results = Accepted'
  BY DEF Reporter
<1> USE DEF IInv
<1>1. ASSUME NEW p \in Procs, Decrement(p)
      PROVE  isLast'[p] /\ pc'[p] = "flag"
  <2>1. /\ Checked' = Checked \cup {p} /\ p \notin Checked
        /\ Accepted' = Accepted
    <3>1. Accepted' = Accepted
      BY <1>1 DEF Decrement, TypeOK, Goto, Accepted, Procs
    <3> QED BY <1>1, <3>1, SetsOfDecrement
  <2>2. Checked' \subseteq Accepted \cup {Submitter}
    BY <2>1, <1>1, SetsOfDecrement DEF Checked, Accepted, Unchecked, Procs, TypeOK
  <2>3. Checked' = Accepted \cup {Submitter}
    BY <2>1, <2>2
  <2>4. Cardinality(Checked) + 1 = Cardinality(Accepted) + 1
    <3>1. Submitter \notin Accepted
      BY BatchAssumption DEF Accepted
    <3>2. Cardinality(Checked \cup {p}) = Cardinality(Checked) + 1
      BY <2>1, FiniteSets, FS_AddElement
    <3>3. Cardinality(Accepted \cup {Submitter}) = Cardinality(Accepted) + 1
      BY <3>1, FiniteSets, FS_AddElement
    <3> QED BY <2>1, <2>3, <3>2, <3>3
  <2>5. counted = Accepted
    <3>1. pc'[Submitter] # "increase" /\ pc[Submitter] # "increase"
      BY <2>3, <1>1 DEF Checked, Unchecked, Decrement, TypeOK, Goto, Procs
    <3> QED BY <3>1 DEF Submission
  <2>6. taskNotCompleted - 1 = 0
    BY <2>4, <2>5, FiniteSets DEF Count, TypeOK
  <2> QED BY <1>1, <2>6 DEF Decrement, TypeOK, Goto
<1>2. ASSUME NEW t \in Tasks, Submit(t) PROVE FALSE
  BY <1>2 DEF Submit, Checked, Unchecked, TypeOK, Procs
<1>3. ASSUME \A p \in Procs : ~Decrement(p), \A t \in Tasks : ~Submit(t)
      PROVE  \E p \in Procs : /\ isLast'[p]
                              /\ \/ pc'[p] \in {"flag", "complete"}
                                 \/ \E c \in calls' : c.by = p /\ c.results = Accepted'
  <2>1. Checked' = Checked /\ Accepted' = Accepted
    BY <1>3, SetsOfStep
  <2>2. PICK p \in Procs : /\ isLast[p]
                           /\ \/ pc[p] \in {"flag", "complete"}
                              \/ \E c \in calls : c.by = p /\ c.results = Accepted
    BY <2>1 DEF Reporter
  <2>3. isLast' = isLast /\ calls \subseteq calls'
    BY <1>3 DEF Next, Submitting, Worker, Check, Skip, Increase, LeaveLoop, SubmitCompleted,
       Start, Discard, AddResult, Record, ReadSubmitted, OnComplete, OnCompleteReturns,
       OnCompleteThrows, CountDown, Await, Interrupted, vars, shared, history
  <2>4. hasSubmitCompleted /\ list = Accepted
    BY <2>1 DEF Submission, Checked, Unchecked, Accepted, Procs
  <2>5. CASE pc[p] = "flag"
    <3>1. CASE ReadSubmitted(p)
      BY <2>2, <2>3, <2>4, <2>5, <3>1 DEF ReadSubmitted, Goto, TypeOK
    <3>2. CASE ~ReadSubmitted(p)
      BY <1>3, <2>2, <2>3, <2>5, <3>2, BatchAssumption DEF Next, Submitting, Worker, Check, Skip,
         Increase, LeaveLoop, SubmitCompleted, Start, Discard, AddResult, Record,
         ReadSubmitted, OnComplete, OnCompleteReturns, OnCompleteThrows, CountDown, Await,
         Interrupted, vars, Goto, TypeOK, Procs
    <3> QED BY <3>1, <3>2
  <2>6. CASE pc[p] = "complete"
    <3>1. CASE OnComplete(p)
      <4>1. [by |-> p, results |-> list] \in calls'
        BY <3>1 DEF OnComplete
      <4> QED BY <2>1, <2>2, <2>3, <2>4, <4>1
    <3>2. CASE ~OnComplete(p)
      BY <1>3, <2>2, <2>3, <2>6, <3>2, BatchAssumption DEF Next, Submitting, Worker, Check, Skip,
         Increase, LeaveLoop, SubmitCompleted, Start, Discard, AddResult, Record,
         ReadSubmitted, OnComplete, OnCompleteReturns, OnCompleteThrows, CountDown, Await,
         Interrupted, vars, Goto, TypeOK, Procs
    <3> QED BY <3>1, <3>2
  <2>7. CASE \E c \in calls : c.by = p /\ c.results = Accepted
    BY <2>1, <2>2, <2>3, <2>7
  <2> QED BY <2>2, <2>5, <2>6, <2>7
<1> QED BY <1>1, <1>2, <1>3

\* The inductive invariant of a batch.
THEOREM Invariant == Spec => []IInv
<1>1. Init => IInv
  BY InitInvariant
<1>2. IInv /\ [Next]_vars => IInv'
  BY NextTyped, CountStep, SubmissionStep, LastStep, ReportsStep, ReporterStep DEF IInv
<1> QED BY <1>1, <1>2, PTL DEF Spec

-----------------------------------------------------------------------------
(* What the invariant gives                                                *)

\* taskNotCompleted never falls below zero, although a worker may decrement
\* it before the submitter counts its task.
THEOREM NeverNegative == Spec => []CountNeverNegative
<1>1. IInv => CountNeverNegative
  <2> SUFFICES ASSUME IInv PROVE taskNotCompleted >= 0
    BY DEF CountNeverNegative
  <2> USE BatchAssumption DEF IInv
  <2>1. Checked \subseteq Accepted \cup {Submitter}
    BY DEF Checked, Accepted, Unchecked, Procs
  <2>2. CASE pc[Submitter] = "increase"
    <3>1. PICK t \in Tasks \ counted : Accepted = counted \cup {t}
      BY <2>2 DEF Submission
    <3>2. Checked \subseteq Accepted
      BY <2>1, <2>2 DEF Checked, Unchecked
    <3>3. Cardinality(Checked) <= Cardinality(Accepted)
      BY <3>2, FiniteSets, FS_Subset
    <3>4. Cardinality(Accepted) = Cardinality(counted) + 1
      BY <3>1, FiniteSets, FS_AddElement
    <3> QED BY <3>3, <3>4, FiniteSets DEF Count, TypeOK
  <2>3. CASE pc[Submitter] # "increase"
    <3>1. counted = Accepted
      BY <2>3 DEF Submission
    <3>2. IsFiniteSet(Accepted \cup {Submitter})
          /\ Cardinality(Accepted \cup {Submitter}) = Cardinality(Accepted) + 1
      BY FiniteSets, FS_AddElement DEF Accepted
    <3>3. Cardinality(Checked) <= Cardinality(Accepted) + 1
      BY <2>1, <3>2, FS_Subset
    <3> QED BY <3>1, <3>3, FiniteSets DEF Count, TypeOK
  <2> QED BY <2>2, <2>3
<1> QED BY <1>1, Invariant, PTL

\* Whatever the interleaving, a batch whose participants are all through
\* checkComplete was reported with all its results.
THEOREM EveryBatchReported == Spec => []ReportedInFull
<1>1. IInv => ReportedInFull
  <2> SUFFICES ASSUME IInv, BatchOver PROVE \E c \in calls : c.results = Accepted
    BY DEF ReportedInFull
  <2>1. Accepted \cup {Submitter} \subseteq Checked
    BY DEF BatchOver, Checked, Unchecked
  <2>2. PICK p \in Procs : /\ isLast[p]
                           /\ \/ pc[p] \in {"flag", "complete"}
                              \/ \E c \in calls : c.by = p /\ c.results = Accepted
    BY <2>1 DEF IInv, Reporter
  <2>3. Checked \subseteq Accepted \cup {Submitter}
    BY DEF Checked, Accepted, Unchecked, Procs
  <2>4. pc[p] \notin {"flag", "complete"}
    BY <2>2, <2>3 DEF IInv, Reports, BatchOver
  <2> QED BY <2>2, <2>4
<1> QED BY <1>1, Invariant, PTL

\* When no task was early, whoever saw the zero did so after every result was
\* in the list.
LEMMA LastSawAll ==
  ASSUME IInv, early = {}, NEW p \in Procs, isLast[p]
  PROVE  list = Accepted
<1>1. Checked = Accepted \cup {Submitter}
  BY DEF IInv, Last
<1> QED BY <1>1 DEF IInv, Submission, Checked, Unchecked

\* With no early task, there is one report, complete and after the last
\* submission.
THEOREM SingleReport == Spec => []OneReport
<1>1. IInv => OneReport
  <2> SUFFICES ASSUME IInv, early = {}, NEW c \in calls, NEW d \in calls
               PROVE  c = d /\ c.results = Accepted /\ hasSubmitCompleted
    BY DEF OneReport
  <2>1. c.by \in Procs /\ d.by \in Procs
    BY DEF IInv, TypeOK
  <2>2. isLast[c.by] /\ isLast[d.by] /\ hasSubmitCompleted /\ c.results = list
    BY DEF IInv, Reports
  <2>3. c.by = d.by
    BY <2>1, <2>2 DEF IInv, Last
  <2> QED BY <2>1, <2>2, <2>3, LastSawAll DEF IInv, Reports
<1> QED BY <1>1, Invariant, PTL

\* With no early task, the handler's list is not changed under it.
THEOREM ResultsStable == Spec => []StableResults
<1>1. IInv => StableResults
  BY DEF IInv, Reports, StableResults
<1> QED BY <1>1, Invariant, PTL

\* With no early task, the schedule's thread is released after everything.
THEOREM WaitIsLongEnough == Spec => []ReleasedAfterAll
<1>1. IInv => ReleasedAfterAll
  <2> SUFFICES ASSUME IInv, early = {}, pc[Submitter] = "released"
               PROVE  /\ list = Accepted
                      /\ \E c \in calls : c.results = Accepted /\ pc[c.by] # "completing"
    BY DEF ReleasedAfterAll
  <2>1. PICK c \in calls : pc[c.by] # "completing"
    BY DEF IInv, Reports
  <2>2. c.by \in Procs /\ isLast[c.by] /\ c.results = list
    BY DEF IInv, TypeOK, Reports
  <2> QED BY <2>1, <2>2, LastSawAll
<1> QED BY <1>1, Invariant, PTL

-----------------------------------------------------------------------------
(* Extra reports: every participant that sees a zero reports at most once, *)
(* and between two zeros the counter is increased, for a task that was     *)
(* decremented before.                                                     *)

Zeros == {p \in Procs : isLast[p]}
Excused == early \cap counted

\* The accepted tasks are through the counter and the submitter is too, or is
\* about to count the last of them.
Through ==
    \/ pc[Submitter] = "increase" /\ Accepted \subseteq Checked
    \/ Accepted \cup {Submitter} \subseteq Checked

ZerosExcused ==
    /\ Cardinality(Zeros) <= Cardinality(Excused) + 1
    /\ ~Through => Cardinality(Zeros) <= Cardinality(Excused)

LEMMA ZerosTyped ==
  ASSUME TypeOK
  PROVE  /\ IsFiniteSet(Zeros) /\ IsFiniteSet(Excused) /\ IsFiniteSet(early)
         /\ Cardinality(Zeros) \in Nat /\ Cardinality(Excused) \in Nat
<1>1. IsFiniteSet(Procs)
  BY BatchAssumption, FS_AddElement DEF Procs
<1>2. Zeros \subseteq Procs /\ Excused \subseteq Procs /\ early \subseteq Procs
  BY DEF Zeros, Excused, Procs, TypeOK
<1>3. IsFiniteSet(Zeros) /\ IsFiniteSet(Excused) /\ IsFiniteSet(early)
  BY <1>1, <1>2, FS_Subset
<1> QED BY <1>3, FS_CardinalityType

\* A decrement that reaches zero, early or not, is the last but for the task
\* the submitter is about to count.
LEMMA ZeroIsThrough ==
  ASSUME IInv, NEW p \in Procs, Decrement(p), isLast'[p]
  PROVE  Through'
<1> USE BatchAssumption DEF IInv
<1>1. Checked' = Checked \cup {p} /\ p \notin Checked /\ p \in Accepted \cup {Submitter}
  BY SetsOfDecrement
<1>2. Accepted' = Accepted
  BY DEF Decrement, TypeOK, Goto, Accepted, Procs
<1>3. Checked' \subseteq Accepted \cup {Submitter}
  BY <1>1 DEF Checked, Accepted, Unchecked, Procs
<1>4. Cardinality(Checked') = Cardinality(counted) + 1 /\ IsFiniteSet(Checked')
  <2>1. Cardinality(Checked') = Cardinality(Checked) + 1 /\ IsFiniteSet(Checked')
    BY <1>1, FiniteSets, FS_AddElement
  <2>2. taskNotCompleted - 1 = 0
    BY DEF Decrement, TypeOK
  <2> QED BY <2>1, <2>2, FiniteSets DEF Count, TypeOK
<1>5. CASE pc[Submitter] = "increase"
  <2>1. PICK t \in Tasks \ counted : Accepted = counted \cup {t}
    BY <1>5 DEF Submission
  <2>2. Cardinality(Accepted) = Cardinality(counted) + 1
    BY <2>1, FiniteSets, FS_AddElement
  <2>3. pc'[Submitter] = "increase" /\ Submitter \notin Checked'
    BY <1>5 DEF Decrement, Goto, TypeOK, Procs, Checked, Unchecked
  <2>4. Checked' = Accepted
    BY <1>3, <1>4, <2>2, <2>3, FiniteSets, FS_Subset
  <2> QED BY <1>2, <2>3, <2>4 DEF Through
<1>6. CASE pc[Submitter] # "increase"
  <2>1. counted = Accepted
    BY <1>6 DEF Submission
  <2>2. /\ IsFiniteSet(Accepted \cup {Submitter})
        /\ Cardinality(Accepted \cup {Submitter}) = Cardinality(Accepted) + 1
    BY FiniteSets, FS_AddElement DEF Accepted
  <2>3. Checked' = Accepted \cup {Submitter}
    BY <1>3, <1>4, <2>1, <2>2, FS_Subset
  <2> QED BY <1>2, <2>3 DEF Through
<1> QED BY <1>5, <1>6

LEMMA InitExcused == Init => ZerosExcused
<1> SUFFICES ASSUME Init PROVE ZerosExcused
  OBVIOUS
<1>1. Zeros = {} /\ Excused = {}
  BY DEF Init, Zeros, Excused
<1> QED BY <1>1, FS_EmptySet DEF ZerosExcused

LEMMA ExcusedStep ==
  ASSUME IInv, ZerosExcused, [Next]_vars
  PROVE  ZerosExcused'
<1> USE DEF IInv
<1>1. /\ IsFiniteSet(Zeros') /\ IsFiniteSet(Excused')
      /\ Cardinality(Zeros') \in Nat /\ Cardinality(Excused') \in Nat
      /\ Cardinality(Zeros) \in Nat /\ Cardinality(Excused) \in Nat
  <2>1. IsFiniteSet(Procs)
    BY BatchAssumption, FS_AddElement DEF Procs
  <2>2. TypeOK'
    BY NextTyped
  <2>3. Zeros' \subseteq Procs /\ Excused' \subseteq Procs
    BY <2>2 DEF Zeros, Excused, Procs, TypeOK
  <2>4. IsFiniteSet(Zeros') /\ IsFiniteSet(Excused')
    BY <2>1, <2>3, FS_Subset
  <2> QED BY <2>4, ZerosTyped, FS_CardinalityType
<1>2. ASSUME NEW p \in Procs, Decrement(p) PROVE ZerosExcused'
  <2>1. Checked' = Checked \cup {p} /\ p \notin Checked /\ p \in Accepted \cup {Submitter}
    BY <1>2, SetsOfDecrement
  <2>2. ~Through
    BY <1>2, <2>1 DEF Through, Decrement
  <2>3. Cardinality(Excused) <= Cardinality(Excused')
    <3>1. Excused \subseteq Excused'
      BY <1>2 DEF Decrement, Excused
    <3> QED BY <1>1, <3>1, FS_Subset
  <2>4. Cardinality(Zeros) <= Cardinality(Excused)
    BY <2>2 DEF ZerosExcused
  <2>5. Zeros' \subseteq Zeros \cup {p}
    BY <1>2 DEF Decrement, Zeros, TypeOK
  <2>6. Cardinality(Zeros') <= Cardinality(Zeros) + 1
    <3>1. /\ IsFiniteSet(Zeros \cup {p})
          /\ Cardinality(Zeros \cup {p}) <= Cardinality(Zeros) + 1
      <4>1. IsFiniteSet(Zeros)
        BY ZerosTyped
      <4>2. /\ IsFiniteSet(Zeros \cup {p})
            /\ Cardinality(Zeros \cup {p})
                 = IF p \in Zeros THEN Cardinality(Zeros) ELSE Cardinality(Zeros) + 1
        BY <4>1, FS_AddElement, Zenon
      <4> QED BY <1>1, <4>2
    <3>2. Cardinality(Zeros') <= Cardinality(Zeros \cup {p})
      BY <2>5, <3>1, FS_Subset
    <3> QED BY <1>1, <3>1, <3>2, FS_CardinalityType
  <2>7. ~isLast'[p] => Cardinality(Zeros') <= Cardinality(Zeros)
    <3>1. ~isLast'[p] => Zeros' \subseteq Zeros
      BY <2>5 DEF Zeros
    <3> QED BY <3>1, ZerosTyped, FS_Subset
  <2>8. isLast'[p] => Through'
    BY <1>2, ZeroIsThrough
  <2>9. Cardinality(Zeros') <= Cardinality(Excused') + 1
    BY <1>1, <2>3, <2>4, <2>6
  <2>10. ~Through' => Cardinality(Zeros') <= Cardinality(Excused')
    BY <1>1, <2>3, <2>4, <2>7, <2>8
  <2> QED BY <2>9, <2>10 DEF ZerosExcused
<1>3. CASE Increase
  <2>1. PICK t \in Tasks \ counted : Accepted = counted \cup {t}
    BY <1>3 DEF Increase, Submission
  <2>2. Zeros' = Zeros /\ Excused \subseteq Excused'
    BY <1>3, <2>1 DEF Increase, Zeros, Excused
  <2>3. Cardinality(Excused) <= Cardinality(Excused')
    BY <1>1, <2>2, FS_Subset
  <2>4. Through => Cardinality(Excused) + 1 <= Cardinality(Excused')
    <3> SUFFICES ASSUME Through PROVE Cardinality(Excused) + 1 <= Cardinality(Excused')
      OBVIOUS
    <3>1. t \in Checked
      BY <1>3, <2>1 DEF Through
    <3>2. t \in early
      BY <2>1, <3>1 DEF Submission
    <3>3. Excused \cup {t} \subseteq Excused' /\ t \notin Excused
      BY <1>3, <2>1, <3>2 DEF Increase, Excused
    <3>4. Cardinality(Excused \cup {t}) = Cardinality(Excused) + 1
      BY <3>3, ZerosTyped, FS_AddElement
    <3>5. Cardinality(Excused \cup {t}) <= Cardinality(Excused')
      BY <1>1, <3>3, FS_Subset
    <3> QED BY <3>4, <3>5
  <2>5. Cardinality(Zeros') <= Cardinality(Excused')
    <3>1. CASE Through
      BY <1>1, <2>2, <2>4, <3>1 DEF ZerosExcused
    <3>2. CASE ~Through
      BY <1>1, <2>2, <2>3, <3>2 DEF ZerosExcused
    <3> QED BY <3>1, <3>2
  <2> QED BY <1>1, <2>2, <2>5 DEF ZerosExcused
<1>4. ASSUME ~Increase, \A p \in Procs : ~Decrement(p) PROVE ZerosExcused'
  <2>1. UNCHANGED <<isLast, early, counted>>
    BY <1>4 DEF Next, Submitting, Worker, Check, Skip, Submit, LeaveLoop, SubmitCompleted,
       Start, Discard, AddResult, Record, ReadSubmitted, OnComplete, OnCompleteReturns,
       OnCompleteThrows, CountDown, Await, Interrupted, vars, shared, history
  <2>2. Zeros' = Zeros /\ Excused' = Excused
    BY <2>1 DEF Zeros, Excused
  <2>3. Through => Through'
    <3> SUFFICES ASSUME Through PROVE Through'
      OBVIOUS
    <3>1. pc[Submitter] # "next"
      BY DEF Through, Checked, Unchecked
    <3>2. Accepted' = Accepted /\ Checked' = Checked
      BY <1>4, <3>1, SetsOfStep DEF Submit
    <3>3. pc[Submitter] = "increase" => pc'[Submitter] = "increase"
      BY <1>4, BatchAssumption DEF Next, Submitting, Worker, Check, Skip, Submit, LeaveLoop,
         SubmitCompleted, Start, Discard, AddResult, Record, ReadSubmitted, OnComplete,
         OnCompleteReturns, OnCompleteThrows, CountDown, Await, Interrupted, vars, Goto,
         TypeOK, Procs
    <3> QED BY <3>2, <3>3 DEF Through
  <2> QED BY <2>2, <2>3 DEF ZerosExcused
<1> QED BY <1>2, <1>3, <1>4

\* Each call of onComplete was made by a participant of its own that saw zero.
LEMMA CallsAreZeros ==
  ASSUME IInv
  PROVE  IsFiniteSet(calls) /\ Cardinality(calls) <= Cardinality(Zeros)
<1> DEFINE f == [c \in calls |-> c.by]
<1>1. \A c \in calls : c.by \in Zeros
  BY DEF IInv, TypeOK, Reports, Zeros
<1>2. \A c, d \in calls : f[c] = f[d] => c = d
  BY DEF IInv, Reports
<1>3. f \in Injection(calls, Zeros)
  BY <1>1, <1>2 DEF Injection, IsInjective
<1>4. IsFiniteSet(Zeros)
  BY ZerosTyped DEF IInv
<1> QED BY <1>3, <1>4, FS_Injection

\* However often workers outrun the submitter's count, onComplete is called at
\* most once more than there are tasks that did.
THEOREM ExtraReportsExcused == Spec => []ExtraReportsAreEarly
<1>1. IInv /\ ZerosExcused => ExtraReportsAreEarly
  <2> SUFFICES ASSUME IInv, ZerosExcused
               PROVE  Cardinality(calls) <= 1 + Cardinality(early)
    BY DEF ExtraReportsAreEarly
  <2>1. TypeOK
    BY DEF IInv
  <2>2. Cardinality(Excused) <= Cardinality(early) /\ Cardinality(early) \in Nat
    BY <2>1, ZerosTyped, FS_Subset, FS_CardinalityType DEF Excused
  <2>3. IsFiniteSet(calls) /\ Cardinality(calls) <= Cardinality(Zeros)
    BY CallsAreZeros
  <2>4. Cardinality(calls) \in Nat /\ Cardinality(Zeros) \in Nat /\ Cardinality(Excused) \in Nat
    BY <2>1, <2>3, ZerosTyped, FS_CardinalityType
  <2> QED BY <2>2, <2>3, <2>4 DEF ZerosExcused
<1> QED BY <1>1, Invariant, InitExcused, ExcusedStep, PTL DEF Spec

-----------------------------------------------------------------------------
(* The wait: nobody is left waiting, nobody is let go before the work began.*)

\* Whoever reported is about to open the latch, or failed, or the latch is open.
Opened == \A c \in calls : pc[c.by] \in {"completing", "countDown", "failed"} \/ latch = 0

\* The submitter sees zero only when every accepted task is through the counter.
SubmitterLast == isLast[Submitter] => Accepted \cup {Submitter} \subseteq Checked

Wait == Opened /\ SubmitterLast

LEMMA InitWait == Init => Wait
  BY BatchAssumption DEF Init, Wait, Opened, SubmitterLast, Procs

LEMMA OpenedStep == IInv /\ Opened /\ [Next]_vars => Opened'
<1> SUFFICES ASSUME IInv, Opened, [Next]_vars PROVE Opened'
  OBVIOUS
<1> USE BatchAssumption DEF IInv, TypeOK, Procs, Goto, shared, history, Opened
<1>1. \A c \in calls : /\ c.by \in Procs
                       /\ pc[c.by] \notin {"check", "flag", "complete"} \cup Unchecked
  BY DEF Reports, Checked
<1>2. CASE Submitting
  BY <1>1, <1>2 DEF Submitting, Skip, Submit, Increase, LeaveLoop, SubmitCompleted, Unchecked
<1>3. CASE Await \/ Interrupted
  BY <1>1, <1>3 DEF Await, Interrupted
<1>4. ASSUME NEW t \in Tasks, Worker(t) PROVE Opened'
  BY <1>1, <1>4 DEF Worker, Start, Discard, AddResult, Record, Unchecked
<1>5. ASSUME NEW p \in Procs, Check(p) PROVE Opened'
  <2>1. CASE OnComplete(p)
    <3>1. \A c \in calls' : c \in calls \/ c.by = p
      BY <2>1 DEF OnComplete
    <3> QED BY <1>1, <2>1, <3>1 DEF OnComplete
  <2>2. CASE ~OnComplete(p)
    BY <1>1, <1>5, <2>2 DEF Check, Decrement, ReadSubmitted, OnCompleteReturns,
       OnCompleteThrows, CountDown
  <2> QED BY <2>1, <2>2
<1>6. CASE UNCHANGED vars
  BY <1>6 DEF vars
<1> QED BY <1>2, <1>3, <1>4, <1>5, <1>6 DEF Next

LEMMA SubmitterLastStep == IInv /\ SubmitterLast /\ [Next]_vars => SubmitterLast'
<1> SUFFICES ASSUME IInv, SubmitterLast, [Next]_vars, isLast'[Submitter]
             PROVE  Accepted' \cup {Submitter} \subseteq Checked'
  BY DEF SubmitterLast
<1> USE BatchAssumption DEF IInv, TypeOK, Procs
<1>1. CASE Decrement(Submitter)
  <2>1. Through' /\ pc'[Submitter] = "flag"
    BY <1>1, ZeroIsThrough DEF Decrement, Goto
  <2> QED BY <2>1 DEF Through
<1>2. CASE ~Decrement(Submitter)
  <2>1. isLast[Submitter]
    BY <1>2 DEF Next, Submitting, Worker, Check, Skip, Submit, Increase, LeaveLoop,
       SubmitCompleted, Start, Discard, AddResult, Record, Decrement, ReadSubmitted, OnComplete,
       OnCompleteReturns, OnCompleteThrows, CountDown, Await, Interrupted, vars, shared, history
  <2>2. Accepted \cup {Submitter} \subseteq Checked
    BY <2>1 DEF SubmitterLast
  <2>3. \A t \in Tasks : ~Submit(t)
    BY <2>2 DEF Submit, Checked, Unchecked
  <2>4. Accepted' = Accepted /\ Checked \subseteq Checked'
    BY <2>3, SetsOfStep, SetsOfDecrement
  <2> QED BY <2>2, <2>4
<1> QED BY <1>1, <1>2

\* The additional invariant that the two theorems about the wait rest on.
THEOREM WaitInvariant == Spec => []Wait
<1>1. IInv /\ Wait /\ [Next]_vars => Wait'
  BY OpenedStep, SubmitterLastStep DEF Wait
<1> QED BY <1>1, InitWait, Invariant, PTL DEF Spec

\* While the latch is closed and the schedule's thread waits for it, the batch
\* still has a step ahead, a task was dropped or the handler raised an Error.
THEOREM NoLostWakeUp == Spec => []NobodyLeftWaiting
<1>1. IInv /\ Wait => NobodyLeftWaiting
  <2> SUFFICES ASSUME IInv, Wait, pc[Submitter] = "await", latch = 1,
                      \A p \in Procs : pc[p] \notin {"queued", "executing", "failed"} \cup CheckSteps,
                      \A t \in Tasks : pc[t] # "lost"
               PROVE  FALSE
    BY DEF NobodyLeftWaiting
  <2> USE BatchAssumption DEF IInv, TypeOK, Procs, CheckSteps
  <2>1. Accepted \cup {Submitter} \subseteq Checked
    BY DEF Accepted, Checked, Unchecked, TaskSteps
  <2>2. PICK p \in Procs : \E c \in calls : c.by = p
    BY <2>1 DEF Reporter
  <2> QED BY <2>2 DEF Wait, Opened
<1> QED BY <1>1, Invariant, WaitInvariant, PTL

\* However early the latch is opened, a task of the round was executed before
\* and nothing is submitted any more.
THEOREM LatchNotBeforeWork == Spec => []LatchFollowsWork
<1>1. IInv /\ Wait => LatchFollowsWork
  <2> SUFFICES ASSUME IInv, Wait, latch = 0
               PROVE  hasSubmitCompleted /\ (list # {} \/ Accepted = {})
    BY DEF LatchFollowsWork
  <2> USE BatchAssumption DEF IInv, TypeOK, Procs
  <2>1. PICK c \in calls : c.by \in Procs /\ isLast[c.by] /\ c.by \in Checked
    BY DEF Reports
  <2>2. \A t \in Tasks : t \in Checked => t \in list
    BY DEF Checked, Unchecked, Accepted, Submission
  <2>3. CASE c.by = Submitter
    <3>1. Accepted \subseteq list
      BY <2>1, <2>2, <2>3 DEF Wait, SubmitterLast, Accepted
    <3> QED BY <2>1, <3>1 DEF Reports
  <2>4. CASE c.by \in Tasks
    BY <2>1, <2>2, <2>4 DEF Reports
  <2> QED BY <2>1, <2>3, <2>4
<1> QED BY <1>1, Invariant, WaitInvariant, PTL

-----------------------------------------------------------------------------
(* A batch takes finitely many steps: with NobodyLeftWaiting, what makes   *)
(* the wait end for any number of tasks, but for the fairness.             *)

\* How far a participant is from its end.
Rank(step) ==
    CASE step = "offered" -> 12
      [] step \in {"next", "increase", "queued"} -> 11
      [] step \in {"submitCompleted", "executing"} -> 10
      [] step = "check" -> 9
      [] step = "flag" -> 8
      [] step = "complete" -> 7
      [] step = "completing" -> 6
      [] step = "countDown" -> 5
      [] step \in {"record", "await"} -> 4
      [] OTHER -> 0

\* What is ahead: for each participant the ranks below its own, and, as a rank
\* above all others, that its task is to be counted.
Ahead == {x \in Procs \X (0 .. 12) :
            \/ x[2] < Rank(pc[x[1]])
            \/ x[2] = 12 /\ x[1] \in Tasks \ counted}

LEMMA RankTyped ==
  /\ \A step : Rank(step) \in 0 .. 12
  /\ Rank("offered") = 12
  /\ Rank("next") = 11 /\ Rank("increase") = 11 /\ Rank("queued") = 11
  /\ Rank("submitCompleted") = 10 /\ Rank("executing") = 10
  /\ Rank("check") = 9 /\ Rank("flag") = 8 /\ Rank("complete") = 7
  /\ Rank("completing") = 6 /\ Rank("countDown") = 5
  /\ Rank("record") = 4 /\ Rank("await") = 4
  /\ Rank("released") = 0 /\ Rank("abandoned") = 0 /\ Rank("returned") = 0
  /\ Rank("failed") = 0 /\ Rank("skipped") = 0 /\ Rank("ignored") = 0
  /\ Rank("lost") = 0 /\ Rank("done") = 0
  BY DEF Rank

\* No participant moves back and none is uncounted.
NoneBack == /\ \A q \in Procs : Rank(pc'[q]) <= Rank(pc[q])
            /\ counted \subseteq counted'

LEMMA AheadFinite == IsFiniteSet(Ahead)
<1>1. IsFiniteSet(Procs) /\ IsFiniteSet(0 .. 12)
  <2>1. IsFiniteSet(Procs)
    BY BatchAssumption, FS_AddElement DEF Procs
  <2>2. 0 \in Int /\ 12 \in Int
    OBVIOUS
  <2>3. IsFiniteSet(0 .. 12)
    BY <2>2, FS_Interval, Zenon
  <2> QED BY <2>1, <2>3
<1>2. IsFiniteSet(Procs \X (0 .. 12))
  BY <1>1, FS_Product
<1> QED BY <1>2, FS_Subset DEF Ahead

\* What is ahead shrinks when nobody moves back and one participant moves on
\* or one task is counted.
LEMMA AheadShrinks ==
  ASSUME NoneBack,
         \/ \E p \in Procs : Rank(pc'[p]) < Rank(pc[p])
         \/ \E t \in Tasks : t \notin counted /\ t \in counted'
  PROVE  Cardinality(Ahead') < Cardinality(Ahead)
<1> USE DEF Procs
<1>1. Ahead' \subseteq Ahead
  BY RankTyped DEF Ahead, NoneBack
<1>2. \E x \in Ahead : x \notin Ahead'
  <2>1. ASSUME NEW p \in Procs, Rank(pc'[p]) < Rank(pc[p])
        PROVE  \E x \in Ahead : x \notin Ahead'
    <3> DEFINE x == <<p, Rank(pc'[p])>>
    <3>1. Rank(pc'[p]) \in 0 .. 11
      BY <2>1, RankTyped
    <3>2. x \in Procs \X (0 .. 12) /\ x[1] = p /\ x[2] = Rank(pc'[p]) /\ x[2] # 12
      BY <3>1
    <3>3. x \in Ahead /\ x \notin Ahead'
      BY <2>1, <3>1, <3>2 DEF Ahead
    <3> QED BY <3>3
  <2>2. ASSUME NEW t \in Tasks, t \notin counted, t \in counted'
        PROVE  \E x \in Ahead : x \notin Ahead'
    <3>1. <<t, 12>> \in Ahead
      BY <2>2 DEF Ahead
    <3>2. <<t, 12>> \notin Ahead'
      BY <2>2, RankTyped DEF Ahead
    <3> QED BY <3>1, <3>2
  <2> QED BY <2>1, <2>2
<1>3. Ahead' # Ahead
  BY <1>2
<1> QED BY <1>1, <1>3, AheadFinite, FS_Subset, FS_CardinalityType

LEMMA Advance ==
  ASSUME IInv, Next
  PROVE  /\ NoneBack
         /\ \/ \E p \in Procs : Rank(pc'[p]) < Rank(pc[p])
            \/ \E t \in Tasks : t \notin counted /\ t \in counted'
<1> DEFINE Moves == \E p \in Procs : Rank(pc'[p]) < Rank(pc[p])
<1> USE BatchAssumption, RankTyped DEF IInv, TypeOK, Procs, Goto, NoneBack, shared, history
<1>1. CASE Submitting
  <2>1. ASSUME NEW t \in Tasks, Skip(t) PROVE NoneBack /\ Moves
    BY <2>1 DEF Skip
  <2>2. ASSUME NEW t \in Tasks, Submit(t) PROVE NoneBack /\ Moves
    BY <2>2 DEF Submit
  <2>3. CASE Increase
    BY <2>3 DEF Increase, Submission
  <2>4. CASE LeaveLoop
    <3>1. pc'[Submitter] = "submitCompleted" /\ pc[Submitter] = "next"
      BY <2>4 DEF LeaveLoop
    <3>2. \A t \in Tasks : pc'[t] = pc[t] \/ pc'[t] = "ignored"
      BY <2>4 DEF LeaveLoop
    <3> QED BY <2>4, <3>1, <3>2 DEF LeaveLoop
  <2>5. CASE SubmitCompleted
    BY <2>5 DEF SubmitCompleted
  <2> QED BY <1>1, <2>1, <2>2, <2>3, <2>4, <2>5 DEF Submitting
<1>2. CASE Await
  BY <1>2 DEF Await
<1>3. CASE Interrupted
  BY <1>3 DEF Interrupted
<1>4. ASSUME NEW t \in Tasks, Worker(t) PROVE NoneBack /\ Moves
  BY <1>4 DEF Worker, Start, Discard, AddResult, Record
<1>5. ASSUME NEW p \in Procs, Check(p) PROVE NoneBack /\ Moves
  <2>1. CASE Decrement(p)
    BY <2>1 DEF Decrement
  <2>2. CASE ReadSubmitted(p)
    BY <2>2 DEF ReadSubmitted, AfterCheck
  <2>3. CASE OnComplete(p)
    BY <2>3 DEF OnComplete
  <2>4. CASE OnCompleteReturns(p)
    BY <2>4 DEF OnCompleteReturns
  <2>5. CASE OnCompleteThrows(p)
    BY <2>5 DEF OnCompleteThrows
  <2>6. CASE CountDown(p)
    BY <2>6 DEF CountDown, AfterCheck
  <2> QED BY <1>5, <2>1, <2>2, <2>3, <2>4, <2>5, <2>6 DEF Check
<1> QED BY <1>1, <1>2, <1>3, <1>4, <1>5 DEF Next

\* Every step of a batch, whoever takes it, leaves fewer steps ahead: a batch is
\* over after finitely many steps, whatever the interleaving, so that with
\* NobodyLeftWaiting it is only for the scheduler to let the wait end.
THEOREM EachStepAdvances ==
  Spec => [](IsFiniteSet(Ahead)) /\ [][Cardinality(Ahead') < Cardinality(Ahead)]_vars
<1>1. IInv /\ [Next]_vars => [Cardinality(Ahead') < Cardinality(Ahead)]_vars
  BY Advance, AheadShrinks
<1>2. Spec => [][Cardinality(Ahead') < Cardinality(Ahead)]_vars
  BY <1>1, Invariant, PTL DEF Spec
<1>3. Spec => [](IsFiniteSet(Ahead))
  BY AheadFinite, PTL
<1> QED BY <1>2, <1>3

-----------------------------------------------------------------------------
(* Refinement: in the executions without an early task, a batch does what  *)
(* BatchPromise says.                                                      *)

LEMMA PromiseInit == Init => Promise!Init
<1>1. Init => Accepted = {}
  BY BatchAssumption DEF Init, Accepted, Procs
<1> QED BY <1>1 DEF Init, Promise!Init

\* Each step of the batch is a step of the promise or leaves it alone.
LEMMA PromiseStep ==
  ASSUME IInv, early = {}, [Next]_vars
  PROVE  [Promise!Next]_<<~hasSubmitCompleted, Accepted, list, calls # {}, latch = 0>>
<1> DEFINE view == <<~hasSubmitCompleted, Accepted, list, calls # {}, latch = 0>>
           Step == Promise!Next \/ UNCHANGED view
<1> SUFFICES Step
  OBVIOUS
<1> USE BatchAssumption DEF IInv, TypeOK, Procs, Goto, shared, history
<1>1. CASE Submitting
  <2>1. ASSUME NEW t \in Tasks, Skip(t) PROVE UNCHANGED view
    BY <2>1 DEF Skip, Accepted
  <2>2. ASSUME NEW t \in Tasks, Submit(t) PROVE Promise!Next
    <3>1. t \notin Accepted /\ Accepted' = Accepted \cup {t} /\ ~hasSubmitCompleted
      BY <2>2 DEF Submit, Accepted, Submission
    <3>2. Promise!Accept(t)
      BY <2>2, <3>1 DEF Submit, Promise!Accept
    <3> QED BY <3>2 DEF Promise!Next
  <2>3. CASE Increase
    BY <2>3 DEF Increase, Accepted
  <2>4. CASE LeaveLoop
    BY <2>4 DEF LeaveLoop, Accepted
  <2>5. CASE SubmitCompleted
    <3>1. Accepted' = Accepted /\ ~hasSubmitCompleted
      BY <2>5 DEF SubmitCompleted, Accepted, Submission
    <3>2. Promise!Close
      BY <2>5, <3>1 DEF SubmitCompleted, Promise!Close
    <3> QED BY <3>2 DEF Promise!Next
  <2> QED BY <1>1, <2>1, <2>2, <2>3, <2>4, <2>5 DEF Submitting
<1>2. CASE Await
  BY <1>2 DEF Await, Accepted
<1>3. CASE Interrupted
  BY <1>3 DEF Interrupted, Accepted
<1>4. ASSUME NEW t \in Tasks, Worker(t) PROVE Step
  <2>1. CASE Start(t)
    BY <2>1 DEF Start, Accepted
  <2>2. CASE Discard(t)
    BY <2>2 DEF Discard, Accepted
  <2>3. CASE AddResult(t)
    <3>1. Accepted' = Accepted /\ t \in Accepted \ list
      BY <2>3 DEF AddResult, Accepted, Submission
    <3>2. Promise!Execute(t)
      BY <2>3, <3>1 DEF AddResult, Promise!Execute
    <3> QED BY <3>2 DEF Promise!Next
  <2>4. CASE Record(t)
    BY <2>4 DEF Record, Accepted
  <2> QED BY <1>4, <2>1, <2>2, <2>3, <2>4 DEF Worker
<1>5. ASSUME NEW p \in Procs, Check(p) PROVE Step
  <2>1. CASE Decrement(p)
    BY <2>1 DEF Decrement, Accepted
  <2>2. CASE ReadSubmitted(p)
    BY <2>2 DEF ReadSubmitted, AfterCheck, Accepted
  <2>3. CASE OnComplete(p)
    <3>1. isLast[p] /\ hasSubmitCompleted /\ \A c \in calls : c.by # p
      BY <2>3 DEF OnComplete, Reports
    <3>2. calls = {}
      BY <3>1, early = {} DEF Reports, Last
    <3>3. Accepted' = Accepted /\ list = Accepted
      BY <2>3, <3>1, LastSawAll DEF OnComplete, Accepted
    <3>4. Promise!Report
      BY <2>3, <3>1, <3>2, <3>3 DEF OnComplete, Promise!Report
    <3> QED BY <3>4 DEF Promise!Next
  <2>4. CASE OnCompleteReturns(p)
    BY <2>4 DEF OnCompleteReturns, Accepted
  <2>5. CASE OnCompleteThrows(p)
    BY <2>5 DEF OnCompleteThrows, Accepted
  <2>6. CASE CountDown(p)
    <3>1. Accepted' = Accepted /\ calls # {}
      BY <2>6 DEF CountDown, AfterCheck, Accepted, Reports
    <3>2. CASE latch = 0
      BY <2>6, <3>1, <3>2 DEF CountDown
    <3>3. CASE latch # 0
      <4>1. Promise!Release
        BY <2>6, <3>1, <3>3 DEF CountDown, Promise!Release
      <4> QED BY <4>1 DEF Promise!Next
    <3> QED BY <3>2, <3>3
  <2> QED BY <1>5, <2>1, <2>2, <2>3, <2>4, <2>5, <2>6 DEF Check
<1>6. CASE UNCHANGED vars
  BY <1>6 DEF vars, Accepted
<1> QED BY <1>1, <1>2, <1>3, <1>4, <1>5, <1>6 DEF Next

\* The counter, the flag and the latch implement the promise of a batch in
\* every execution in which no task outruns its own count.
THEOREM OrderlyKeepsPromise == OrderlySpec => PromiseKept
<1> DEFINE Calm == early = {}
<1>1. Init => IInv /\ Calm
  BY InitInvariant DEF Init
<1>2. IInv /\ Calm /\ [Next /\ early' = {}]_vars => IInv' /\ Calm'
  <2> SUFFICES ASSUME IInv, early = {}, [Next /\ early' = {}]_vars
               PROVE  IInv' /\ early' = {}
    OBVIOUS
  <2>1. [Next]_vars /\ early' = {}
    BY DEF vars, history
  <2> QED BY <2>1, NextTyped, CountStep, SubmissionStep, LastStep, ReportsStep, ReporterStep
          DEF IInv
<1>3. IInv /\ Calm /\ [Next /\ early' = {}]_vars =>
        [Promise!Next]_<<~hasSubmitCompleted, Accepted, list, calls # {}, latch = 0>>
  BY PromiseStep
<1>4. OrderlySpec => [](IInv /\ Calm)
  <2> HIDE DEF Calm
  <2> QED BY <1>1, <1>2, PTL DEF OrderlySpec
<1>5. OrderlySpec => [][Promise!Next]_<<~hasSubmitCompleted, Accepted, list, calls # {}, latch = 0>>
  <2> HIDE DEF Calm
  <2> QED BY <1>3, <1>4, PTL DEF OrderlySpec
<1>6. OrderlySpec => Promise!Init
  BY PromiseInit, PTL DEF OrderlySpec
<1> QED BY <1>5, <1>6, PTL DEF PromiseKept, Promise!Spec

\* What the promise means for its user, told by the abstract specification
\* alone: the latch is open only after the report, and the report comes only
\* after the last submission, when every accepted task has been executed.
THEOREM PromiseMeansAll ==
  PromiseKept => [](/\ latch = 0 => calls # {}
                    /\ calls # {} => hasSubmitCompleted /\ list = Accepted)
<1> DEFINE Whole == /\ latch = 0 => calls # {}
                    /\ calls # {} => hasSubmitCompleted /\ list = Accepted
           view == <<~hasSubmitCompleted, Accepted, list, calls # {}, latch = 0>>
<1>1. Promise!Init => Whole
  BY DEF Promise!Init
<1>2. Whole /\ [Promise!Next]_view => Whole'
  <2> SUFFICES ASSUME Whole, [Promise!Next]_view PROVE Whole'
    OBVIOUS
  <2>1. ASSUME NEW t \in Tasks, Promise!Accept(t) \/ Promise!Execute(t) PROVE Whole'
    BY <2>1 DEF Promise!Accept, Promise!Execute
  <2>2. CASE Promise!Close
    BY <2>2 DEF Promise!Close
  <2>3. CASE Promise!Report
    BY <2>3 DEF Promise!Report
  <2>4. CASE Promise!Release
    BY <2>4 DEF Promise!Release
  <2>5. CASE UNCHANGED view
    BY <2>5
  <2> QED BY <2>1, <2>2, <2>3, <2>4, <2>5 DEF Promise!Next
<1> HIDE DEF Whole
<1>3. PromiseKept => []Whole
  BY <1>1, <1>2, PTL DEF PromiseKept, Promise!Spec
<1> QED BY <1>3 DEF Whole
=============================================================================
