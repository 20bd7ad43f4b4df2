----------------------- MODULE MonitoringRounds_proofs ----------------------
(***************************************************************************)
(* For any number of groups, requests and instances: the marks in redis    *)
(* never outlive the round they are meant for, and no request overdraws    *)
(* the balance it was given.                                               *)
(***************************************************************************)
EXTENDS MonitoringRounds, TLAPS

\* What a request has paid and what it has left make up the balance it was
\* given; a request with nothing to bill has paid nothing.
Accounts ==
    /\ balance \in [Requests -> Nat]
    /\ left \in [Requests -> Nat]
    /\ paid \in [Requests -> Nat]
    /\ \A r \in Requests : paid[r] + left[r] = balance[r]

\* The marks, those read and those to come are keys of groups, and no mark
\* is one that should have been cleared.
Marks ==
    /\ marked \subseteq Groups
    /\ todo \in [Requests -> SUBSET Groups]
    /\ found \in [Requests -> SUBSET (Groups \X {"old", "renewed"})]
    /\ MarksAreFresh

-----------------------------------------------------------------------------

\* A step of one request keeps what every request has paid within its
\* balance: the copy of the balance is the request's own.
LEMMA AccountsStep ==
    ASSUME Accounts, [Next]_vars
    PROVE  Accounts'
  <1> USE RequestAssumption DEF Accounts, account
  <1>1. ASSUME NEW r \in Requests, Enter(r) PROVE Accounts'
    <2>1. PICK b \in 0 .. MaxBalance :
             /\ balance' = [balance EXCEPT ![r] = b]
             /\ left' = [left EXCEPT ![r] = b]
             /\ paid' = [paid EXCEPT ![r] = 0]
      BY <1>1 DEF Enter
    <2>2. b \in Nat
      BY <2>1, SMT
    <2> QED BY <2>1, <2>2, SMT
  <1>2. ASSUME NEW r \in Requests, BillInstance(r) PROVE Accounts'
    <2>1. PICK due \in 0 .. MaxDue :
             /\ paid' = [paid EXCEPT ![r] = IF due > left[r] THEN @ ELSE @ + due]
             /\ left' = [left EXCEPT ![r] = Remaining(r, due)]
      BY <1>2 DEF BillInstance
    <2>2. balance' = balance
      BY <1>2 DEF BillInstance
    <2>3. CASE due > left[r]
      BY <2>1, <2>2, <2>3, SMT DEF Remaining
    <2>4. CASE ~(due > left[r])
      <3>1. /\ paid' = [paid EXCEPT ![r] = @ + due]
            /\ left' = [left EXCEPT ![r] = @ - due]
            /\ due \in Nat /\ left[r] - due \in Nat
        BY <2>1, <2>4, SMT DEF Remaining
      <3> QED BY <2>2, <3>1, SMT
    <2> QED BY <2>3, <2>4
  <1>3. ASSUME NEW r \in Requests, Release(r) PROVE Accounts'
    BY <1>3, SMT DEF Release
  <1>4. ASSUME NEW r \in Requests, PrepareFails(r) \/ Leave(r) PROVE Accounts'
    BY <1>3, <1>4 DEF PrepareFails, Leave
  <1>5. ASSUME NEW r \in Requests,
               BeginScheduled(r) \/ BeginUnscheduled(r) \/ Skip(r) \/ Check(r)
        PROVE Accounts'
    BY <1>5 DEF BeginScheduled, BeginUnscheduled, Begin, Skip, Check
  <1>6. ASSUME NEW r \in Requests,
               EndUnscheduled(r) \/ ReadMarks(r) \/ DeleteMarks(r)
        PROVE Accounts'
    BY <1>6 DEF EndUnscheduled, ReadMarks, DeleteMarks
  <1>7. CASE Crash
    BY <1>7, SMT DEF Crash
  <1>8. CASE UNCHANGED vars
    BY <1>8 DEF vars
  <1> QED BY <1>1, <1>2, <1>4, <1>5, <1>6, <1>7, <1>8 DEF Next, Step

\* No step leaves a mark that a finished scheduled request had read: the
\* request that reads the marks deletes all it has read, and a mark set
\* again is a new one.
LEMMA MarksStep ==
    ASSUME Marks, [Next]_vars
    PROVE  Marks'
  <1> USE DEF Marks, MarksAreFresh
  <1>1. ASSUME NEW r \in Requests, Enter(r) PROVE Marks'
    <2>1. PICK g \in todo[r] :
             /\ todo' = [todo EXCEPT ![r] = @ \ {g}]
             /\ IF r \in Scheduled THEN UNCHANGED <<marked, found, stale>>
                ELSE /\ marked' = marked \cup {g}
                     /\ found' = Renewed(g)
                     /\ stale' = stale \ {g}
      BY <1>1 DEF Enter
    <2>2. Renewed(g) \in [Requests -> SUBSET (Groups \X {"old", "renewed"})]
      <3>1. \A q \in Requests : \A m \in found[q] :
               <<m[1], IF m[1] = g THEN "renewed" ELSE m[2]>>
                  \in Groups \X {"old", "renewed"}
        OBVIOUS
      <3> QED BY <3>1 DEF Renewed
    <2>3. g \in Groups
      OBVIOUS
    <2> QED BY <2>1, <2>2, <2>3
  <1>2. ASSUME NEW r \in Requests, DeleteMarks(r) PROVE Marks'
    <2>1. /\ marked' = marked \ Cleared(r)
          /\ stale' = stale \cup {g \in Groups : <<g, "old">> \in found[r]}
          /\ found' = [found EXCEPT ![r] = {}]
          /\ todo' = todo
      BY <1>2 DEF DeleteMarks
    <2>2. {g \in Groups : <<g, "old">> \in found[r]} \subseteq Cleared(r)
      <3> SUFFICES ASSUME NEW g \in Groups, <<g, "old">> \in found[r]
                   PROVE  \E m \in found[r] : m[1] = g
        BY DEF Cleared
      <3>1. <<g, "old">>[1] = g
        OBVIOUS
      <3> WITNESS <<g, "old">> \in found[r]
      <3> QED BY <3>1
    <2> QED BY <2>1, <2>2
  <1>3. ASSUME NEW r \in Requests, ReadMarks(r) PROVE Marks'
    <2>1. marked \X {"old"} \in SUBSET (Groups \X {"old", "renewed"})
      OBVIOUS
    <2> QED BY <1>3, <2>1 DEF ReadMarks
  <1>4. ASSUME NEW r \in Requests, Skip(r) PROVE Marks'
    BY <1>4 DEF Skip
  <1>5. ASSUME NEW r \in Requests, BeginScheduled(r) \/ BeginUnscheduled(r)
        PROVE Marks'
    <2>1. PICK groups \in SUBSET Groups : Begin(r, groups)
      BY <1>5 DEF BeginScheduled, BeginUnscheduled
    <2> QED BY <2>1 DEF Begin
  <1>6. ASSUME NEW r \in Requests,
               \/ Check(r) \/ PrepareFails(r) \/ BillInstance(r) \/ Leave(r)
               \/ EndUnscheduled(r)
        PROVE Marks'
    BY <1>6 DEF Check, PrepareFails, BillInstance, Leave, EndUnscheduled
  <1>7. CASE Crash
    BY <1>7 DEF Crash
  <1>8. CASE UNCHANGED vars
    BY <1>8 DEF vars
  <1> QED
    BY <1>1, <1>2, <1>3, <1>4, <1>5, <1>6, <1>7, <1>8 DEF Next, Step

-----------------------------------------------------------------------------

\* No mark outlives the round it was meant for: MarksAreFresh, for any
\* number of requests that begin, overlap and die at any point.
THEOREM NoStaleMarks == Spec => []MarksAreFresh
  <1>1. Init => Marks
    BY DEF Init, Marks, MarksAreFresh
  <1>2. Marks /\ [Next]_vars => Marks'
    BY MarksStep
  <1>3. Marks => MarksAreFresh
    BY DEF Marks
  <1> QED BY <1>1, <1>2, <1>3, PTL DEF Spec

\* No request charges a group more than the balance it was given:
\* GroupBudget, whatever the instances are due and in whichever order they
\* are billed.
THEOREM WithinBudget == Spec => []GroupBudget
  <1>1. Init => Accounts
    BY SMT DEF Init, Accounts
  <1>2. Accounts /\ [Next]_vars => Accounts'
    BY AccountsStep
  <1>3. Accounts => GroupBudget
    BY SMT DEF Accounts, GroupBudget
  <1> QED BY <1>1, <1>2, <1>3, PTL DEF Spec

\* Types, and the balance of a request stays what it was given.
LEMMA TypeStep ==
    ASSUME TypeOK, [Next]_vars
    PROVE  TypeOK'
  <1> USE RequestAssumption DEF TypeOK
  <1>1. ASSUME NEW r \in Requests, BeginScheduled(r) \/ BeginUnscheduled(r)
        PROVE  TypeOK'
    BY <1>1, SMTT(30) DEF BeginScheduled, BeginUnscheduled, Begin, account
  <1>2. ASSUME NEW r \in Requests, Skip(r) PROVE TypeOK'
    BY <1>2, SMTT(30) DEF Skip, account
  <1>3. ASSUME NEW r \in Requests, Enter(r) PROVE TypeOK'
    <2>1. UNCHANGED <<insts, failures>> /\ pc' = [pc EXCEPT ![r] = "check"]
      BY <1>3 DEF Enter
    <2>2. PICK b \in 0 .. MaxBalance :
             /\ balance' = [balance EXCEPT ![r] = b]
             /\ left' = [left EXCEPT ![r] = b]
             /\ paid' = [paid EXCEPT ![r] = 0]
      BY <1>3 DEF Enter
    <2>3. PICK g \in todo[r] :
             /\ todo' = [todo EXCEPT ![r] = @ \ {g}]
             /\ group' = [group EXCEPT ![r] = g]
             /\ IF r \in Scheduled THEN UNCHANGED <<marked, found, stale>>
                ELSE /\ marked' = marked \cup {g}
                     /\ found' = Renewed(g)
                     /\ stale' = stale \ {g}
      BY <1>3 DEF Enter
    <2>4. g \in Groups
      BY <2>3
    <2>5. found' \in [Requests -> SUBSET (Groups \X {"old", "renewed"})]
      <3>1. Renewed(g) \in [Requests -> SUBSET (Groups \X {"old", "renewed"})]
        BY DEF Renewed
      <3> QED BY <2>3, <3>1
    <2>6. /\ marked' \subseteq Groups /\ stale' \subseteq Groups
          /\ todo' \in [Requests -> SUBSET Groups]
          /\ group' \in [Requests -> Groups \cup {"none"}]
      BY <2>3, <2>4, SMTT(30)
    <2>7. /\ pc' \in [Requests -> {"idle", "groups", "check", "bill", "delete"}]
          /\ insts' \in [Requests -> SUBSET Instances]
          /\ failures' \in 0 .. MaxFailures
      BY <2>1, SMTT(30)
    <2>8. /\ balance' \in [Requests -> 0 .. MaxBalance]
          /\ left' \in [Requests -> 0 .. MaxBalance]
          /\ paid' \in [Requests -> Nat]
      BY <2>2, SMTT(30)
    <2> QED BY <2>5, <2>6, <2>7, <2>8
  <1>4. ASSUME NEW r \in Requests, Check(r) PROVE TypeOK'
    BY <1>4, SMTT(30) DEF Check, account
  <1>5. ASSUME NEW r \in Requests, PrepareFails(r) \/ Leave(r) PROVE TypeOK'
    BY <1>5, SMTT(30) DEF PrepareFails, Leave, Release
  <1>6. ASSUME NEW r \in Requests, BillInstance(r) PROVE TypeOK'
    <2>1. PICK i \in insts[r], due \in 0 .. MaxDue :
             /\ insts' = [insts EXCEPT ![r] = @ \ {i}]
             /\ paid' = [paid EXCEPT ![r] = IF due > left[r] THEN @ ELSE @ + due]
             /\ left' = [left EXCEPT ![r] = Remaining(r, due)]
      BY <1>6 DEF BillInstance
    <2>2. left[r] \in 0 .. MaxBalance /\ paid[r] \in Nat
      OBVIOUS
    <2>3. Remaining(r, due) \in 0 .. MaxBalance
      BY <2>2, SMTT(30) DEF Remaining
    <2>4. (IF due > left[r] THEN paid[r] ELSE paid[r] + due) \in Nat
      BY <2>2, SMTT(30)
    <2>5. /\ left' \in [Requests -> 0 .. MaxBalance] /\ paid' \in [Requests -> Nat]
          /\ insts' \in [Requests -> SUBSET Instances]
      BY <2>1, <2>3, <2>4
    <2> QED BY <1>6, <2>5 DEF BillInstance
  <1>7. ASSUME NEW r \in Requests, EndUnscheduled(r) PROVE TypeOK'
    BY <1>7, SMTT(30) DEF EndUnscheduled, account
  <1>8. ASSUME NEW r \in Requests, ReadMarks(r) PROVE TypeOK'
    <2>1. found' \in [Requests -> SUBSET (Groups \X {"old", "renewed"})]
      <3>1. marked \X {"old"} \in SUBSET (Groups \X {"old", "renewed"})
        OBVIOUS
      <3> QED BY <1>8, <3>1 DEF ReadMarks
    <2> QED BY <1>8, <2>1, SMTT(30) DEF ReadMarks, account
  <1>9. ASSUME NEW r \in Requests, DeleteMarks(r) PROVE TypeOK'
    <2>1. marked' \subseteq Groups /\ stale' \subseteq Groups
      BY <1>9 DEF DeleteMarks
    <2>2. /\ found' \in [Requests -> SUBSET (Groups \X {"old", "renewed"})]
          /\ pc' \in [Requests -> {"idle", "groups", "check", "bill", "delete"}]
      BY <1>9, SMTT(30) DEF DeleteMarks
    <2> QED BY <1>9, <2>1, <2>2 DEF DeleteMarks, account
  <1>10. CASE Crash
    BY <1>10, SMTT(30) DEF Crash
  <1>11. CASE UNCHANGED vars
    BY <1>11 DEF vars
  <1> QED BY <1>1, <1>2, <1>3, <1>4, <1>5, <1>6, <1>7, <1>8, <1>9, <1>10, <1>11 DEF Next, Step

\* Every variable keeps its type; in particular the balance a request counts
\* down never falls below nothing.
THEOREM TypeCorrect == Spec => []TypeOK
  <1>1. Init => TypeOK
    BY RequestAssumption, SMTT(30) DEF Init, TypeOK
  <1> QED BY <1>1, TypeStep, PTL DEF Spec

=============================================================================
