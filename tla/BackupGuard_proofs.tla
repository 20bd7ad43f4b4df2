------------------------- MODULE BackupGuard_proofs -------------------------
(***************************************************************************)
(* For any number of requests, runs and failures: while a playbook works   *)
(* on a VM's disk the VM stays off.                                        *)
(***************************************************************************)
EXTENDS BackupGuard, TLAPS

\* A run the check of running_playbook still protects: it is not over, it is
\* not two days old, and every request past the check knew of it.
Protected(k) == k \in Unfinished \ exposed /\ k > aged

\* What the backups past the creation of their run know of it: it is theirs
\* alone, it has not been started before they come to that, and none resumes
\* the VM while it goes on.
Owning ==
    /\ \A r \in Requests :
          /\ own[r] # 0 <=> pc[r] \in {"stop", "wait", "exec", "playing", "resume"}
          /\ pc[r] \in {"stop", "wait", "exec"} => runs[own[r]] = "init"
          /\ pc[r] = "resume" => runs[own[r]] # "running" \/ own[r] \in exposed
    /\ \A q, r \in Requests : q # r /\ own[r] # 0 => own[q] # own[r]

\* While a run is protected nobody is past the check but the backup that
\* created it, so that the VM it has seen off stays off.
Alone ==
    \A k \in DOMAIN runs : Protected(k) =>
        /\ \A r \in Requests : Past(r) => own[r] = k
        /\ \A r \in Requests : pc[r] = "exec" => vm = "off"
        /\ runs[k] = "running" => vm = "off"

BackupInv == TypeOK /\ Owning /\ Alone

-----------------------------------------------------------------------------

\* Facts about the runs every step uses.
LEMMA Numbers ==
    ASSUME TypeOK
    PROVE  /\ Len(runs) \in Nat /\ DOMAIN runs = 1 .. Len(runs)
           /\ aged \in Nat /\ 0 \notin DOMAIN runs
           /\ Unfinished = {k \in 1 .. Len(runs) : runs[k] \in {"init", "running"}}
  BY SMT DEF TypeOK, Unfinished

\* A request that is through.
LEMMA ReturnFrame ==
    ASSUME TypeOK, NEW r \in Requests, Return(r)
    PROVE  /\ pc'[r] = "idle" /\ own'[r] = 0
           /\ \A q \in Requests \ {r} : pc'[q] = pc[q] /\ own'[q] = own[q]
  BY DEF TypeOK, Return

LEMMA ReturnType ==
    ASSUME TypeOK, NEW r \in Requests, Return(r)
    PROVE  /\ pc' \in [Requests -> {"idle", "guard", "act", "stop", "wait", "exec",
                                    "playing", "resume", "round"}]
           /\ method' \in [Requests -> {"none", "exec", "resume", "round"}]
           /\ req' \in [Requests -> 0 .. Len(runs)]
           /\ own' \in [Requests -> 0 .. Len(runs)]
  <1>1. 0 \in 0 .. Len(runs)
    BY SMT DEF TypeOK
  <1> QED BY <1>1 DEF TypeOK, Return

\* Steps that start no run, bring nobody past the check, and leave the VM off
\* if it is and somebody relies on it.
LEMMA StillAlone ==
    ASSUME TypeOK, Alone, runs' = runs, exposed \subseteq exposed',
           aged' = aged \/ aged' = aged + 1,
           \A r \in Requests : Past(r)' => Past(r) /\ own'[r] = own[r],
           \A r \in Requests : pc'[r] = "exec" => pc[r] = "exec" \/ vm' = "off",
           vm' = "off" \/ vm # "off" \/ \A k \in DOMAIN runs : ~Protected(k)'
    PROVE  Alone'
  <1> SUFFICES ASSUME NEW k \in DOMAIN runs, Protected(k)'
               PROVE  /\ \A r \in Requests : Past(r)' => own'[r] = k
                      /\ \A r \in Requests : pc'[r] = "exec" => vm' = "off"
                      /\ runs[k] = "running" => vm' = "off"
    BY DEF Alone
  <1>1. Protected(k)
    BY Numbers DEF Protected, Unfinished
  <1> QED BY <1>1 DEF Alone

LEMMA BackupInit == Init => BackupInv
  <1> SUFFICES ASSUME Init PROVE BackupInv
    OBVIOUS
  <1> USE BackupAssumption
  <1>1. /\ runs = << >> /\ Len(runs) = 0 /\ DOMAIN runs = {}
    BY SMT DEF Init
  <1>2. TypeOK
    <2>1. /\ runs \in Seq({"init", "running", "over"})
          /\ Len(runs) <= MaxRuns /\ 0 \in 0 .. Len(runs)
      BY <1>1, SMT DEF Init
    <2> QED BY <1>1, <2>1 DEF Init, TypeOK
  <1>3. Owning
    BY DEF Init, Owning
  <1>4. Alone
    BY <1>1 DEF Alone
  <1> QED BY <1>2, <1>3, <1>4 DEF BackupInv

-----------------------------------------------------------------------------
(* The steps.                                                              *)

LEMMA BeginStep ==
    ASSUME BackupInv, NEW r \in Requests, Begin(r)
    PROVE  BackupInv'
  <1>0. TypeOK /\ Owning /\ Alone
    BY DEF BackupInv
  <1>1. /\ UNCHANGED <<vm, runs, aged, data, wire, own, exposed, unresumed>>
        /\ pc[r] = "idle" /\ req' = [req EXCEPT ![r] = data]
        /\ \E s \in {"guard", "round"} : pc' = [pc EXCEPT ![r] = s]
        /\ \E m \in {"exec", "resume", "round"} : method' = [method EXCEPT ![r] = m]
    BY DEF Begin
  <1>2. TypeOK'
    BY <1>0, <1>1 DEF TypeOK
  <1>3. /\ pc'[r] \in {"guard", "round"}
        /\ \A q \in Requests \ {r} : pc'[q] = pc[q]
    BY <1>0, <1>1 DEF TypeOK
  <1>4. Owning'
    BY <1>0, <1>1, <1>3 DEF Owning
  <1>5. Alone'
    BY <1>0, <1>1, <1>3, StillAlone DEF Past
  <1> QED BY <1>2, <1>4, <1>5 DEF BackupInv

LEMMA GuardStep ==
    ASSUME BackupInv, NEW r \in Requests, Guard(r)
    PROVE  BackupInv'
  <1>0. TypeOK /\ Owning /\ Alone
    BY DEF BackupInv
  <1>1. UNCHANGED <<vm, runs, aged, data, unresumed>> /\ pc[r] = "guard"
    BY DEF Guard
  <1>2. CASE Return(r) /\ UNCHANGED <<wire, exposed>>
    <2>1. TypeOK'
      BY <1>0, <1>1, <1>2, ReturnType DEF TypeOK
    <2>2. Owning'
      BY <1>0, <1>1, <1>2, ReturnFrame DEF Owning
    <2>3. Alone'
      BY <1>0, <1>1, <1>2, ReturnFrame, StillAlone DEF Past
    <2> QED BY <2>1, <2>2, <2>3 DEF BackupInv
  <1>3. CASE /\ req[r] = 0 \/ Expired(req[r]) \/ ~StillRunning(req[r])
             /\ Pass(r)
    <2>1. /\ pc' = [pc EXCEPT ![r] = "act"] /\ req' = [req EXCEPT ![r] = 0]
          /\ wire' \subseteq wire \cup {0} /\ UNCHANGED <<method, own>>
          /\ exposed' = exposed \cup (Unfinished \ {req[r]})
      BY <1>3 DEF Pass
    <2>2. TypeOK'
      BY <1>0, <1>1, <2>1, Numbers DEF TypeOK
    <2>3. pc'[r] = "act" /\ \A q \in Requests \ {r} : pc'[q] = pc[q]
      BY <1>0, <2>1 DEF TypeOK
    <2>4. Owning'
      BY <1>0, <1>1, <2>1, <2>3 DEF Owning
    <2>5. \A k \in DOMAIN runs : ~Protected(k)'
      BY <1>0, <1>1, <1>3, <2>1, Numbers
      DEF Protected, Expired, StillRunning, Unfinished
    <2>6. Alone'
      BY <1>1, <2>5 DEF Alone
    <2> QED BY <2>2, <2>4, <2>6 DEF BackupInv
  <1> QED BY <1>2, <1>3 DEF Guard

LEMMA ResumeStep ==
    ASSUME BackupInv, NEW r \in Requests, Resume(r)
    PROVE  BackupInv'
  <1>0. TypeOK /\ Owning /\ Alone
    BY DEF BackupInv
  <1>1. /\ UNCHANGED <<runs, aged, data, exposed, unresumed>> /\ pc[r] = "act" /\ Return(r)
        /\ vm' = vm \/ vm' = "on"
        /\ wire' = wire \/ wire' = wire \cup {req[r]}
    BY DEF Resume, Publish
  <1>2. TypeOK'
    BY <1>0, <1>1, ReturnType DEF TypeOK
  <1>3. Owning'
    BY <1>0, <1>1, ReturnFrame DEF Owning
  <1>4. \A k \in DOMAIN runs : ~Protected(k)
    BY <1>0, <1>1, Numbers DEF Alone, Owning, Past
  <1>5. Alone'
    BY <1>1, <1>4 DEF Alone, Protected, Unfinished
  <1> QED BY <1>2, <1>3, <1>5 DEF BackupInv

LEMMA RoundStep ==
    ASSUME BackupInv, NEW r \in Requests, Round(r)
    PROVE  BackupInv'
  <1>0. TypeOK /\ Owning /\ Alone
    BY DEF BackupInv
  <1>1. /\ UNCHANGED <<vm, runs, aged, data, exposed, unresumed>>
        /\ pc[r] = "round" /\ Return(r) /\ wire' = wire \cup {req[r]}
    BY DEF Round, Publish
  <1>2. TypeOK'
    BY <1>0, <1>1, ReturnType DEF TypeOK
  <1>3. Owning'
    BY <1>0, <1>1, ReturnFrame DEF Owning
  <1>4. Alone'
    BY <1>0, <1>1, ReturnFrame, StillAlone DEF Past
  <1> QED BY <1>2, <1>3, <1>4 DEF BackupInv

LEMMA CreateStep ==
    ASSUME BackupInv, NEW r \in Requests, Create(r)
    PROVE  BackupInv'
  <1>0. TypeOK /\ Owning /\ Alone
    BY DEF BackupInv
  <1>1. UNCHANGED <<vm, aged, data, unresumed>> /\ pc[r] = "act"
    BY DEF Create
  <1>2. CASE Return(r) /\ UNCHANGED <<runs, wire, exposed>>
    <2>1. TypeOK'
      BY <1>0, <1>1, <1>2, ReturnType DEF TypeOK
    <2>2. Owning'
      BY <1>0, <1>1, <1>2, ReturnFrame DEF Owning
    <2>3. Alone'
      BY <1>0, <1>1, <1>2, ReturnFrame, StillAlone DEF Past
    <2> QED BY <2>1, <2>2, <2>3 DEF BackupInv
  <1>3. CASE ~(Return(r) /\ UNCHANGED <<runs, wire, exposed>>)
    <2> DEFINE k == Len(runs) + 1
    <2>1. /\ k <= MaxRuns /\ wire' = wire \cup {k}
          /\ runs' = Append(runs, "init")
          /\ own' = [own EXCEPT ![r] = k] /\ pc' = [pc EXCEPT ![r] = "stop"]
          /\ exposed' = IF \E q \in Requests \ {r} : Past(q) THEN exposed \cup {k} ELSE exposed
          /\ UNCHANGED <<method, req>>
      BY <1>3 DEF Create, Publish
    <2>2. /\ Len(runs) \in Nat /\ k \in Nat /\ DOMAIN runs = 1 .. Len(runs)
          /\ runs' \in Seq({"init", "running", "over"})
          /\ Len(runs') = k /\ DOMAIN runs' = 1 .. k /\ runs'[k] = "init"
          /\ \A j \in 1 .. Len(runs) : runs'[j] = runs[j]
          /\ \A j \in 1 .. k : j \in 1 .. Len(runs) \/ j = k
          /\ \A j \in 0 .. Len(runs) : j \in 0 .. k /\ j # k
      BY <1>0, <2>1, SMT DEF TypeOK
    <2>3. /\ pc'[r] = "stop" /\ own'[r] = k
          /\ \A q \in Requests \ {r} : pc'[q] = pc[q] /\ own'[q] = own[q]
      BY <1>0, <2>1 DEF TypeOK
    <2> HIDE DEF k
    <2>4. TypeOK'
      <3>1. /\ vm' \in {"on", "stopping", "off"} /\ Len(runs') <= MaxRuns
            /\ aged' \in 0 .. k /\ data' \in 0 .. k /\ wire' \subseteq 0 .. k
        BY <1>0, <1>1, <2>1, <2>2 DEF TypeOK
      <3>2. /\ pc' \in [Requests -> {"idle", "guard", "act", "stop", "wait", "exec",
                                     "playing", "resume", "round"}]
            /\ method' \in [Requests -> {"none", "exec", "resume", "round"}]
        BY <1>0, <2>1 DEF TypeOK
      <3>3. req' \in [Requests -> 0 .. k] /\ own' \in [Requests -> 0 .. k]
        BY <1>0, <2>1, <2>2 DEF TypeOK
      <3>4. exposed' \subseteq DOMAIN runs'
        BY <1>0, <2>1, <2>2 DEF TypeOK
      <3>5. unresumed' \in BOOLEAN
        BY <1>0, <1>1 DEF TypeOK
      <3> QED BY <2>2, <3>1, <3>2, <3>3, <3>4, <3>5 DEF TypeOK
    <2>5. \A q \in Requests : own[q] \in 0 .. Len(runs) /\ own[q] # k
      BY <1>0, <2>2 DEF TypeOK
    <2>6. Owning'
      <3>1. ASSUME NEW q \in Requests
            PROVE  /\ own'[q] # 0 <=> pc'[q] \in {"stop", "wait", "exec", "playing", "resume"}
                   /\ pc'[q] \in {"stop", "wait", "exec"} => runs'[own'[q]] = "init"
                   /\ pc'[q] = "resume" => runs'[own'[q]] # "running" \/ own'[q] \in exposed'
        <4>1. CASE q = r
          BY <2>2, <2>3, <4>1
        <4>2. CASE q # r
          <5>1. own[q] # 0 => own[q] \in 1 .. Len(runs)
            BY <2>2, <2>5
          <5>2. exposed \subseteq exposed'
            BY <2>1
          <5> QED BY <1>0, <2>2, <2>3, <4>2, <5>1, <5>2 DEF Owning
        <4> QED BY <4>1, <4>2
      <3>2. \A p, q \in Requests : p # q /\ own'[q] # 0 => own'[p] # own'[q]
        BY <1>0, <2>3, <2>5 DEF Owning
      <3> QED BY <3>1, <3>2 DEF Owning
    <2>7. \A j \in DOMAIN runs : ~Protected(j)
      BY <1>0, <1>1, Numbers DEF Alone, Owning, Past
    <2>8. Alone'
      <3> SUFFICES ASSUME NEW j \in 1 .. k, Protected(j)'
                   PROVE  /\ \A q \in Requests : Past(q)' => own'[q] = j
                          /\ \A q \in Requests : pc'[q] = "exec" => vm' = "off"
                          /\ runs'[j] = "running" => vm' = "off"
        BY <2>2 DEF Alone
      <3>1. j \notin 1 .. Len(runs)
        BY <1>1, <2>1, <2>2, <2>7 DEF Protected, Unfinished
      <3>2. j = k /\ k \notin exposed'
        BY <2>2, <3>1 DEF Protected
      <3>3. \A q \in Requests \ {r} : ~Past(q)
        BY <2>1, <3>2
      <3> QED BY <2>2, <2>3, <3>2, <3>3 DEF Past
    <2> QED BY <2>4, <2>6, <2>8 DEF BackupInv
  <1> QED BY <1>2, <1>3

\* Steps from one stage of a backup to the next.
LEMMA GoType ==
    ASSUME TypeOK, NEW r \in Requests,
           NEW s \in {"wait", "exec", "playing", "resume"}, Go(r, s)
    PROVE  /\ pc'[r] = s /\ \A q \in Requests \ {r} : pc'[q] = pc[q]
           /\ pc' \in [Requests -> {"idle", "guard", "act", "stop", "wait", "exec",
                                    "playing", "resume", "round"}]
           /\ UNCHANGED <<method, req, own>>
  BY DEF TypeOK, Go

LEMMA StopStep ==
    ASSUME BackupInv, NEW r \in Requests, Stop(r)
    PROVE  BackupInv'
  <1>0. TypeOK /\ Owning /\ Alone
    BY DEF BackupInv
  <1>1. UNCHANGED <<runs, aged, data, exposed, unresumed>> /\ pc[r] = "stop"
    BY DEF Stop
  <1>2. CASE Return(r) /\ UNCHANGED vm /\ Publish(0)
    <2>1. 0 \in 0 .. Len(runs)
      BY <1>0, SMT DEF TypeOK
    <2>2. TypeOK'
      BY <1>0, <1>1, <1>2, <2>1, ReturnType DEF TypeOK, Publish
    <2>3. Owning'
      BY <1>0, <1>1, <1>2, ReturnFrame DEF Owning
    <2>4. Alone'
      BY <1>0, <1>1, <1>2, ReturnFrame, StillAlone DEF Past
    <2> QED BY <2>2, <2>3, <2>4 DEF BackupInv
  <1>3. CASE /\ Go(r, "wait") /\ UNCHANGED wire
             /\ vm' = IF vm = "on" THEN "stopping" ELSE vm
    <2>1. TypeOK'
      BY <1>0, <1>1, <1>3, GoType DEF TypeOK
    <2>2. Owning'
      BY <1>0, <1>1, <1>3, GoType DEF Owning
    <2>3. Alone'
      BY <1>0, <1>1, <1>3, GoType, StillAlone DEF Past
    <2> QED BY <2>1, <2>2, <2>3 DEF BackupInv
  <1> QED BY <1>2, <1>3 DEF Stop

LEMMA WaitStep ==
    ASSUME BackupInv, NEW r \in Requests, WaitForPoweroff(r)
    PROVE  BackupInv'
  <1>0. TypeOK /\ Owning /\ Alone
    BY DEF BackupInv
  <1>1. /\ UNCHANGED <<vm, runs, aged, data, wire, exposed, unresumed>>
        /\ pc[r] = "wait" /\ vm = "off" /\ Go(r, "exec")
    BY DEF WaitForPoweroff
  <1>2. TypeOK'
    BY <1>0, <1>1, GoType DEF TypeOK
  <1>3. Owning'
    BY <1>0, <1>1, GoType DEF Owning
  <1>4. Alone'
    BY <1>0, <1>1, GoType, StillAlone DEF Past
  <1> QED BY <1>2, <1>3, <1>4 DEF BackupInv

\* A run whose status changes.
LEMMA Replaced ==
    ASSUME TypeOK, NEW k, NEW st \in {"init", "running", "over"},
           runs' = [runs EXCEPT ![k] = st]
    PROVE  /\ runs' \in Seq({"init", "running", "over"})
           /\ Len(runs') = Len(runs) /\ DOMAIN runs' = DOMAIN runs
           /\ \A j \in DOMAIN runs : runs'[j] = IF j = k THEN st ELSE runs[j]
  <1> DEFINE S == {"init", "running", "over"}
  <1>1. runs \in Seq(S) /\ st \in S
    BY DEF TypeOK
  <1> HIDE DEF S
  <1>2. DOMAIN runs = 1 .. Len(runs) /\ Len(runs) \in Nat
    BY <1>1
  <1>3. /\ DOMAIN runs' = 1 .. Len(runs)
        /\ \A j \in 1 .. Len(runs) : runs'[j] = IF j = k THEN st ELSE runs[j]
    BY <1>2
  <1>4. \A j \in 1 .. Len(runs) : runs'[j] \in S
    BY <1>1, <1>3
  <1>5. runs' \in [1 .. Len(runs) -> S]
    BY <1>3, <1>4
  <1>6. runs' \in Seq(S) /\ Len(runs') = Len(runs)
    <2> DEFINE q == runs'
               n == Len(runs)
    <2>1. q \in [1 .. n -> S] /\ n \in Nat
      BY <1>2, <1>5
    <2> HIDE DEF q, n
    <2>2. q \in Seq(S) /\ Len(q) = n
      BY <2>1
    <2> QED BY <2>2 DEF q, n
  <1> QED BY <1>2, <1>3, <1>6 DEF S

LEMMA ExecStep ==
    ASSUME BackupInv, NEW r \in Requests, Exec(r)
    PROVE  BackupInv'
  <1>0. TypeOK /\ Owning /\ Alone
    BY DEF BackupInv
  <1>1. UNCHANGED <<vm, aged, data, exposed, unresumed>> /\ pc[r] = "exec"
    BY DEF Exec
  <1>2. /\ own[r] \in DOMAIN runs /\ runs[own[r]] = "init"
        /\ \A q \in Requests \ {r} : own[q] # own[r]
        /\ \A q \in Requests : own[q] # 0 => own[q] \in DOMAIN runs
    <2>1. own[r] # 0 /\ runs[own[r]] = "init" /\ \A q \in Requests \ {r} : own[q] # own[r]
      BY <1>0, <1>1 DEF Owning
    <2>2. \A q \in Requests : own[q] \in 0 .. Len(runs)
      BY <1>0 DEF TypeOK
    <2>3. \A j \in 0 .. Len(runs) : j # 0 => j \in DOMAIN runs
      BY <1>0, Numbers, SMT
    <2> QED BY <2>1, <2>2, <2>3
  <1>3. CASE Fail /\ Publish(0) /\ Go(r, "resume") /\ UNCHANGED runs
    <2>1. 0 \in 0 .. Len(runs)
      BY <1>0, SMT DEF TypeOK
    <2>2. TypeOK'
      BY <1>0, <1>1, <1>3, <2>1, GoType DEF TypeOK, Publish
    <2>3. Owning'
      BY <1>0, <1>1, <1>2, <1>3, GoType DEF Owning
    <2>4. Alone'
      BY <1>0, <1>1, <1>3, GoType, StillAlone DEF Past
    <2> QED BY <2>2, <2>3, <2>4 DEF BackupInv
  <1>4. CASE Started(r)
    <2>1. /\ runs' = [runs EXCEPT ![own[r]] = "running"]
          /\ Go(r, "playing") /\ UNCHANGED wire
      BY <1>4 DEF Started
    <2>2. /\ runs' \in Seq({"init", "running", "over"})
          /\ Len(runs') = Len(runs) /\ DOMAIN runs' = DOMAIN runs
          /\ runs'[own[r]] = "running"
          /\ \A j \in DOMAIN runs : j # own[r] => runs'[j] = runs[j]
      BY <1>0, <1>2, <2>1, Replaced
    <2>3. /\ pc'[r] = "playing" /\ \A q \in Requests \ {r} : pc'[q] = pc[q]
          /\ UNCHANGED <<method, req, own>>
      BY <1>0, <2>1, GoType
    <2>4. TypeOK'
      BY <1>0, <1>1, <2>1, <2>2, GoType DEF TypeOK
    <2>5. Owning'
      BY <1>0, <1>1, <1>2, <2>2, <2>3 DEF Owning
    <2>6. ASSUME NEW k \in DOMAIN runs, Protected(k)' PROVE Protected(k)
      BY <1>0, <1>1, <1>2, <2>2, <2>6, Numbers DEF Protected, Unfinished
    <2>7. Alone'
      BY <1>0, <1>1, <2>2, <2>3, <2>6 DEF Alone, Past
    <2> QED BY <2>4, <2>5, <2>7 DEF BackupInv
  <1> QED BY <1>3, <1>4 DEF Exec

LEMMA PlayedStep ==
    ASSUME BackupInv, NEW r \in Requests, Played(r)
    PROVE  BackupInv'
  <1>0. TypeOK /\ Owning /\ Alone
    BY DEF BackupInv
  <1>1. /\ UNCHANGED <<vm, runs, aged, data, unresumed>> /\ pc[r] = "playing"
        /\ Go(r, "resume")
        /\ wire' = wire \/ wire' = wire \cup {0}
        /\ \/ own[r] \notin Unfinished /\ exposed' = exposed
           \/ own[r] \in Unfinished /\ exposed' = exposed \cup {own[r]}
    BY DEF Played, Publish
  <1>2. 0 \in 0 .. Len(runs) /\ Unfinished \subseteq DOMAIN runs
    BY <1>0, SMT DEF TypeOK, Unfinished
  <1>3. TypeOK'
    BY <1>0, <1>1, <1>2, GoType DEF TypeOK
  <1>4. runs[own[r]] # "running" \/ own[r] \in exposed'
    <2>1. own[r] \in DOMAIN runs
      <3>1. own[r] # 0 /\ own[r] \in 0 .. Len(runs)
        BY <1>0, <1>1 DEF Owning, TypeOK
      <3> QED BY <1>0, <3>1, Numbers, SMT
    <2> QED BY <1>1, <2>1 DEF Unfinished
  <1>5. Owning'
    BY <1>0, <1>1, <1>4, GoType DEF Owning
  <1>6. Alone'
    BY <1>0, <1>1, GoType, StillAlone DEF Past
  <1> QED BY <1>3, <1>5, <1>6 DEF BackupInv

\* A backup that resumes the VM is not one whose playbook goes on.
LEMMA ResumeVMStep ==
    ASSUME BackupInv, NEW r \in Requests, ResumeVM(r)
    PROVE  BackupInv'
  <1>0. TypeOK /\ Owning /\ Alone
    BY DEF BackupInv
  <1>1. /\ UNCHANGED <<runs, aged, data, wire, exposed>> /\ pc[r] = "resume" /\ Return(r)
        /\ vm' \in {vm, "on"} /\ unresumed' \in {unresumed, TRUE}
    BY DEF ResumeVM
  <1>2. TypeOK'
    BY <1>0, <1>1, ReturnType DEF TypeOK
  <1>3. Owning'
    BY <1>0, <1>1, ReturnFrame DEF Owning
  <1>4. Alone'
    <2> SUFFICES ASSUME NEW k \in DOMAIN runs, Protected(k)'
                 PROVE  /\ \A q \in Requests : Past(q)' => own'[q] = k
                        /\ \A q \in Requests : pc'[q] = "exec" => vm' = "off"
                        /\ runs[k] = "running" => vm' = "off"
      BY <1>1 DEF Alone
    <2>1. Protected(k) /\ k \notin exposed
      BY <1>1 DEF Protected, Unfinished
    <2>2. \A q \in Requests : Past(q) => own[q] = k
      BY <1>0, <2>1 DEF Alone
    <2>3. own[r] = k /\ \A q \in Requests \ {r} : ~Past(q)
      BY <1>0, <1>1, <2>2 DEF Past, Owning
    <2>4. runs[k] # "running"
      BY <1>0, <1>1, <2>1, <2>3 DEF Owning
    <2>5. \A q \in Requests : ~Past(q)'
      BY <1>0, <1>1, <2>3, ReturnFrame DEF Past
    <2> QED BY <2>4, <2>5 DEF Past
  <1> QED BY <1>2, <1>3, <1>4 DEF BackupInv

LEMMA RunEndsStep ==
    ASSUME BackupInv, RunEnds
    PROVE  BackupInv'
  <1>0. TypeOK /\ Owning /\ Alone
    BY DEF BackupInv
  <1>1. UNCHANGED <<vm, aged, data, wire, pc, method, req, own, exposed, unresumed>>
    BY DEF RunEnds, local
  <1>2. PICK k \in DOMAIN runs : /\ runs[k] = "running"
                                 /\ runs' = [runs EXCEPT ![k] = "over"]
    BY DEF RunEnds
  <1>3. /\ runs' \in Seq({"init", "running", "over"})
        /\ Len(runs') = Len(runs) /\ DOMAIN runs' = DOMAIN runs
        /\ runs'[k] = "over"
        /\ \A j \in DOMAIN runs : j # k => runs'[j] = runs[j]
    BY <1>0, <1>2, Replaced
  <1>4. TypeOK'
    BY <1>0, <1>1, <1>3 DEF TypeOK
  <1>5. \A q \in Requests : own[q] # 0 => own[q] \in DOMAIN runs
    BY <1>0, Numbers, SMT DEF TypeOK
  <1>6. Owning'
    BY <1>0, <1>1, <1>2, <1>3, <1>5 DEF Owning
  <1>7. \A j \in DOMAIN runs : Protected(j)' => Protected(j) /\ j # k
    BY <1>1, <1>2, <1>3 DEF Protected, Unfinished
  <1>8. Alone'
    BY <1>0, <1>1, <1>3, <1>7 DEF Alone, Past
  <1> QED BY <1>4, <1>6, <1>8 DEF BackupInv

LEMMA CrashStep ==
    ASSUME BackupInv, Crash
    PROVE  BackupInv'
  <1>0. TypeOK /\ Owning /\ Alone
    BY DEF BackupInv
  <1>1. /\ UNCHANGED <<vm, runs, aged, data, exposed>> /\ wire' = {}
        /\ pc' = [r \in Requests |-> "idle"] /\ method' = [r \in Requests |-> "none"]
        /\ req' = [r \in Requests |-> 0] /\ own' = [r \in Requests |-> 0]
        /\ unresumed' \in BOOLEAN
    BY <1>0 DEF Crash, TypeOK
  <1>2. 0 \in 0 .. Len(runs)
    BY <1>0, SMT DEF TypeOK
  <1>3. TypeOK'
    BY <1>0, <1>1, <1>2 DEF TypeOK
  <1>4. Owning'
    BY <1>1 DEF Owning
  <1>5. Alone'
    BY <1>0, <1>1, StillAlone DEF Past
  <1> QED BY <1>3, <1>4, <1>5 DEF BackupInv

\* A VM that powers off, time that passes, and data that arrive.
LEMMA AroundStep ==
    ASSUME BackupInv, PoweredOff \/ TwoDaysPass \/ Arrive \/ UNCHANGED vars
    PROVE  BackupInv'
  <1>0. TypeOK /\ Owning /\ Alone
    BY DEF BackupInv
  <1>1. /\ UNCHANGED <<runs, pc, method, req, own, exposed, unresumed>>
        /\ vm' = vm \/ vm' = "off"
        /\ aged' = aged \/ (aged < Len(runs) /\ aged' = aged + 1)
        /\ data' = data \/ data' \in wire
        /\ wire' \subseteq wire
    BY DEF PoweredOff, TwoDaysPass, Arrive, vars, local
  <1>2. TypeOK'
    <2>1. aged' \in 0 .. Len(runs)
      BY <1>0, <1>1, SMT DEF TypeOK
    <2> QED BY <1>0, <1>1, <2>1 DEF TypeOK
  <1>3. Owning'
    BY <1>0, <1>1 DEF Owning
  <1>4. Alone'
    BY <1>0, <1>1, StillAlone DEF Past
  <1> QED BY <1>2, <1>3, <1>4 DEF BackupInv

\* The invariant that says what the check of running_playbook protects.
THEOREM Invariance == Spec => []BackupInv
  <1>1. BackupInv /\ [Next]_vars => BackupInv'
    <2> SUFFICES ASSUME BackupInv, [Next]_vars PROVE BackupInv'
      OBVIOUS
    <2>1. ASSUME NEW r \in Requests, Step(r) PROVE BackupInv'
      BY <2>1, GuardStep, ResumeStep, RoundStep, CreateStep, StopStep, WaitStep,
         ExecStep, PlayedStep, ResumeVMStep DEF Step
    <2> QED BY <2>1, BeginStep, RunEndsStep, CrashStep, AroundStep DEF Next
  <1> QED BY <1>1, BackupInit, PTL DEF Spec

\* Runs, the data about them and the stages of requests keep their types.
THEOREM TypeCorrect == Spec => []TypeOK
  <1>1. BackupInv => TypeOK
    BY DEF BackupInv
  <1> QED BY <1>1, Invariance, PTL

\* "Poweroff and wait for poweroff before start": however many requests overlap,
\* whatever calls fail, wherever the driver is restarted and in whatever order
\* its publications arrive, nothing starts the VM while a playbook works on its
\* disk that is not exposed and not two days old.
THEOREM DiskUnused == Spec => []PlaybookOnStoppedVM
  <1>1. BackupInv => PlaybookOnStoppedVM
    BY DEF BackupInv, Alone, Protected, Unfinished, PlaybookOnStoppedVM
  <1> QED BY <1>1, Invariance, PTL

=============================================================================
