-------------------------- MODULE DeploymentProofs --------------------------
(***************************************************************************)
(* Whatever scripts are run, in whatever order, and wherever they are      *)
(* stopped and started again: no contract is overwritten by a later one,   *)
(* a provider keeps its proxies, and what is listed stays listed.  The     *)
(* inductive invariant IInv says what the contracts look like and that     *)
(* their addresses are counted, so that a new address is a fresh one.      *)
(* Markets deployed one after the other do not touch each other, and each  *)
(* is administered by its own operator.  MInv says what the steps that are *)
(* done have left behind: the database names contracts of this job, the    *)
(* helpers among them belong to this market, and what a step will write to *)
(* is among them.                                                          *)
(***************************************************************************)
EXTENDS DeploymentProperties, FiniteSetTheorems, TLAPS

Fields == {"kind", "owner", "ref", "data"}

\* A contract has its fields, a provider an entry for each proxy and a pool its reserves.
IsContract(c) ==
    /\ c = [f \in DOMAIN c |-> c[f]] /\ Fields \subseteq DOMAIN c
    /\ c.ref = [i \in DOMAIN c.ref |-> c.ref[i]]
    /\ c.kind = "LendingPoolAddressesProvider" => Entries \subseteq DOMAIN c.ref
    /\ c.kind = "LendingPool" => "reserves" \in DOMAIN c

KindOf(C, kind) == {a \in DOMAIN C : C[a].kind = kind}

\* Addresses of the scripts are numbered within the number of contracts of their kind.
IsNetwork(C) ==
    /\ C = [a \in DOMAIN C |-> C[a]] /\ IsFiniteSet(DOMAIN C)
    /\ \A a \in DOMAIN C : IsContract(C[a])
    /\ \A a \in DOMAIN C : a[3] \in Nat /\ a[3] <= Cardinality(KindOf(C, a[2]))

RunFields == {"jobs", "task", "pc", "status", "whole", "admin", "todo", "granted", "starts", "before"}
JobNames == UNION {{s[i] : i \in DOMAIN s} : s \in Scenarios}

Active == run.status # "idle"
Done == Earlier(job.tasks, run.task, run.pc)

RunOK ==
    /\ run = [f \in RunFields |-> run[f]]
    /\ run.jobs \in Seq(STRING) \ {<< >>}
    /\ \A i \in DOMAIN run.jobs : run.jobs[i] \in JobNames
    /\ Active => /\ run.task \in DOMAIN job.tasks /\ run.pc \in 1..(Len(task) + 1)
                 /\ ~Have(Done, "Throw")

IInv == IsNetwork(contracts) /\ RunOK

\* What a step of a script does to the process: it keeps to its job, and the step is done
\* or to be done again.
Continues ==
    /\ RunOK' /\ Active /\ Active'
    /\ run'.jobs = run.jobs /\ run'.task = run.task /\ run'.before = run.before
    /\ \/ run'.pc = run.pc /\ Done' = Done
       \/ run'.pc = run.pc + 1 /\ Done' = Done \union {step}

\* What a step may do to one contract.
Keeps(c, d) ==
    /\ IsContract(d) /\ d.kind = c.kind
    /\ c.kind = "LendingPoolAddressesProvider" =>
           \A id \in ProxyIds : c.ref[id] # NoAddress => d.ref[id] = c.ref[id]
    /\ c.kind = "LendingPool" => DOMAIN c.reserves \subseteq DOMAIN d.reserves

KeepsAll(C, D) ==
    /\ IsNetwork(D) /\ DOMAIN C \subseteq DOMAIN D
    /\ \A a \in DOMAIN C : Keeps(C[a], D[a])
-----------------------------------------------------------------------------
\* Setting an owner, data, a pause, or more reserves.
LEMMA SetField ==
    ASSUME NEW c, IsContract(c), NEW v
    PROVE  /\ Keeps(c, [c EXCEPT !.owner = v])
           /\ Keeps(c, [c EXCEPT !.data = v])
           /\ Keeps(c, [c EXCEPT !.paused = v])
           /\ DOMAIN c.reserves \subseteq DOMAIN v => Keeps(c, [c EXCEPT !.reserves = v])
<1>1. Keeps(c, [c EXCEPT !.owner = v])
    BY DEF IsContract, Keeps, Fields
<1>2. Keeps(c, [c EXCEPT !.data = v])
    BY DEF IsContract, Keeps, Fields
<1>3. Keeps(c, [c EXCEPT !.paused = v])
    BY DEF IsContract, Keeps, Fields
<1>4. ASSUME DOMAIN c.reserves \subseteq DOMAIN v PROVE Keeps(c, [c EXCEPT !.reserves = v])
    BY <1>4 DEF IsContract, Keeps, Fields
<1> QED BY <1>1, <1>2, <1>3, <1>4

\* Setting an address, but for a proxy that the provider has.
LEMMA SetRef ==
    ASSUME NEW c, IsContract(c), NEW id, NEW v,
           c.kind = "LendingPoolAddressesProvider" /\ id \in ProxyIds => c.ref[id] = NoAddress
    PROVE  Keeps(c, [c EXCEPT !.ref[id] = v])
<1> DEFINE r == [c.ref EXCEPT ![id] = v]
           d == [c EXCEPT !.ref = r]
<1>1. d = [c EXCEPT !.ref[id] = v]
    OBVIOUS
<1>2. /\ r = [i \in DOMAIN r |-> r[i]] /\ DOMAIN r = DOMAIN c.ref
      /\ \A i \in DOMAIN c.ref : i # id => r[i] = c.ref[i]
    BY DEF IsContract
<1> HIDE DEF r
<1>3. /\ d = [f \in DOMAIN d |-> d[f]] /\ DOMAIN d = DOMAIN c /\ d.ref = r /\ d.kind = c.kind
      /\ d.reserves = c.reserves \/ "reserves" \notin DOMAIN c
    BY DEF IsContract, Fields
<1> HIDE DEF d
<1>4. IsContract(d)
    BY <1>2, <1>3 DEF IsContract
<1>5. c.kind = "LendingPoolAddressesProvider" =>
          \A i \in ProxyIds : c.ref[i] # NoAddress => d.ref[i] = c.ref[i]
    BY <1>2, <1>3 DEF IsContract, Entries
<1>6. c.kind = "LendingPool" => DOMAIN c.reserves \subseteq DOMAIN d.reserves
    BY <1>3 DEF IsContract
<1> QED BY <1>1, <1>3, <1>4, <1>5, <1>6 DEF Keeps

\* A contract that stays the same.
LEMMA KeepsSame ==
    ASSUME NEW c, IsContract(c)
    PROVE  Keeps(c, c)
BY DEF Keeps

\* Changing one contract of the network.
LEMMA Update ==
    ASSUME NEW C, IsNetwork(C), NEW x, NEW d, x \in DOMAIN C => Keeps(C[x], d)
    PROVE  KeepsAll(C, [C EXCEPT ![x] = d])
<1> DEFINE D == [C EXCEPT ![x] = d]
<1>1. /\ D = [a \in DOMAIN D |-> D[a]] /\ DOMAIN D = DOMAIN C
      /\ \A a \in DOMAIN C : D[a] = IF a = x THEN d ELSE C[a]
    BY DEF IsNetwork
<1> HIDE DEF D
<1>2. \A a \in DOMAIN C : Keeps(C[a], D[a])
    BY <1>1, KeepsSame DEF IsNetwork
<1>3. \A a \in DOMAIN C : D[a].kind = C[a].kind
    BY <1>2 DEF Keeps
<1>4. \A k : KindOf(D, k) = KindOf(C, k)
    BY <1>1, <1>3 DEF KindOf
<1>5. IsNetwork(D)
    BY <1>1, <1>2, <1>4 DEF IsNetwork, Keeps
<1> QED BY <1>1, <1>2, <1>5 DEF KeepsAll, D

\* A new contract has an address of its own.
LEMMA AddContract ==
    ASSUME NEW C, IsNetwork(C), NEW kind, NEW c, IsContract(c), c.kind = kind
    PROVE  LET n == <<"script", kind, Cardinality(KindOf(C, kind)) + 1>>
           IN n \notin DOMAIN C /\ KeepsAll(C, Extend(C, n, c))
<1> DEFINE K == KindOf(C, kind)
           n == <<"script", kind, Cardinality(K) + 1>>
           D == Extend(C, n, c)
<1>1. IsFiniteSet(DOMAIN C) /\ \A k : KindOf(C, k) \subseteq DOMAIN C
    BY DEF IsNetwork, KindOf
<1>2. \A k : IsFiniteSet(KindOf(C, k)) /\ Cardinality(KindOf(C, k)) \in Nat
    BY <1>1, FS_Subset, FS_CardinalityType
<1>3. n[2] = kind /\ n[3] = Cardinality(K) + 1 /\ n[3] \in Nat
    BY <1>2
<1>4. n \notin DOMAIN C
  <2>1. ASSUME n \in DOMAIN C PROVE FALSE
    <3>1. n[3] <= Cardinality(KindOf(C, n[2]))
      BY <2>1 DEF IsNetwork
    <3> QED BY <1>2, <1>3, <3>1
  <2> QED BY <2>1
<1> HIDE DEF n
<1>5. /\ DOMAIN D = DOMAIN C \union {n} /\ D = [a \in DOMAIN D |-> D[a]]
      /\ D[n] = c /\ \A a \in DOMAIN C : D[a] = C[a]
    BY <1>4 DEF Extend
<1> HIDE DEF D
<1>6. IsFiniteSet(DOMAIN D)
    BY <1>1, <1>5, FS_AddElement
<1>7. \A a \in DOMAIN D : IsContract(D[a])
    BY <1>5 DEF IsNetwork
<1>8. KindOf(D, kind) = K \union {n} /\ \A k : k # kind => KindOf(D, k) = KindOf(C, k)
    BY <1>5 DEF KindOf
<1>9. Cardinality(KindOf(D, kind)) = Cardinality(K) + 1
  <2>1. n \notin K
    BY <1>4 DEF KindOf
  <2> QED BY <1>2, <1>8, <2>1, FS_AddElement
<1>10. \A a \in DOMAIN D : a[3] \in Nat /\ a[3] <= Cardinality(KindOf(D, a[2]))
  <2> TAKE a \in DOMAIN D
  <2>1. CASE a = n
    BY <1>2, <1>3, <1>9, <2>1
  <2>2. CASE a \in DOMAIN C
    <3>1. a[3] \in Nat /\ a[3] <= Cardinality(KindOf(C, a[2]))
      BY <2>2 DEF IsNetwork
    <3>2. CASE a[2] = kind
      BY <1>2, <1>9, <3>1, <3>2
    <3>3. CASE a[2] # kind
      BY <1>8, <3>1, <3>3
    <3> QED BY <3>2, <3>3
  <2> QED BY <1>5, <2>1, <2>2
<1>11. IsNetwork(D)
    BY <1>5, <1>6, <1>7, <1>10 DEF IsNetwork
<1>12. \A a \in DOMAIN C : Keeps(C[a], D[a])
    BY <1>5, KeepsSame DEF IsNetwork
<1> QED BY <1>4, <1>5, <1>11, <1>12 DEF KeepsAll, D, n

\* One change after another.
LEMMA KeepsAllTransitive ==
    ASSUME NEW C, NEW D, NEW E, KeepsAll(C, D), KeepsAll(D, E)
    PROVE  KeepsAll(C, E)
<1>1. ASSUME NEW a \in DOMAIN C PROVE Keeps(C[a], E[a])
  <2>1. Keeps(C[a], D[a]) /\ Keeps(D[a], E[a])
    BY <1>1 DEF KeepsAll
  <2> QED BY <2>1 DEF Keeps
<1> QED BY <1>1 DEF KeepsAll
-----------------------------------------------------------------------------
\* What comes before a step, step by step and task by task.
LEMMA EarlierMember ==
    ASSUME NEW tasks, NEW t, NEW k, NEW s
    PROVE  s \in Earlier(tasks, t, k) <=>
               \/ \E i \in 1..(t - 1) : \E j \in DOMAIN tasks[i] : s = tasks[i][j]
               \/ \E j \in 1..(k - 1) : s = tasks[t][j]
<1> DEFINE Of(i) == {tasks[i][j] : j \in DOMAIN tasks[i]}
           I == 1..(t - 1)
           before == UNION {Of(i) : i \in I}
           now == {tasks[t][j] : j \in 1..(k - 1)}
<1>1. Earlier(tasks, t, k) = before \union now
    BY DEF Earlier
<1>2. s \in before <=> \E i \in I : s \in Of(i)
  <2> HIDE DEF I
  <2> QED BY Zenon
<1>3. s \in now <=> \E j \in 1..(k - 1) : s = tasks[t][j]
    OBVIOUS
<1>4. \A i : s \in Of(i) <=> \E j \in DOMAIN tasks[i] : s = tasks[i][j]
    OBVIOUS
<1> HIDE DEF before, now, Of
<1>5. s \in before <=> \E i \in 1..(t - 1) : \E j \in DOMAIN tasks[i] : s = tasks[i][j]
    BY <1>2, <1>4, Zenon
<1> QED BY <1>1, <1>3, <1>5

LEMMA EarlierStep ==
    ASSUME NEW tasks, NEW t \in Nat, NEW k \in Nat \ {0}
    PROVE  Earlier(tasks, t, k + 1) = Earlier(tasks, t, k) \union {tasks[t][k]}
<1>1. \A j : j \in 1..(k + 1 - 1) <=> j \in 1..(k - 1) \/ j = k
    OBVIOUS
<1>2. ASSUME NEW s
      PROVE  s \in Earlier(tasks, t, k + 1) <=> s \in Earlier(tasks, t, k) \/ s = tasks[t][k]
    BY <1>1, EarlierMember
<1> QED BY <1>2

LEMMA EarlierTask ==
    ASSUME NEW tasks, NEW t \in Nat \ {0}, NEW n \in Nat, DOMAIN tasks[t] = 1..n
    PROVE  Earlier(tasks, t + 1, 1) = Earlier(tasks, t, n + 1)
<1>1. /\ \A j : j \in 1..(t + 1 - 1) <=> j \in 1..(t - 1) \/ j = t
      /\ \A j : j \in 1..(n + 1 - 1) <=> j \in DOMAIN tasks[t]
      /\ \A j : j \notin 1..(1 - 1)
    OBVIOUS
<1>2. ASSUME NEW s
      PROVE  s \in Earlier(tasks, t + 1, 1) <=> s \in Earlier(tasks, t, n + 1)
    BY <1>1, EarlierMember
<1> QED BY <1>2

LEMMA EarlierInTask ==
    ASSUME NEW tasks, NEW t \in Nat, NEW k \in Nat \ {0}
    PROVE  Earlier(tasks, t, 1) \subseteq Earlier(tasks, t, k) /\ Earlier(tasks, 1, 1) = {}
<1>1. \A j : j \notin 1..(1 - 1)
    OBVIOUS
<1>2. Earlier(tasks, 1, 1) = {}
    BY <1>1, EarlierMember
<1>3. ASSUME NEW s, s \in Earlier(tasks, t, 1) PROVE s \in Earlier(tasks, t, k)
    BY <1>1, <1>3, EarlierMember
<1> QED BY <1>2, <1>3

\* The process keeps to the jobs of its scenario and to their tasks.
LEMMA JobIsScripted ==
    ASSUME NEW name \in JobNames
    PROVE  LET tasks == Jobs[name].tasks
           IN /\ IsAccount(Jobs[name].signer)
              /\ Len(tasks) \in Nat \ {0} /\ DOMAIN tasks = 1..Len(tasks)
              /\ \A t \in DOMAIN tasks :
                     /\ Len(tasks[t]) \in Nat /\ DOMAIN tasks[t] = 1..Len(tasks[t])
                     /\ \A k \in DOMAIN tasks[t] : WellFormedStep(tasks, t, k)
BY ScriptAssumption DEF JobNames

LEMMA FirstJob ==
    ASSUME RunOK
    PROVE  run.jobs[1] \in JobNames
<1>1. 1 \in DOMAIN run.jobs
    BY DEF RunOK
<1> QED BY <1>1 DEF RunOK

\* Where the process is while it is active.
LEMMA Position ==
    ASSUME RunOK, Active
    PROVE  /\ run.task \in Nat \ {0} /\ run.task \in DOMAIN job.tasks
           /\ Len(job.tasks) \in Nat \ {0} /\ DOMAIN job.tasks = 1..Len(job.tasks)
           /\ Len(task) \in Nat /\ DOMAIN task = 1..Len(task)
           /\ run.pc \in Nat \ {0} /\ run.pc \in 1..(Len(task) + 1)
<1>1. run.task \in DOMAIN job.tasks /\ run.pc \in 1..(Len(task) + 1)
    BY DEF RunOK
<1>2. /\ Len(job.tasks) \in Nat \ {0} /\ DOMAIN job.tasks = 1..Len(job.tasks)
      /\ \A t \in DOMAIN job.tasks : Len(job.tasks[t]) \in Nat /\ DOMAIN job.tasks[t] = 1..Len(job.tasks[t])
    BY FirstJob, JobIsScripted DEF job
<1>3. Len(task) \in Nat /\ DOMAIN task = 1..Len(task)
    BY <1>1, <1>2 DEF task
<1> QED BY <1>1, <1>2, <1>3

LEMMA StepIsOrdered ==
    ASSUME RunOK, AtStep
    PROVE  /\ step.op = "Deploy" => DeploysInOrder(step, Done)
           /\ step.op = "SetAddress" => SetsInOrder(step, Done)
           /\ step.op = "SetImpl" => step.id \in ProxyIds
<1>1. run.jobs[1] \in JobNames
    BY FirstJob
<1>2. run.task \in DOMAIN job.tasks /\ ~Have(Done, "Throw")
    BY DEF RunOK, AtStep, Active
<1>3. WellFormedStep(job.tasks, run.task, run.pc)
    BY <1>1, <1>2, JobIsScripted DEF AtStep, task, job
<1> QED BY <1>2, <1>3 DEF WellFormedStep, Done, step, task

LEMMA NextPosition ==
    ASSUME NEW n \in Nat, NEW k \in 1..n
    PROVE  k \in 1..(n + 1) /\ k + 1 \in 1..(n + 1)
OBVIOUS

\* Every step of a script does.
LEMMA RunProceeds ==
    ASSUME RunOK, AtStep,
           \/ /\ ~Throws
              /\ \/ Proceed
                 \/ \E v : run' = [run EXCEPT !.pc = @ + 1, !.admin = v]
                 \/ \E v : run' = [run EXCEPT !.pc = @ + 1, !.todo = v]
                 \/ \E v : run' = [run EXCEPT !.pc = @ + 1, !.granted = v]
                 \/ \E v, w : w \in {run.pc, run.pc + 1} /\ run' = [run EXCEPT !.todo = v, !.pc = w]
           \/ \E v \in {"failed", "reverted"} : run' = [run EXCEPT !.status = v]
    PROVE  RunOK' /\ Continues
<1>1. /\ run' = [f \in RunFields |-> run'[f]] /\ run'.jobs = run.jobs /\ run'.task = run.task
      /\ run'.before = run.before /\ run.status = "running"
      /\ run'.status = run.status \/ run'.status \in {"failed", "reverted"}
      /\ run'.pc = run.pc \/ (run'.pc = run.pc + 1 /\ ~Throws)
    BY DEF RunOK, RunFields, Proceed, AtStep
<1>2. run.status = "running" /\ run.pc \in DOMAIN task /\ Active /\ Active'
    BY <1>1 DEF AtStep, Active
<1>3. job' = job /\ task' = task
    BY <1>1 DEF job, task
<1>4. /\ run.task \in Nat /\ run.pc \in Nat \ {0} /\ run.pc \in 1..Len(task) /\ Len(task) \in Nat
    BY <1>2, Position
<1>5. Earlier(job.tasks, run.task, run.pc + 1) = Done \union {step}
    BY <1>4, EarlierStep, ZenonT(60) DEF Done, step, task
<1>6. \/ run'.pc = run.pc /\ Done' = Done
      \/ run'.pc = run.pc + 1 /\ Done' = Done \union {step} /\ ~Throws
    BY <1>1, <1>3, <1>5 DEF Done
<1>7. ~Have(Done', "Throw")
  <2>1. ~Have(Done, "Throw") /\ (~Throws => step.op # "Throw")
    BY <1>2 DEF RunOK, Throws
  <2> QED BY <1>6, <2>1 DEF Have
<1>8. run'.pc \in 1..(Len(task) + 1)
    BY <1>1, <1>4, NextPosition
<1>9. run'.task \in DOMAIN job.tasks
    BY <1>1, <1>2 DEF RunOK
<1>10. run'.jobs \in Seq(STRING) \ {<< >>} /\ \A i \in DOMAIN run'.jobs : run'.jobs[i] \in JobNames
    BY <1>1 DEF RunOK
<1>11. RunOK'
    BY <1>1, <1>3, <1>7, <1>8, <1>9, <1>10 DEF RunOK
<1> QED BY <1>1, <1>2, <1>6, <1>11 DEF Continues
-----------------------------------------------------------------------------
\* The end of a task: the next one starts with nothing read.
LEMMA TaskEnds ==
    ASSUME RunOK, NextTask
    PROVE  /\ RunOK' /\ Active /\ Active' /\ Done' = Done
           /\ run'.jobs = run.jobs /\ run'.before = run.before
           /\ \/ run'.task = run.task /\ run'.pc = run.pc /\ run'.admin = run.admin
              \/ run'.task = run.task + 1 /\ run'.pc = 1 /\ run'.admin = NoAddress
<1>1. /\ run.status = "running" /\ run.pc \notin DOMAIN task /\ Active
      /\ run' = IF run.task = Len(job.tasks)
                THEN [run EXCEPT !.status = "done"]
                ELSE [run EXCEPT !.task = @ + 1, !.pc = 1, !.admin = NoAddress, !.granted = FALSE]
    BY DEF NextTask, Active
<1>2. /\ run.task \in Nat \ {0} /\ run.task \in 1..Len(job.tasks) /\ Len(job.tasks) \in Nat
      /\ DOMAIN job.tasks = 1..Len(job.tasks)
      /\ Len(task) \in Nat /\ DOMAIN task = 1..Len(task) /\ run.pc \in 1..(Len(task) + 1)
    BY <1>1, Position
<1>3. CASE run.task = Len(job.tasks)
  <2>1. /\ run' = [f \in RunFields |-> run'[f]] /\ run'.jobs = run.jobs /\ run'.status = "done"
        /\ run'.task = run.task /\ run'.pc = run.pc /\ run'.admin = run.admin /\ run'.before = run.before
    BY <1>1, <1>3 DEF RunOK, RunFields
  <2>2. job' = job /\ task' = task /\ Done' = Done /\ Active'
    BY <2>1 DEF job, task, Done, Active
  <2>3. RunOK'
    BY <1>1, <2>1, <2>2 DEF RunOK, Have
  <2> QED BY <1>1, <2>1, <2>2, <2>3
<1>4. CASE run.task # Len(job.tasks)
  <2>1. /\ run' = [f \in RunFields |-> run'[f]] /\ run'.jobs = run.jobs /\ run'.status = "running"
        /\ run'.task = run.task + 1 /\ run'.pc = 1 /\ run'.admin = NoAddress /\ run'.before = run.before
    BY <1>1, <1>4 DEF RunOK, RunFields
  <2>2. run.pc = Len(task) + 1
    BY <1>1, <1>2
  <2>3. Earlier(job.tasks, run.task + 1, 1) = Earlier(job.tasks, run.task, Len(task) + 1)
    BY <1>2, EarlierTask DEF task
  <2>4. job' = job /\ Done' = Done /\ Active'
    BY <2>1, <2>2, <2>3 DEF job, Done, Active
  <2>5. run'.task \in DOMAIN job.tasks
    BY <1>2, <1>4, <2>1
  <2>6. Len(job.tasks[run'.task]) \in Nat
    BY <2>5, FirstJob, JobIsScripted DEF job
  <2>7. 1 \in 1..(Len(job.tasks[run'.task]) + 1)
    BY <2>6
  <2>8. task' = job.tasks[run'.task]
    BY <2>4 DEF task
  <2>9. RunOK'
    BY <1>1, <2>1, <2>4, <2>5, <2>7, <2>8 DEF RunOK, Have
  <2> QED BY <1>1, <2>1, <2>4, <2>9
<1> QED BY <1>3, <1>4

\* What the operator does to the process.
LEMMA Stopped ==
    ASSUME RunOK, Stop
    PROVE  /\ RunOK' /\ Active /\ Active' /\ Done' = Done
           /\ run'.jobs = run.jobs /\ run'.before = run.before
           /\ run'.task = run.task /\ run'.pc = run.pc /\ run'.admin = run.admin
<1>1. /\ run' = [f \in RunFields |-> run'[f]] /\ run'.jobs = run.jobs /\ run'.task = run.task
      /\ run'.pc = run.pc /\ run'.admin = run.admin /\ run'.before = run.before
      /\ run.status = "running" /\ run'.status = "stopped"
    BY DEF Stop, RunOK, RunFields
<1>2. job' = job /\ task' = task /\ Done' = Done /\ Active /\ Active'
    BY <1>1 DEF job, task, Done, Active
<1>3. RunOK'
    BY <1>1, <1>2 DEF RunOK, Have
<1> QED BY <1>1, <1>2, <1>3

LEMMA StartedOver ==
    ASSUME RunOK, StartOver
    PROVE  /\ RunOK' /\ Active' /\ Done' = {}
           /\ run'.jobs = run.jobs /\ run'.before = DOMAIN contracts
           /\ run'.pc = 1 /\ run'.admin = NoAddress
<1>1. /\ run' = [f \in RunFields |-> run'[f]] /\ run'.jobs = run.jobs /\ run'.task = 1
      /\ run'.pc = 1 /\ run'.admin = NoAddress /\ run'.before = DOMAIN contracts
      /\ run'.status = "running"
    BY DEF StartOver, Started, RunOK, RunFields
<1>2. job' = job /\ Active'
    BY <1>1 DEF job, Active
<1>3. /\ Len(job.tasks) \in Nat \ {0} /\ DOMAIN job.tasks = 1..Len(job.tasks)
      /\ \A t \in DOMAIN job.tasks : Len(job.tasks[t]) \in Nat
    BY FirstJob, JobIsScripted DEF job
<1>4. 1 \in DOMAIN job.tasks /\ 1 \in 1..(Len(job.tasks[1]) + 1)
    BY <1>3
<1>5. Done' = {}
    BY <1>1, <1>2, EarlierInTask DEF Done
<1>6. task' = job.tasks[1]
    BY <1>1, <1>2 DEF task
<1>7. RunOK'
    BY <1>1, <1>2, <1>4, <1>5, <1>6 DEF RunOK, Have
<1> QED BY <1>1, <1>2, <1>5, <1>7

LEMMA Resumed ==
    ASSUME RunOK, Resume
    PROVE  /\ RunOK' /\ Active /\ Active' /\ Done' \subseteq Done
           /\ run'.jobs = run.jobs /\ run'.before = run.before
           /\ run'.task = run.task /\ run'.pc = 1 /\ run'.admin = NoAddress
<1>1. /\ run' = [f \in RunFields |-> run'[f]] /\ run'.jobs = run.jobs /\ run'.task = run.task
      /\ run'.pc = 1 /\ run'.admin = NoAddress /\ run'.before = run.before
      /\ run.status \in {"stopped", "failed", "reverted"} /\ run'.status = "running"
    BY DEF Resume, Started, RunOK, RunFields
<1>2. job' = job /\ task' = task /\ Active /\ Active'
    BY <1>1 DEF job, task, Active
<1>3. run.task \in Nat /\ run.pc \in Nat \ {0} /\ 1 \in 1..(Len(task) + 1)
    BY <1>2, Position
<1>4. Done' \subseteq Done
    BY <1>1, <1>2, <1>3, EarlierInTask DEF Done
<1>5. RunOK'
    BY <1>1, <1>2, <1>3, <1>4 DEF RunOK, Have
<1> QED BY <1>1, <1>2, <1>4, <1>5

LEMMA NextStarts ==
    ASSUME RunOK, NextMarket
    PROVE  RunOK' /\ ~Active' /\ run'.before = run.before
<1> DEFINE s == run.jobs
<1>1. /\ run' = [f \in RunFields |-> run'[f]] /\ run'.jobs = Tail(s) /\ run'.before = run.before
      /\ run'.status = "idle" /\ Len(s) > 1
    BY DEF NextMarket, RunOK, RunFields
<1>2. s \in Seq(STRING) /\ \A i \in DOMAIN s : s[i] \in JobNames
    BY DEF RunOK
<1> HIDE DEF s
<1>3. Tail(s) \in Seq(STRING) /\ Len(Tail(s)) = Len(s) - 1 /\ Len(s) \in Nat
    BY <1>1, <1>2
<1>4. ASSUME NEW i \in DOMAIN Tail(s) PROVE Tail(s)[i] \in JobNames
  <2>1. i \in 1..Len(Tail(s))
    BY <1>3, <1>4
  <2>2. i + 1 \in DOMAIN s /\ Tail(s)[i] = s[i + 1]
    BY <1>2, <1>3, <2>1
  <2> QED BY <1>2, <2>2
<1>5. Tail(s) # << >>
    BY <1>1, <1>2, <1>3
<1> QED BY <1>1, <1>3, <1>4, <1>5 DEF RunOK, Active
-----------------------------------------------------------------------------
\* What a step keeps of the contracts and of the process.
LEMMA Preserves ==
    ASSUME IInv, KeepsAll(contracts, contracts'), RunOK'
    PROVE  IInv' /\ KeepsWiring
BY DEF IInv, KeepsAll, Keeps, KeepsWiring

\* Deploying a contract.
LEMMA DeployPreserves ==
    ASSUME IInv, Deploy
    PROVE  IInv' /\ KeepsWiring
<1> DEFINE ref == [r \in DOMAIN step.ref |-> Value(step.ref[r])]
           c == Contract(step.kind, job.signer, ref, step.data)
<1>1. AtStep /\ ~Throws /\ step.op = "Deploy" /\ contracts' = Extend(contracts, NewAddress(step.kind), c) /\ Proceed
    BY DEF Deploy, Takes
<1>2. /\ step.kind # "LendingPool"
      /\ step.kind = "LendingPoolAddressesProvider" => Entries \subseteq DOMAIN step.ref
    BY <1>1, StepIsOrdered DEF IInv, DeploysInOrder
<1>3. ref = [i \in DOMAIN ref |-> ref[i]] /\ DOMAIN ref = DOMAIN step.ref
    OBVIOUS
<1> HIDE DEF ref
<1>4. IsContract(c) /\ c.kind = step.kind
    BY <1>2, <1>3 DEF IsContract, Contract, Fields
<1> HIDE DEF c
<1>5. NewAddress(step.kind) = <<"script", step.kind, Cardinality(KindOf(contracts, step.kind)) + 1>>
    BY DEF NewAddress, OfKind, KindOf
<1>6. KeepsAll(contracts, contracts')
    BY <1>1, <1>4, <1>5, AddContract DEF IInv
<1> QED BY <1>1, <1>6, Preserves, RunProceeds DEF IInv

\* Creating a proxy, which the provider has no other of.
LEMMA SetImplPreserves ==
    ASSUME IInv, SetImpl
    PROVE  IInv' /\ KeepsWiring
<1> DEFINE proxy == NewAddress(step.id)
           impl == Value(step.value)
           code == IF step.id = "LendingPool"
                   THEN LendingPoolProxy(Provider, impl)
                   ELSE Contract(step.id, Provider,
                                 [provider |-> Provider, impl |-> impl,
                                  pool |-> contracts[Provider].ref["LendingPool"]], {})
           C == Extend(contracts, proxy, code)
<1>1. /\ AtStep /\ ~Throws /\ step.op = "SetImpl" /\ Accepts /\ Proceed
      /\ contracts' = [C EXCEPT ![Provider].ref[step.id] = proxy]
    BY DEF SetImpl, Takes
<1>2. step.id \in ProxyIds /\ contracts[Provider].ref[step.id] = NoAddress
    BY <1>1, StepIsOrdered DEF IInv, Accepts, CanInitialize
<1>3. IsContract(code) /\ code.kind = step.id
  <2>1. IsContract(LendingPoolProxy(Provider, impl)) /\ LendingPoolProxy(Provider, impl).kind = "LendingPool"
    BY DEF IsContract, LendingPoolProxy, Fields
  <2>2. ASSUME NEW pool, step.id # "LendingPool"
        PROVE  LET c == Contract(step.id, Provider, [provider |-> Provider, impl |-> impl, pool |-> pool], {})
               IN IsContract(c) /\ c.kind = step.id
    BY <1>2, <2>2 DEF IsContract, Contract, Fields, ProxyIds
  <2> QED BY <2>1, <2>2
<1>4. proxy = <<"script", step.id, Cardinality(KindOf(contracts, step.id)) + 1>>
    BY DEF NewAddress, OfKind, KindOf
<1> HIDE DEF code, proxy
<1>5. KeepsAll(contracts, C) /\ proxy \notin DOMAIN contracts
    BY <1>3, <1>4, AddContract DEF IInv
<1>6. /\ DOMAIN C = DOMAIN contracts \union {proxy} /\ C[proxy] = code
      /\ \A a \in DOMAIN contracts : C[a] = contracts[a]
    BY <1>5 DEF Extend
<1> HIDE DEF C
<1> DEFINE d == [C[Provider] EXCEPT !.ref[step.id] = proxy]
<1>7. ASSUME Provider \in DOMAIN C PROVE Keeps(C[Provider], d)
  <2>1. IsContract(C[Provider])
    BY <1>5, <1>7 DEF KeepsAll, IsNetwork
  <2>2. C[Provider].kind = "LendingPoolAddressesProvider" => C[Provider].ref[step.id] = NoAddress
    BY <1>2, <1>3, <1>6, <1>7 DEF ProxyIds
  <2> QED BY <2>1, <2>2, SetRef
<1>8. contracts' = [C EXCEPT ![Provider] = d]
    BY <1>1
<1> HIDE DEF d
<1>9. KeepsAll(C, contracts')
    BY <1>5, <1>7, <1>8, Update DEF KeepsAll
<1>10. KeepsAll(contracts, contracts')
    BY <1>5, <1>9, KeepsAllTransitive
<1> QED BY <1>1, <1>10, Preserves, RunProceeds DEF IInv

\* Setting one field of one contract, or one of its addresses that is no proxy.
LEMMA ChangePreserves ==
    ASSUME IInv, RunOK', NEW x,
           \/ contracts' = contracts
           \/ \E v : contracts' = [contracts EXCEPT ![x].owner = v]
           \/ \E v : contracts' = [contracts EXCEPT ![x].data = v]
           \/ \E v : contracts' = [contracts EXCEPT ![x].paused = v]
           \/ \E v : /\ DOMAIN contracts[x].reserves \subseteq DOMAIN v
                     /\ contracts' = [contracts EXCEPT ![x].reserves = v]
           \/ \E v, id : id \notin ProxyIds /\ contracts' = [contracts EXCEPT ![x].ref[id] = v]
    PROVE  IInv' /\ KeepsWiring
<1>1. IsNetwork(contracts) /\ (x \in DOMAIN contracts => IsContract(contracts[x]))
    BY DEF IInv, IsNetwork
<1>2. KeepsAll(contracts, contracts')
  <2>1. CASE contracts' = contracts
    BY <1>1, <2>1, KeepsSame DEF KeepsAll, IsNetwork
  <2>2. ASSUME NEW v, contracts' = [contracts EXCEPT ![x].owner = v] PROVE KeepsAll(contracts, contracts')
    <3>1. contracts' = [contracts EXCEPT ![x] = [contracts[x] EXCEPT !.owner = v]]
      BY <2>2
    <3> QED BY <1>1, <3>1, SetField, Update
  <2>3. ASSUME NEW v, contracts' = [contracts EXCEPT ![x].data = v] PROVE KeepsAll(contracts, contracts')
    <3>1. contracts' = [contracts EXCEPT ![x] = [contracts[x] EXCEPT !.data = v]]
      BY <2>3
    <3> QED BY <1>1, <3>1, SetField, Update
  <2>4. ASSUME NEW v, contracts' = [contracts EXCEPT ![x].paused = v] PROVE KeepsAll(contracts, contracts')
    <3>1. contracts' = [contracts EXCEPT ![x] = [contracts[x] EXCEPT !.paused = v]]
      BY <2>4
    <3> QED BY <1>1, <3>1, SetField, Update
  <2>5. ASSUME NEW v, DOMAIN contracts[x].reserves \subseteq DOMAIN v,
               contracts' = [contracts EXCEPT ![x].reserves = v]
        PROVE  KeepsAll(contracts, contracts')
    <3>1. contracts' = [contracts EXCEPT ![x] = [contracts[x] EXCEPT !.reserves = v]]
      BY <2>5
    <3>2. x \in DOMAIN contracts => Keeps(contracts[x], [contracts[x] EXCEPT !.reserves = v])
      BY <1>1, <2>5, SetField
    <3> QED BY <1>1, <3>1, <3>2, Update
  <2>6. ASSUME NEW v, NEW id, id \notin ProxyIds, contracts' = [contracts EXCEPT ![x].ref[id] = v]
        PROVE  KeepsAll(contracts, contracts')
    <3>1. contracts' = [contracts EXCEPT ![x] = [contracts[x] EXCEPT !.ref[id] = v]]
      BY <2>6
    <3>2. x \in DOMAIN contracts => Keeps(contracts[x], [contracts[x] EXCEPT !.ref[id] = v])
      BY <1>1, <2>6, SetRef
    <3> QED BY <1>1, <3>1, <3>2, Update
  <2> QED BY <2>1, <2>2, <2>3, <2>4, <2>5, <2>6
<1> QED BY <1>2, Preserves

\* The other transactions, the reads and the writes of the scripts.
LEMMA ScriptPreserves ==
    ASSUME IInv, ScriptStep
    PROVE  IInv' /\ KeepsWiring
<1> USE DEF IInv
<1>1. CASE Get
    BY <1>1, RunProceeds, ChangePreserves DEF Get, Takes
<1>2. CASE Deploy
    BY <1>2, DeployPreserves
<1>3. CASE SetAddress
  <2>1. AtStep /\ ~Throws /\ Proceed /\ contracts' = [contracts EXCEPT ![Provider].ref[step.id] = Value(step.value)]
    BY <1>3 DEF SetAddress, Takes
  <2>2. step.id \notin ProxyIds
    BY <1>3, <2>1, StepIsOrdered DEF SetAddress, Takes, SetsInOrder
  <2>3. RunOK'
    BY <2>1, RunProceeds
  <2> QED BY <2>1, <2>2, <2>3, ChangePreserves
<1>4. CASE SetImpl
    BY <1>4, SetImplPreserves
<1>5. CASE Insert
    BY <1>5, RunProceeds, ChangePreserves DEF Insert, Takes
<1>6. CASE ReadAdmin
    BY <1>6, RunProceeds, ChangePreserves DEF ReadAdmin, Takes
<1>7. CASE Register
  <2>1. AtStep /\ ~Throws /\ Proceed /\ \E x, v : contracts' = [contracts EXCEPT ![x].data = v]
    BY <1>7 DEF Register, Takes
  <2> QED BY <2>1, RunProceeds, ChangePreserves
<1>8. CASE SetPoolPause
  <2>1. AtStep /\ ~Throws /\ Proceed /\ \E x, v : contracts' = [contracts EXCEPT ![x].paused = v]
    BY <1>8 DEF SetPoolPause, Takes
  <2> QED BY <2>1, RunProceeds, ChangePreserves
<1>9. CASE SetPrices
  <2>1. AtStep /\ ~Throws /\ Proceed /\ \E x, v : contracts' = [contracts EXCEPT ![x].data = v]
    BY <1>9 DEF SetPrices, Takes
  <2> QED BY <2>1, RunProceeds, ChangePreserves
<1>10. CASE TransferRateOracle
  <2>1. AtStep /\ ~Throws /\ Proceed /\ \E x, v : contracts' = [contracts EXCEPT ![x].owner = v]
    BY <1>10 DEF TransferRateOracle, Takes
  <2> QED BY <2>1, RunProceeds, ChangePreserves
<1>11. CASE SetOracleBorrowRates
  <2>1. AtStep /\ ~Throws /\ Proceed /\ \E x, v : contracts' = [contracts EXCEPT ![x].data = v]
    BY <1>11 DEF SetOracleBorrowRates, Takes
  <2> QED BY <2>1, RunProceeds, ChangePreserves
<1>12. CASE SetOracleOwnership
  <2>1. AtStep /\ ~Throws /\ Proceed /\ \E x, v : contracts' = [contracts EXCEPT ![x].owner = v]
    BY <1>12 DEF SetOracleOwnership, Takes
  <2> QED BY <2>1, RunProceeds, ChangePreserves
<1>13. CASE InitReserve
  <2> DEFINE x == PoolOf(db["LendingPoolConfigurator"])
             r == Extend(contracts[x].reserves, step.reserve, UnconfiguredReserve(db[step.strategy]))
  <2>1. AtStep /\ ~Throws /\ Proceed /\ contracts' = [contracts EXCEPT ![x].reserves = r]
    BY <1>13 DEF InitReserve, Takes
  <2>2. DOMAIN contracts[x].reserves \subseteq DOMAIN r
    BY DEF Extend
  <2> HIDE DEF x, r
  <2>3. RunOK'
    BY <2>1, RunProceeds
  <2> QED BY <2>1, <2>2, <2>3, ChangePreserves
<1>14. CASE Collect
  <2>1. AtStep /\ ~Throws /\ UNCHANGED contracts /\ \E v : run' = [run EXCEPT !.pc = @ + 1, !.todo = v]
    BY <1>14 DEF Collect, Takes
  <2> QED BY <2>1, RunProceeds, ChangePreserves
<1>15. CASE GrantHelper
  <2>1. AtStep /\ ~Throws /\ \E v : run' = [run EXCEPT !.pc = @ + 1, !.granted = v]
    BY <1>15 DEF GrantHelper, Takes
  <2>2. RunOK'
    BY <2>1, RunProceeds
  <2>3. \/ contracts' = contracts
        \/ \E x, v : contracts' = [contracts EXCEPT ![x].ref["PoolAdmin"] = v]
    BY <1>15 DEF GrantHelper
  <2> QED BY <2>2, <2>3, ChangePreserves DEF ProxyIds
<1>16. CASE ConfigureReserves
  <2> DEFINE x == PoolOf(contracts[ReservesHelper].ref["configurator"])
             chosen == {Chunk[i] : i \in DOMAIN Chunk}
             rs == contracts[x].reserves
             r == [a \in DOMAIN rs |-> IF a \in chosen THEN Configure(rs[a], Params(a)) ELSE rs[a]]
  <2>1. AtStep /\ ~Throws /\ (contracts' = contracts \/ contracts' = [contracts EXCEPT ![x].reserves = r])
    BY <1>16 DEF ConfigureReserves, Takes
  <2>2. \E v, w : w \in {run.pc, run.pc + 1} /\ run' = [run EXCEPT !.todo = v, !.pc = w]
    BY <1>16 DEF ConfigureReserves
  <2>3. DOMAIN rs \subseteq DOMAIN r
    OBVIOUS
  <2>4. RunOK'
    BY <2>1, <2>2, RunProceeds
  <2> HIDE DEF r, chosen, x
  <2> QED BY <2>1, <2>3, <2>4, ChangePreserves
<1>17. CASE RestoreAdmin
  <2>1. AtStep /\ ~Throws /\ Proceed
    BY <1>17 DEF RestoreAdmin, Takes
  <2>2. RunOK'
    BY <2>1, RunProceeds
  <2>3. \/ contracts' = contracts
        \/ \E x, v : contracts' = [contracts EXCEPT ![x].ref["PoolAdmin"] = v]
    BY <1>17 DEF RestoreAdmin
  <2> QED BY <2>2, <2>3, ChangePreserves DEF ProxyIds
<1>18. CASE AuthorizeLendingPool
  <2>1. AtStep /\ ~Throws /\ Proceed /\ \E x, v : contracts' = [contracts EXCEPT ![x].data = v]
    BY <1>18 DEF AuthorizeLendingPool, Takes
  <2> QED BY <2>1, RunProceeds, ChangePreserves
<1>19. CASE EditGateway
    BY <1>19, RunProceeds, ChangePreserves DEF EditGateway, Takes
<1>20. CASE NextTask
    BY <1>20, TaskEnds, ChangePreserves DEF NextTask
<1>21. CASE Revert
    BY <1>21, RunProceeds, ChangePreserves DEF Revert
<1>22. CASE Throw
    BY <1>22, RunProceeds, ChangePreserves DEF Throw
<1> QED BY <1>1, <1>2, <1>3, <1>4, <1>5, <1>6, <1>7, <1>8, <1>9, <1>10, <1>11, <1>12, <1>13,
           <1>14, <1>15, <1>16, <1>17, <1>18, <1>19, <1>20, <1>21, <1>22 DEF ScriptStep

\* Stopping a script, starting it over or resuming it, and going on to the next market.
LEMMA OperatorPreserves ==
    ASSUME IInv, Stop \/ StartOver \/ Resume \/ NextMarket
    PROVE  IInv' /\ KeepsWiring
<1>1. RunOK' /\ contracts' = contracts
    BY Stopped, StartedOver, Resumed, NextStarts DEF IInv, Stop, StartOver, Resume, NextMarket
<1> QED BY <1>1, ChangePreserves

LEMMA InitIInv ==
    ASSUME Init
    PROVE  IInv
<1> DEFINE C == [a \in ConfiguredRegistries |->
                     Contract("LendingPoolAddressesProviderRegistry", Signer(0), << >>, {})]
<1>1. contracts = C
    BY DEF Init
<1>2. IsNetwork(C)
  <2>1. IsFiniteSet(DOMAIN C) /\ \A k : KindOf(C, k) \subseteq DOMAIN C
    BY ScriptAssumption DEF KindOf
  <2> HIDE DEF C
  <2>2. \A k : Cardinality(KindOf(C, k)) \in Nat
    BY <2>1, FS_Subset, FS_CardinalityType
  <2>3. \A a \in DOMAIN C : a[3] = 0
    BY DEF C, ConfiguredRegistries, Configured
  <2>4. \A a \in DOMAIN C : a[3] \in Nat /\ a[3] <= Cardinality(KindOf(C, a[2]))
    BY <2>2, <2>3
  <2>5. IsContract(Contract("LendingPoolAddressesProviderRegistry", Signer(0), << >>, {}))
    BY SMTT(30) DEF IsContract, Contract, Fields
  <2>6. C = [a \in DOMAIN C |-> C[a]]
    BY DEF C
  <2>7. \A a \in DOMAIN C : IsContract(C[a])
    BY <2>5, Zenon DEF C
  <2> QED BY <2>1, <2>4, <2>6, <2>7 DEF IsNetwork
<1>3. RunOK
  <2>1. /\ run = [f \in RunFields |-> run[f]] /\ run.jobs \in Scenarios /\ run.status = "idle"
    BY DEF Init, RunFields
  <2>2. run.jobs \in Seq(STRING) \ {<< >>}
    BY <2>1, ScriptAssumption
  <2>3. \A i \in DOMAIN run.jobs : run.jobs[i] \in JobNames
    BY <2>1 DEF JobNames
  <2> QED BY <2>1, <2>2, <2>3 DEF RunOK, Active
<1> QED BY <1>1, <1>2, <1>3 DEF IInv

LEMMA StepIInv ==
    ASSUME IInv, [Next]_vars
    PROVE  IInv' /\ [KeepsWiring]_vars
<1>1. CASE UNCHANGED vars
    BY <1>1 DEF vars, IInv, RunOK, Active, Done, job, task
<1>2. CASE Next
    BY <1>2, ScriptPreserves, OperatorPreserves DEF Next
<1> QED BY <1>1, <1>2

\* For all scripts that set the proxies with setLendingPoolImpl and
\* setLendingPoolConfiguratorImpl alone, all scenarios and any number of starts: no step of
\* a deployment, interrupted or not, overwrites a contract, replaces a pool or its
\* configurator, or drops a reserve.
THEOREM DeploymentKeepsWiring == Spec => WiringIsPermanent
<1>1. Init => IInv
    BY InitIInv
<1>2. IInv /\ [Next]_vars => IInv' /\ [KeepsWiring]_vars
    BY StepIInv
<1> QED BY <1>1, <1>2, PTL DEF Spec, WiringIsPermanent
-----------------------------------------------------------------------------
(* Markets on one network *)

InTask == {task[j] : j \in 1..(run.pc - 1)}

\* The helper of the reserves is not made administrator before the next task.
NoHelperYet == ~Have(Earlier(job.tasks, run.task + 1, 1), "GrantHelper")

\* A contract of this job; an address that no later contract will have.
New(a) == a \in DOMAIN contracts /\ a \notin run.before
Known(a) == a \in DOMAIN contracts \/ External(a)

\* A configurator of this job, of a pool of this job.
IsWired(c) == New(c) /\ contracts[c].kind = "LendingPoolConfigurator" /\ New(PoolOf(c))

AddressesOK ==
    /\ ConfiguredRegistries \subseteq DOMAIN contracts
    /\ \A a \in ConfiguredRegistries : contracts[a].kind = "LendingPoolAddressesProviderRegistry"
    /\ \A a \in DOMAIN contracts : a \in ConfiguredRegistries \/ a[1] = "script"
    /\ run.before \subseteq DOMAIN contracts

\* Who may administer a market, and who may own its rate oracle.
AdminFits(p, a) ==
    /\ Known(a)
    /\ a \in DOMAIN contracts =>
           /\ contracts[a].kind = "ATokensAndRatesHelper"
           /\ contracts[a].owner = contracts[p].owner
           /\ contracts[a].ref["configurator"] = contracts[p].ref["LendingPoolConfigurator"]
           /\ contracts[a].ref["configurator"] # NoAddress

OwnerFits(o, owner) ==
    /\ Known(o) /\ o # NoAddress
    /\ o \in DOMAIN contracts =>
           contracts[o].kind = "StableAndVariableTokensHelper" /\ contracts[o].owner = owner

RatesFit(p, rates) ==
    /\ Known(rates)
    /\ rates \in DOMAIN contracts => OwnerFits(contracts[rates].owner, contracts[p].owner)
    /\ p \in run.before => ~New(rates)

MarketFits(p) ==
    AdminFits(p, contracts[p].ref["PoolAdmin"]) /\ RatesFit(p, contracts[p].ref["LendingRateOracle"])

MarketsFit ==
    \A p \in DOMAIN contracts : contracts[p].kind = "LendingPoolAddressesProvider" => MarketFits(p)

\* What this job deployed is its signer's.
Owned == {"LendingPoolAddressesProvider", "StableAndVariableTokensHelper", "ATokensAndRatesHelper"}
OwnersOK ==
    \A a \in DOMAIN contracts : New(a) /\ contracts[a].kind \in Owned => contracts[a].owner = job.signer

ProviderOK ==
    /\ "LendingPoolAddressesProvider" \in DOMAIN db
    /\ New(Provider) /\ contracts[Provider].kind = "LendingPoolAddressesProvider"

HelperOK ==
    /\ ProviderOK
    /\ contracts[ReservesHelper].ref["configurator"] = contracts[Provider].ref["LendingPoolConfigurator"]
    /\ IsWired(contracts[ReservesHelper].ref["configurator"])

\* What holds from when a step is done until its task is run again.
Deployed(id) ==
    /\ id \notin ProxyIds => id \in DOMAIN db /\ New(db[id])
    /\ id \in Trusted => contracts[db[id]].kind = id
    /\ id = "LendingRateOracle" => OwnerFits(contracts[RateOracle].owner, job.signer)
    /\ id = "ATokensAndRatesHelper" => HelperOK

Created(id) ==
    /\ id \in ProxyIds /\ ProviderOK /\ New(contracts[Provider].ref[id])
    /\ id = "LendingPoolConfigurator" => IsWired(contracts[Provider].ref[id])

Inserted(id) ==
    /\ id \in ProxyIds /\ id \in DOMAIN db /\ New(db[id])
    /\ id = "LendingPoolConfigurator" => IsWired(db[id])

AdminIsAccount == ProviderOK /\ IsAccount(contracts[Provider].ref["PoolAdmin"])

Holds(s) ==
    /\ s.op = "Deploy" => Deployed(s.id)
    /\ s.op = "SetImpl" => Created(s.id)
    /\ s.op = "Insert" => Inserted(s.id)
    /\ s.op = "SetAddress" => (s.id = "PoolAdmin" /\ NoHelperYet => AdminIsAccount)
    /\ s.op = "EditGateway" => New(gateway)

\* What a task read stays true as long as it runs.
AdminRead ==
    /\ run.admin # NoAddress =>
           Have(Done, "ReadAdmin") /\ ProviderOK /\ AdminFits(Provider, run.admin)
    /\ Have(InTask, "ReadAdmin") /\ NoHelperYet => IsAccount(run.admin)

ProcessOK == OwnersOK /\ (\A s \in Done : Holds(s)) /\ AdminRead

MInv == IInv /\ AddressesOK /\ MarketsFit /\ (Active => ProcessOK)

\* The earlier markets stay as they are.
Untouched ==
    \A a \in run.before :
        contracts[a].kind # "LendingPoolAddressesProviderRegistry" => contracts'[a] = contracts[a]

\* What every step keeps: contracts stay what they are and, but for the rate oracle, whose
\* they are; only providers get other references, and keep their proxies.
Gentle ==
    /\ DOMAIN contracts \subseteq DOMAIN contracts'
    /\ \A a \in DOMAIN contracts' \ DOMAIN contracts :
           a[1] = "script" /\ (contracts'[a].kind \in Owned => contracts'[a].owner = job.signer)
    /\ \A a \in DOMAIN contracts :
           /\ contracts'[a].kind = contracts[a].kind
           /\ contracts[a].kind # "LendingRateOracle" => contracts'[a].owner = contracts[a].owner
           /\ contracts[a].kind # "LendingPoolAddressesProvider" => contracts'[a].ref = contracts[a].ref
           /\ contracts[a].kind = "LendingPoolAddressesProvider" =>
                  \A id \in ProxyIds :
                      contracts[a].ref[id] # NoAddress => contracts'[a].ref[id] = contracts[a].ref[id]

\* ... and most of them keep: the owner and the references of every contract.
AllSame ==
    /\ DOMAIN contracts' = DOMAIN contracts
    /\ \A a \in DOMAIN contracts :
           /\ contracts'[a].kind = contracts[a].kind /\ contracts'[a].owner = contracts[a].owner
           /\ contracts'[a].ref = contracts[a].ref

SameProcess == run'.jobs = run.jobs /\ run'.before = run.before
-----------------------------------------------------------------------------
\* Addresses outside the model.
LEMMA NoAddressIsExternal == External(NoAddress)
BY ScriptAssumption DEF External, NoAddress

LEMMA ExternalIsNoContract ==
    ASSUME AddressesOK, NEW a, External(a)
    PROVE  a \notin DOMAIN contracts
BY DEF AddressesOK, External

\* Gentle steps.
LEMMA GentleAddresses ==
    ASSUME AddressesOK, SameProcess, Gentle
    PROVE  /\ AddressesOK'
           /\ \A a : New(a) => New(a)'
           /\ \A a : Known(a) => Known(a)'
           /\ \A a : External(a) => a \notin DOMAIN contracts /\ a \notin DOMAIN contracts'
           /\ \A a : Known(a) /\ New(a)' => New(a)
<1>1. AddressesOK'
    BY DEF AddressesOK, SameProcess, Gentle
<1>2. \A a : External(a) => a \notin DOMAIN contracts /\ a \notin DOMAIN contracts'
    BY <1>1 DEF AddressesOK, External
<1> QED BY <1>1, <1>2 DEF New, Known, SameProcess, Gentle

LEMMA GentleJob ==
    ASSUME SameProcess
    PROVE  job' = job
BY DEF SameProcess, job

LEMMA GentleOwners ==
    ASSUME AddressesOK, SameProcess, Gentle, OwnersOK
    PROVE  OwnersOK'
<1>1. job' = job
    BY GentleJob
<1>2. ASSUME NEW a \in DOMAIN contracts', New(a)', contracts'[a].kind \in Owned
      PROVE  contracts'[a].owner = job.signer
  <2>1. CASE a \in DOMAIN contracts
    <3>1. contracts'[a].kind = contracts[a].kind /\ New(a)
      BY <1>2, <2>1 DEF Gentle, New, SameProcess
    <3>2. contracts[a].kind # "LendingRateOracle"
      BY <1>2, <3>1 DEF Owned
    <3> QED BY <1>2, <2>1, <3>1, <3>2 DEF Gentle, OwnersOK
  <2>2. CASE a \notin DOMAIN contracts
    BY <1>2, <2>2 DEF Gentle
  <2> QED BY <2>1, <2>2
<1> QED BY <1>1, <1>2 DEF OwnersOK

LEMMA GentleWired ==
    ASSUME AddressesOK, SameProcess, Gentle, NEW c, IsWired(c)
    PROVE  IsWired(c)'
<1>1. c \in DOMAIN contracts /\ contracts[c].kind = "LendingPoolConfigurator" /\ New(c) /\ New(PoolOf(c))
    BY DEF IsWired, New
<1>2. contracts'[c].kind = "LendingPoolConfigurator" /\ contracts'[c].ref = contracts[c].ref
    BY <1>1 DEF Gentle
<1>3. PoolOf(c)' = PoolOf(c)
    BY <1>2 DEF PoolOf
<1>4. New(c)' /\ (\A a : New(a) => New(a)')
    BY <1>1, GentleAddresses
<1>5. New(PoolOf(c))'
    BY <1>1, <1>3, <1>4 DEF New
<1> QED BY <1>2, <1>4, <1>5 DEF IsWired

LEMMA GentleAdmin ==
    ASSUME AddressesOK, SameProcess, Gentle, NEW p \in DOMAIN contracts,
           contracts[p].kind = "LendingPoolAddressesProvider", NEW a, AdminFits(p, a)
    PROVE  AdminFits(p, a)'
<1>1. Known(a)'
    BY GentleAddresses DEF AdminFits
<1>2. ASSUME a \in DOMAIN contracts'
      PROVE  a \in DOMAIN contracts
    BY <1>2, GentleAddresses DEF AdminFits, Known
<1>3. contracts'[p].owner = contracts[p].owner
    BY DEF Gentle
<1>4. ASSUME a \in DOMAIN contracts
      PROVE  /\ contracts'[a].kind = contracts[a].kind /\ contracts'[a].owner = contracts[a].owner
             /\ contracts'[a].ref = contracts[a].ref
    BY <1>4 DEF Gentle, AdminFits
<1>5. ASSUME a \in DOMAIN contracts
      PROVE  contracts'[p].ref["LendingPoolConfigurator"] = contracts[p].ref["LendingPoolConfigurator"]
    BY <1>5 DEF Gentle, AdminFits, ProxyIds
<1> QED BY <1>1, <1>2, <1>3, <1>4, <1>5 DEF AdminFits

LEMMA GentleOwner ==
    ASSUME AddressesOK, SameProcess, Gentle, NEW o, NEW owner, OwnerFits(o, owner)
    PROVE  OwnerFits(o, owner)'
<1>1. Known(o)' /\ (o \in DOMAIN contracts' => o \in DOMAIN contracts)
    BY GentleAddresses DEF OwnerFits, Known
<1>2. ASSUME o \in DOMAIN contracts
      PROVE  contracts'[o].kind = contracts[o].kind /\ contracts'[o].owner = contracts[o].owner
    BY <1>2 DEF Gentle, OwnerFits
<1> QED BY <1>1, <1>2 DEF OwnerFits

LEMMA GentleRates ==
    ASSUME AddressesOK, SameProcess, Gentle, NEW p \in DOMAIN contracts,
           contracts[p].kind = "LendingPoolAddressesProvider", NEW r, RatesFit(p, r),
           NEW o, r \in DOMAIN contracts =>
                      contracts'[r].owner = o /\ (o = contracts[r].owner \/ OwnerFits(o, contracts[p].owner))
    PROVE  RatesFit(p, r)'
<1>1. contracts'[p].owner = contracts[p].owner
    BY DEF Gentle
<1>2. Known(r)' /\ (r \in DOMAIN contracts' => r \in DOMAIN contracts) /\ (New(r)' => New(r))
    BY GentleAddresses DEF RatesFit, Known
<1>3. ASSUME r \in DOMAIN contracts
      PROVE  OwnerFits(o, contracts[p].owner)'
  <2>1. OwnerFits(o, contracts[p].owner)
    BY <1>3 DEF RatesFit
  <2>2. PICK w : w = contracts[p].owner
    OBVIOUS
  <2>3. OwnerFits(o, w)'
    BY <2>1, <2>2, GentleOwner
  <2> QED BY <1>1, <2>2, <2>3 DEF OwnerFits
<1> QED BY <1>1, <1>2, <1>3 DEF RatesFit, SameProcess

LEMMA GentleMarket ==
    ASSUME AddressesOK, SameProcess, Gentle, NEW p \in DOMAIN contracts,
           contracts[p].kind = "LendingPoolAddressesProvider", MarketFits(p),
           contracts'[p].ref["PoolAdmin"] = contracts[p].ref["PoolAdmin"],
           contracts'[p].ref["LendingRateOracle"] = contracts[p].ref["LendingRateOracle"],
           NEW r, r = contracts[p].ref["LendingRateOracle"],
           NEW o, r \in DOMAIN contracts =>
                      contracts'[r].owner = o /\ (o = contracts[r].owner \/ OwnerFits(o, contracts[p].owner))
    PROVE  MarketFits(p)'
<1> PICK admin : admin = contracts[p].ref["PoolAdmin"]
    OBVIOUS
<1>1. AdminFits(p, admin) /\ RatesFit(p, r)
    BY DEF MarketFits
<1>2. AdminFits(p, admin)' /\ RatesFit(p, r)'
    BY <1>1, GentleAdmin, GentleRates
<1> QED BY <1>2 DEF MarketFits, AdminFits, RatesFit, Known, New

\* What is done stays so, as long as the database has the same entry.
SameEntry(id) == id \in DOMAIN db' /\ db'[id] = db[id]

LEMMA KeptProvider ==
    ASSUME AddressesOK, SameProcess, Gentle, ProviderOK, SameEntry("LendingPoolAddressesProvider")
    PROVE  /\ ProviderOK' /\ Provider' = Provider
           /\ \A id \in ProxyIds :
                  New(contracts[Provider].ref[id]) => contracts'[Provider].ref[id] = contracts[Provider].ref[id]
<1>1. Provider' = Provider
    BY DEF SameEntry, Provider
<1> PICK p : p = Provider
    OBVIOUS
<1>2. p \in DOMAIN contracts /\ New(p) /\ contracts[p].kind = "LendingPoolAddressesProvider"
    BY DEF ProviderOK, New
<1>3. New(p)' /\ contracts'[p].kind = "LendingPoolAddressesProvider"
    BY <1>2, GentleAddresses DEF Gentle
<1>4. ProviderOK'
    BY <1>1, <1>3 DEF ProviderOK, SameEntry, New
<1>5. ASSUME NEW id \in ProxyIds, New(contracts[p].ref[id])
      PROVE  contracts'[p].ref[id] = contracts[p].ref[id]
  <2>1. contracts[p].ref[id] # NoAddress
    BY <1>5, GentleAddresses, NoAddressIsExternal DEF New
  <2> QED BY <1>2, <2>1 DEF Gentle
<1> QED BY <1>1, <1>4, <1>5

LEMMA KeptHelper ==
    ASSUME AddressesOK, SameProcess, Gentle, HelperOK,
           SameEntry("LendingPoolAddressesProvider"), SameEntry("ATokensAndRatesHelper"),
           ReservesHelper \in DOMAIN contracts, contracts[ReservesHelper].kind = "ATokensAndRatesHelper"
    PROVE  HelperOK'
<1>1. ReservesHelper' = ReservesHelper
    BY DEF SameEntry, ReservesHelper
<1> PICK h : h = ReservesHelper
    OBVIOUS
<1> PICK c : c = contracts[h].ref["configurator"]
    OBVIOUS
<1>2. contracts'[h].ref["configurator"] = c
    BY DEF Gentle
<1>3. ProviderOK /\ IsWired(c) /\ contracts[Provider].ref["LendingPoolConfigurator"] = c
    BY DEF HelperOK
<1>4. /\ ProviderOK' /\ Provider' = Provider
      /\ contracts'[Provider].ref["LendingPoolConfigurator"] = c
    BY <1>3, KeptProvider DEF IsWired, ProxyIds
<1>5. IsWired(c)'
    BY <1>3, GentleWired
<1> QED BY <1>1, <1>2, <1>4, <1>5 DEF HelperOK, IsWired, New, PoolOf

LEMMA KeptDeployed ==
    ASSUME AddressesOK, SameProcess, Gentle, NEW id, Deployed(id),
           id \notin ProxyIds => SameEntry(id),
           id = "ATokensAndRatesHelper" => SameEntry("LendingPoolAddressesProvider"),
           id = "LendingRateOracle" => OwnerFits(contracts[RateOracle].owner, job.signer)'
    PROVE  Deployed(id)'
<1>1. id \notin ProxyIds => id \in DOMAIN db' /\ New(db[id])' /\ db'[id] = db[id]
  <2> PICK a : a = db[id]
    OBVIOUS
  <2>1. id \notin ProxyIds => New(a)'
    BY GentleAddresses DEF Deployed
  <2> QED BY <2>1 DEF SameEntry, New
<1>2. ASSUME id \in Trusted
      PROVE  id \notin ProxyIds /\ contracts'[db[id]].kind = id
  <2>1. id \notin ProxyIds
    BY <1>2 DEF Trusted, ProxyIds
  <2> QED BY <1>2, <2>1 DEF Deployed, New, Gentle
<1>3. id = "ATokensAndRatesHelper" => HelperOK'
  <2>1. "ATokensAndRatesHelper" \in Trusted /\ "ATokensAndRatesHelper" \notin ProxyIds
    BY DEF Trusted, ProxyIds
  <2> QED BY <2>1, KeptHelper DEF Deployed, New, ReservesHelper
<1> QED BY <1>1, <1>2, <1>3 DEF Deployed, New

LEMMA KeptCreated ==
    ASSUME AddressesOK, SameProcess, Gentle, NEW id, Created(id), SameEntry("LendingPoolAddressesProvider")
    PROVE  Created(id)'
<1> PICK a : a = contracts[Provider].ref[id]
    OBVIOUS
<1>1. id \in ProxyIds /\ ProviderOK /\ New(a) /\ (id = "LendingPoolConfigurator" => IsWired(a))
    BY DEF Created
<1>2. ProviderOK' /\ Provider' = Provider /\ contracts'[Provider].ref[id] = a
    BY <1>1, KeptProvider
<1>3. New(a)' /\ (id = "LendingPoolConfigurator" => IsWired(a)')
    BY <1>1, GentleAddresses, GentleWired
<1> QED BY <1>1, <1>2, <1>3 DEF Created, New, IsWired, PoolOf

LEMMA KeptInserted ==
    ASSUME AddressesOK, SameProcess, Gentle, NEW id, Inserted(id), SameEntry(id)
    PROVE  Inserted(id)'
<1> PICK a : a = db[id]
    OBVIOUS
<1>1. id \in ProxyIds /\ New(a) /\ (id = "LendingPoolConfigurator" => IsWired(a))
    BY DEF Inserted
<1>2. New(a)' /\ (id = "LendingPoolConfigurator" => IsWired(a)')
    BY <1>1, GentleAddresses, GentleWired
<1> QED BY <1>1, <1>2 DEF Inserted, SameEntry, New, IsWired, PoolOf

LEMMA KeptAccount ==
    ASSUME AddressesOK, SameProcess, Gentle, AdminIsAccount, SameEntry("LendingPoolAddressesProvider"),
           \/ contracts'[Provider].ref["PoolAdmin"] = contracts[Provider].ref["PoolAdmin"]
           \/ IsAccount(contracts'[Provider].ref["PoolAdmin"])
    PROVE  AdminIsAccount'
<1>1. ProviderOK' /\ Provider' = Provider
    BY KeptProvider DEF AdminIsAccount
<1>2. IsAccount(contracts'[Provider].ref["PoolAdmin"])
    BY DEF AdminIsAccount
<1> QED BY <1>1, <1>2 DEF AdminIsAccount, IsAccount, External

\* A step that is done, but for what the new step writes to itself.
LEMMA HoldsKept ==
    ASSUME AddressesOK, SameProcess, Gentle, NoHelperYet' => NoHelperYet, NEW s, Holds(s),
           s.op = "Deploy" /\ s.id \notin ProxyIds => SameEntry(s.id),
           s.op = "Insert" => SameEntry(s.id),
           ProviderOK /\ (s.op # "Deploy" \/ s.id = "ATokensAndRatesHelper") =>
               SameEntry("LendingPoolAddressesProvider"),
           s.op = "Deploy" /\ s.id = "LendingRateOracle" => OwnerFits(contracts[RateOracle].owner, job.signer)',
           s.op = "SetAddress" /\ s.id = "PoolAdmin" /\ NoHelperYet =>
               \/ contracts'[Provider].ref["PoolAdmin"] = contracts[Provider].ref["PoolAdmin"]
               \/ IsAccount(contracts'[Provider].ref["PoolAdmin"]),
           s.op = "EditGateway" => gateway' = gateway
    PROVE  Holds(s)'
<1>1. s.op = "Deploy" => Deployed(s.id)'
  <2> PICK id : id = s.id
    OBVIOUS
  <2>1. s.op = "Deploy" => Deployed(id)'
    BY KeptDeployed DEF Holds, Deployed, HelperOK
  <2> QED BY <2>1
<1>2. s.op = "SetImpl" => Created(s.id)'
    BY KeptCreated DEF Holds, Created
<1>3. s.op = "Insert" => Inserted(s.id)'
    BY KeptInserted DEF Holds
<1>4. s.op = "SetAddress" => (s.id = "PoolAdmin" /\ NoHelperYet' => AdminIsAccount')
    BY KeptAccount DEF Holds, AdminIsAccount
<1>5. s.op = "EditGateway" => New(gateway)'
  <2> PICK g : g = gateway
    OBVIOUS
  <2>1. s.op = "EditGateway" => New(g)'
    BY GentleAddresses DEF Holds
  <2> QED BY <2>1 DEF New
<1> QED BY <1>1, <1>2, <1>3, <1>4, <1>5 DEF Holds
-----------------------------------------------------------------------------
\* The process: what is done, and done in this task.
LEMMA WithinTask ==
    ASSUME RunOK, Active
    PROVE  /\ Done \subseteq Earlier(job.tasks, run.task + 1, 1)
           /\ AtStep => step \in Earlier(job.tasks, run.task + 1, 1)
<1>1. /\ run.task \in Nat \ {0} /\ run.pc \in Nat \ {0} /\ run.pc \in 1..(Len(task) + 1)
      /\ Len(task) \in Nat /\ DOMAIN task = 1..Len(task)
    BY Position
<1>2. /\ \A i : i \in 1..(run.task - 1) => i \in 1..(run.task + 1 - 1)
      /\ run.task \in 1..(run.task + 1 - 1)
      /\ \A j : j \in 1..(run.pc - 1) => j \in DOMAIN task
    BY <1>1
<1>3. ASSUME NEW s \in Done PROVE s \in Earlier(job.tasks, run.task + 1, 1)
    BY <1>2, <1>3, EarlierMember DEF Done, task
<1>4. AtStep => step \in Earlier(job.tasks, run.task + 1, 1)
    BY <1>2, EarlierMember DEF AtStep, step, task
<1> QED BY <1>3, <1>4

LEMMA InTaskGrows ==
    ASSUME RunOK, AtStep, Continues
    PROVE  /\ job' = job /\ task' = task /\ (NoHelperYet' <=> NoHelperYet)
           /\ InTask' \subseteq InTask \union {step} /\ (run'.pc = run.pc => InTask' = InTask)
           /\ run'.pc = run.pc + 1 => step \in InTask' /\ step \in Done'
<1>1. job' = job /\ task' = task
    BY DEF Continues, job, task
<1>2. NoHelperYet' <=> NoHelperYet
    BY <1>1 DEF NoHelperYet, Continues
<1>3. run.pc \in Nat \ {0}
    BY Position DEF AtStep, Active
<1>4. InTask' = {task[j] : j \in 1..(run'.pc - 1)} /\ (run'.pc = run.pc \/ run'.pc = run.pc + 1)
    BY <1>1 DEF InTask, Continues
<1>5. /\ \A j : j \in 1..(run.pc + 1 - 1) => j \in 1..(run.pc - 1) \/ j = run.pc
      /\ run.pc \in 1..(run.pc + 1 - 1)
    BY <1>3
<1>6. /\ InTask' \subseteq InTask \union {step}
      /\ run'.pc = run.pc => InTask' = InTask
  <2>1. CASE run'.pc = run.pc + 1
    BY <1>3, <1>4, <1>5, <2>1 DEF InTask, step
  <2>2. CASE run'.pc = run.pc
    BY <1>3, <1>4, <2>2 DEF InTask
  <2> QED BY <1>4, <2>1, <2>2
<1>7. run'.pc = run.pc + 1 => step \in InTask'
    BY <1>4, <1>5 DEF step
<1>8. run'.pc = run.pc + 1 => step \in Done'
    BY <1>3 DEF Continues
<1> QED BY <1>1, <1>2, <1>6, <1>7, <1>8

LEMMA Started1 ==
    ASSUME run'.pc = 1
    PROVE  InTask' = {}
<1>1. \A j : j \notin 1..(1 - 1)
    OBVIOUS
<1> QED BY <1>1 DEF InTask
-----------------------------------------------------------------------------
\* The markets, where no administrator, no rate oracle and no owner of one is set.
LEMMA MarketsKept ==
    ASSUME AddressesOK, MarketsFit, SameProcess, Gentle,
           \A a \in DOMAIN contracts :
               /\ contracts'[a].owner = contracts[a].owner
               /\ contracts[a].kind = "LendingPoolAddressesProvider" =>
                      \A id \in {"PoolAdmin", "LendingRateOracle"} : contracts'[a].ref[id] = contracts[a].ref[id],
           \A p \in DOMAIN contracts' \ DOMAIN contracts :
               contracts'[p].kind = "LendingPoolAddressesProvider" => MarketFits(p)'
    PROVE  MarketsFit'
<1>1. ASSUME NEW p \in DOMAIN contracts', contracts'[p].kind = "LendingPoolAddressesProvider"
      PROVE  MarketFits(p)'
  <2>1. CASE p \notin DOMAIN contracts
    BY <1>1, <2>1
  <2>2. CASE p \in DOMAIN contracts
    <3>1. contracts[p].kind = "LendingPoolAddressesProvider" /\ MarketFits(p)
      BY <1>1, <2>2 DEF Gentle, MarketsFit
    <3> PICK r : r = contracts[p].ref["LendingRateOracle"]
      OBVIOUS
    <3> PICK o : o = contracts[r].owner
      OBVIOUS
    <3>2. r \in DOMAIN contracts => contracts'[r].owner = o
      OBVIOUS
    <3> QED BY <2>2, <3>1, <3>2, GentleMarket
  <2> QED BY <2>1, <2>2
<1> QED BY <1>1 DEF MarketsFit

\* The owner of the rate oracle.
LEMMA RateOwnerKept ==
    ASSUME AddressesOK, SameProcess, Gentle, Deployed("LendingRateOracle"), SameEntry("LendingRateOracle"),
           contracts'[RateOracle].owner = contracts[RateOracle].owner
    PROVE  OwnerFits(contracts[RateOracle].owner, job.signer)'
<1> PICK o : o = contracts[RateOracle].owner
    OBVIOUS
<1> PICK w : w = job.signer
    OBVIOUS
<1>1. OwnerFits(o, w)'
    BY GentleOwner DEF Deployed
<1>2. RateOracle' = RateOracle /\ job' = job
    BY GentleJob DEF RateOracle, SameEntry
<1> QED BY <1>1, <1>2 DEF OwnerFits

\* What the task read.
LEMMA AdminReadKept ==
    ASSUME RunOK, AddressesOK, AtStep, Continues, Gentle, AdminRead, run'.admin = run.admin,
           run.admin # NoAddress => SameEntry("LendingPoolAddressesProvider"),
           run'.pc = run.pc + 1 => step.op # "ReadAdmin"
    PROVE  AdminRead'
<1> PICK a : a = run.admin
    OBVIOUS
<1> PICK p : p = Provider
    OBVIOUS
<1>1. SameProcess /\ Done \subseteq Done'
    BY DEF SameProcess, Continues
<1>2. ASSUME a # NoAddress
      PROVE  /\ Have(Done, "ReadAdmin")' /\ ProviderOK' /\ Provider' = p /\ AdminFits(p, a)'
  <2>1. Have(Done, "ReadAdmin") /\ ProviderOK /\ AdminFits(p, a)
    BY <1>2 DEF AdminRead
  <2>2. Have(Done, "ReadAdmin")'
    BY <1>1, <2>1 DEF Have
  <2>3. ProviderOK' /\ Provider' = p
    BY <1>1, <1>2, <2>1, KeptProvider
  <2>4. AdminFits(p, a)'
    BY <1>1, <2>1, GentleAdmin DEF ProviderOK, New
  <2> QED BY <2>2, <2>3, <2>4
<1>3. Have(InTask, "ReadAdmin")' /\ NoHelperYet' => IsAccount(a)
  <2>1. Have(InTask, "ReadAdmin")' => Have(InTask, "ReadAdmin")
    BY InTaskGrows DEF Have, Continues
  <2> QED BY <2>1, InTaskGrows DEF AdminRead
<1> QED BY <1>2, <1>3 DEF AdminRead, AdminFits, Known

\* What is to be shown of a step of a script.
LEMMA Assemble ==
    ASSUME MInv, AtStep, Continues, IInv', Gentle, MarketsFit', AdminRead',
           \A s \in Done : Holds(s)',
           run'.pc = run.pc + 1 => \A s : s = step => Holds(s)'
    PROVE  MInv'
<1>1. SameProcess /\ Active
    BY DEF SameProcess, Continues
<1>2. AddressesOK' /\ OwnersOK'
    BY <1>1, GentleAddresses, GentleOwners DEF MInv, ProcessOK
<1>3. \A s \in Done' : Holds(s)'
    BY DEF Continues
<1> QED BY <1>2, <1>3 DEF MInv, ProcessOK

\* A step that changes neither owners nor references and says nothing of the market.
Silent == {"Deploy", "SetImpl", "Insert", "SetAddress", "ReadAdmin", "EditGateway"}

LEMMA SameIsGentle ==
    ASSUME AllSame
    PROVE  Gentle
BY DEF AllSame, Gentle

\* What was done holds after a step that leaves the database as it is.
LEMMA DoneHolds ==
    ASSUME MInv, AtStep, Continues, Gentle, UNCHANGED <<db, gateway>>,
           Deployed("LendingRateOracle") => OwnerFits(contracts[RateOracle].owner, job.signer)',
           AdminIsAccount /\ NoHelperYet =>
               \/ contracts'[Provider].ref["PoolAdmin"] = contracts[Provider].ref["PoolAdmin"]
               \/ IsAccount(contracts'[Provider].ref["PoolAdmin"]),
           NEW s \in Done
    PROVE  Holds(s)'
<1>1. SameProcess /\ Active /\ AddressesOK /\ ProcessOK /\ RunOK
    BY DEF SameProcess, Continues, MInv, IInv
<1>2. Holds(s)
    BY <1>1 DEF ProcessOK
<1>3. /\ s.op = "Deploy" /\ s.id = "LendingRateOracle" => Deployed("LendingRateOracle")
      /\ s.op = "Deploy" /\ s.id \notin ProxyIds => SameEntry(s.id)
      /\ s.op = "Insert" => SameEntry(s.id)
      /\ s.op = "SetAddress" /\ s.id = "PoolAdmin" /\ NoHelperYet => AdminIsAccount
    BY <1>2 DEF Holds, Deployed, Inserted, SameEntry
<1>4. ProviderOK => SameEntry("LendingPoolAddressesProvider")
    BY DEF ProviderOK, SameEntry
<1>5. NoHelperYet' <=> NoHelperYet
    BY <1>1, InTaskGrows
<1> QED BY <1>1, <1>2, <1>3, <1>4, <1>5, HoldsKept

\* The owner of the rate oracle, where no owner changes.
LEMMA OwnersKept ==
    ASSUME AddressesOK, SameProcess, Gentle, UNCHANGED db,
           \A a \in DOMAIN contracts : contracts'[a].owner = contracts[a].owner,
           Deployed("LendingRateOracle")
    PROVE  OwnerFits(contracts[RateOracle].owner, job.signer)'
<1>1. RateOracle \in DOMAIN contracts /\ "LendingRateOracle" \in DOMAIN db
    BY DEF Deployed, New, RateOracle, ProxyIds
<1> QED BY <1>1, RateOwnerKept DEF SameEntry

LEMMA SilentStep ==
    ASSUME MInv, AtStep, Continues, IInv', AllSame, UNCHANGED <<db, gateway>>, run'.admin = run.admin,
           run'.pc = run.pc + 1 => step.op \notin Silent
    PROVE  MInv'
<1>1. SameProcess /\ Active /\ Gentle /\ AddressesOK /\ MarketsFit /\ ProcessOK /\ RunOK
    BY SameIsGentle DEF SameProcess, Continues, MInv, IInv
<1>2. MarketsFit'
    BY <1>1, MarketsKept DEF AllSame
<1>3. AdminIsAccount => contracts'[Provider].ref["PoolAdmin"] = contracts[Provider].ref["PoolAdmin"]
    BY DEF AllSame, AdminIsAccount, ProviderOK, New
<1>4. \A s \in Done : Holds(s)'
    BY <1>1, <1>3, DoneHolds, OwnersKept DEF AllSame
<1>5. run'.pc = run.pc + 1 => \A s : s = step => Holds(s)'
    BY DEF Silent, Holds
<1>6. AdminRead'
  <2>1. run.admin # NoAddress => SameEntry("LendingPoolAddressesProvider")
    BY <1>1 DEF ProcessOK, AdminRead, ProviderOK, SameEntry
  <2> QED BY <1>1, <2>1, AdminReadKept DEF Silent, ProcessOK
<1> QED BY <1>1, <1>2, <1>4, <1>5, <1>6, Assemble
-----------------------------------------------------------------------------
\* What the order of the scripts gives a step.
LEMMA StepOrder ==
    ASSUME RunOK, AtStep
    PROVE  /\ step.op \in {"SetAddress", "SetImpl", "Insert", "ReadAdmin", "GrantHelper", "RestoreAdmin"} =>
                  HaveFor(Done, "Deploy", "LendingPoolAddressesProvider")
           /\ step.op = "SetImpl" /\ step.id = "LendingPoolConfigurator" => HaveFor(Done, "SetImpl", "LendingPool")
           /\ step.op = "Insert" => step.id \in ProxyIds /\ HaveFor(Done, "SetImpl", step.id)
           /\ step.op = "ReadAdmin" => HaveFor(Done, "SetAddress", "PoolAdmin")
           /\ step.op = "Register" => \/ IsOwn(step.registry, Done)
                                      \/ /\ step.registry.from = "configuration"
                                         /\ step.registry.address \in ConfiguredRegistries
           /\ step.op \in {"SetPoolPause", "InitReserve"} => HaveFor(Done, "Insert", "LendingPoolConfigurator")
           /\ step.op = "SetPrices" => IsOwn(step.oracle, Done)
           /\ step.op \in {"TransferRateOracle", "SetOracleBorrowRates", "SetOracleOwnership"} =>
                  HaveFor(Done, "Deploy", "LendingRateOracle")
           /\ step.op = "TransferRateOracle" => HaveFor(Done, "Deploy", "StableAndVariableTokensHelper")
           /\ step.op = "SetOracleOwnership" =>
                  \/ step.admin.from = "configuration" /\ IsAccount(step.admin.address)
                  \/ step.admin.from = "admin" /\ Have(InTask, "ReadAdmin") /\ NoHelperYet
           /\ step.op \in {"GrantHelper", "ConfigureReserves"} => HaveFor(Done, "Deploy", "ATokensAndRatesHelper")
           /\ step.op = "RestoreAdmin" => Have(Done, "GrantHelper")
           /\ step.op = "AuthorizeLendingPool" => IsOwn(step.gateway, Done)
           /\ step.op = "EditGateway" => HaveFor(Done, "Deploy", "WETHGateway")
<1>1. run.jobs[1] \in JobNames
    BY FirstJob
<1>2. run.task \in DOMAIN job.tasks /\ ~Have(Done, "Throw")
    BY DEF RunOK, AtStep, Active
<1>3. WellFormedStep(job.tasks, run.task, run.pc)
    BY <1>1, <1>2, JobIsScripted DEF AtStep, task, job
<1> QED BY <1>2, <1>3 DEF WellFormedStep, Done, step, task, InTask, NoHelperYet

\* What the steps that are done have left.
LEMMA WhatIsDone ==
    ASSUME MInv, Active
    PROVE  /\ \A id : HaveFor(Done, "Deploy", id) => Deployed(id)
           /\ HaveFor(Done, "Deploy", "LendingPoolAddressesProvider") => ProviderOK
           /\ \A id : HaveFor(Done, "SetImpl", id) => Created(id)
           /\ \A id : HaveFor(Done, "Insert", id) => Inserted(id)
           /\ HaveFor(Done, "SetAddress", "PoolAdmin") /\ NoHelperYet => AdminIsAccount
           /\ Have(Done, "EditGateway") => New(gateway)
<1>1. \A s \in Done : Holds(s)
    BY DEF MInv, ProcessOK
<1>2. \A id : HaveFor(Done, "Deploy", id) => Deployed(id)
    BY <1>1 DEF HaveFor, Holds
<1>3. Deployed("LendingPoolAddressesProvider") => ProviderOK
    BY DEF Deployed, ProviderOK, Provider, Trusted, ProxyIds
<1> QED BY <1>1, <1>2, <1>3 DEF HaveFor, Have, Holds

\* A step writes to its own job's contracts.
LEMMA OwnIsNotBefore ==
    ASSUME MInv, Active, NEW e, IsOwn(e, Done)
    PROVE  Value(e) \notin run.before
<1>1. AddressesOK /\ run.before \subseteq DOMAIN contracts
    BY DEF MInv, AddressesOK
<1>2. CASE e.from = "configuration" /\ External(e.address)
    BY <1>1, <1>2, ExternalIsNoContract DEF Value
<1>3. CASE e.from = "db" /\ e.id \notin ProxyIds /\ HaveFor(Done, "Deploy", e.id)
    BY <1>3, WhatIsDone DEF Value, Deployed, New
<1>4. CASE e.from = "gateway" /\ Have(Done, "EditGateway")
    BY <1>4, WhatIsDone DEF Value, New
<1> QED BY <1>2, <1>3, <1>4 DEF IsOwn

\* The steps that change data, a pause or reserves.
LEMMA FieldChange ==
    ASSUME MInv, NEW x, x \in run.before => contracts[x].kind = "LendingPoolAddressesProviderRegistry",
           \/ contracts' = contracts
           \/ \E v : contracts' = [contracts EXCEPT ![x].data = v]
           \/ \E v : contracts' = [contracts EXCEPT ![x].paused = v]
           \/ \E v : contracts' = [contracts EXCEPT ![x].reserves = v]
    PROVE  AllSame /\ Untouched
<1>1. contracts = [a \in DOMAIN contracts |-> contracts[a]]
      /\ (\A a \in DOMAIN contracts : IsContract(contracts[a])) /\ run.before \subseteq DOMAIN contracts
    BY DEF MInv, IInv, IsNetwork, AddressesOK
<1>2. \A a : a # x => contracts'[a] = contracts[a] \/ a \notin DOMAIN contracts
    BY <1>1
<1>3. ASSUME x \in DOMAIN contracts
      PROVE  /\ contracts'[x].kind = contracts[x].kind /\ contracts'[x].owner = contracts[x].owner
             /\ contracts'[x].ref = contracts[x].ref
  <2>1. IsContract(contracts[x])
    BY <1>1, <1>3
  <2> QED BY <1>1, <1>3, <2>1 DEF IsContract, Fields
<1>4. DOMAIN contracts' = DOMAIN contracts
    BY <1>1
<1> QED BY <1>1, <1>2, <1>3, <1>4 DEF AllSame, Untouched
-----------------------------------------------------------------------------
\* The steps of a script, one after the other.
LEMMA Proceeds ==
    ASSUME RunOK, AtStep, ~Throws, Proceed
    PROVE  Continues /\ run'.admin = run.admin /\ run'.pc = run.pc + 1
<1>1. run'.admin = run.admin /\ run'.pc = run.pc + 1
    BY DEF Proceed, RunOK, RunFields
<1> QED BY <1>1, RunProceeds

\* A transaction, or a read, of no consequence to owners and references.
LEMMA QuietStep ==
    ASSUME MInv, ScriptStep, AtStep, ~Throws, Proceed, UNCHANGED <<db, gateway>>,
           step.op \notin Silent, NEW x, x \in run.before => contracts[x].kind = "LendingPoolAddressesProviderRegistry",
           \/ contracts' = contracts
           \/ \E v : contracts' = [contracts EXCEPT ![x].data = v]
           \/ \E v : contracts' = [contracts EXCEPT ![x].paused = v]
           \/ \E v : contracts' = [contracts EXCEPT ![x].reserves = v]
    PROVE  MInv' /\ Untouched
<1>1. AllSame /\ Untouched
    BY FieldChange
<1>2. IInv'
    BY ScriptPreserves DEF MInv
<1>3. Continues /\ run'.admin = run.admin
    BY Proceeds DEF MInv, IInv
<1> QED BY <1>1, <1>2, <1>3, SilentStep

LEMMA SharedTransactions ==
    ASSUME MInv, Register \/ SetPrices \/ AuthorizeLendingPool
    PROVE  MInv' /\ Untouched
<1>1. Active /\ AtStep /\ ~Throws /\ Proceed /\ UNCHANGED <<db, gateway>> /\ RunOK /\ ScriptStep
      /\ step.op \notin Silent
    BY DEF Register, SetPrices, AuthorizeLendingPool, Takes, AtStep, Active, MInv, IInv, ScriptStep, Silent
<1>2. CASE Register
  <2> PICK x : x = Value(step.registry)
    OBVIOUS
  <2>1. step.op = "Register" /\ \E v : contracts' = [contracts EXCEPT ![x].data = v]
    BY <1>2 DEF Register, Takes
  <2>2. CASE IsOwn(step.registry, Done)
    BY <1>1, <2>1, <2>2, OwnIsNotBefore, QuietStep
  <2>3. CASE step.registry.from = "configuration" /\ step.registry.address \in ConfiguredRegistries
    <3>1. contracts[x].kind = "LendingPoolAddressesProviderRegistry"
      BY <2>3 DEF Value, MInv, AddressesOK
    <3> QED BY <1>1, <2>1, <3>1, QuietStep
  <2> QED BY <1>1, <2>1, <2>2, <2>3, StepOrder
<1>3. CASE SetPrices
  <2> PICK x : x = Value(step.oracle)
    OBVIOUS
  <2>1. step.op = "SetPrices" /\ \E v : contracts' = [contracts EXCEPT ![x].data = v]
    BY <1>3 DEF SetPrices, Takes
  <2>2. x \notin run.before
    BY <1>1, <2>1, StepOrder, OwnIsNotBefore
  <2> QED BY <1>1, <2>1, <2>2, QuietStep
<1>4. CASE AuthorizeLendingPool
  <2> PICK x : x = Value(step.gateway)
    OBVIOUS
  <2>1. step.op = "AuthorizeLendingPool" /\ \E v : contracts' = [contracts EXCEPT ![x].data = v]
    BY <1>4 DEF AuthorizeLendingPool, Takes
  <2>2. x \notin run.before
    BY <1>1, <2>1, StepOrder, OwnIsNotBefore
  <2> QED BY <1>1, <2>1, <2>2, QuietStep
<1> QED BY <1>2, <1>3, <1>4

LEMMA PoolTransactions ==
    ASSUME MInv, SetPoolPause \/ InitReserve \/ SetOracleBorrowRates
    PROVE  MInv' /\ Untouched
<1>1. Active /\ AtStep /\ ~Throws /\ Proceed /\ UNCHANGED <<db, gateway>> /\ RunOK /\ ScriptStep
      /\ step.op \notin Silent
    BY DEF SetPoolPause, InitReserve, SetOracleBorrowRates, Takes, AtStep, Active, MInv, IInv, ScriptStep, Silent
<1>2. CASE SetPoolPause \/ InitReserve
  <2> PICK x : x = PoolOf(db["LendingPoolConfigurator"])
    OBVIOUS
  <2>1. /\ step.op \in {"SetPoolPause", "InitReserve"}
        /\ \/ \E v : contracts' = [contracts EXCEPT ![x].paused = v]
           \/ \E v : contracts' = [contracts EXCEPT ![x].reserves = v]
    BY <1>2 DEF SetPoolPause, InitReserve, Takes
  <2>2. x \notin run.before
    BY <1>1, <2>1, StepOrder, WhatIsDone DEF Inserted, IsWired, New
  <2> QED BY <1>1, <2>1, <2>2, QuietStep
<1>3. CASE SetOracleBorrowRates
  <2> PICK x : x = RateOracle
    OBVIOUS
  <2>1. step.op = "SetOracleBorrowRates" /\ \E v : contracts' = [contracts EXCEPT ![x].data = v]
    BY <1>3 DEF SetOracleBorrowRates, Takes
  <2>2. x \notin run.before
    BY <1>1, <2>1, StepOrder, WhatIsDone DEF Deployed, New, RateOracle, ProxyIds
  <2> QED BY <1>1, <2>1, <2>2, QuietStep
<1> QED BY <1>2, <1>3

LEMMA Reads ==
    ASSUME MInv, Get \/ Collect \/ Revert \/ Throw
    PROVE  MInv' /\ Untouched
<1>1. AtStep /\ RunOK /\ ScriptStep /\ contracts' = contracts /\ UNCHANGED <<db, gateway>>
    BY DEF Get, Collect, Revert, Throw, Takes, MInv, IInv, ScriptStep
<1>2. IInv' /\ AllSame /\ Untouched
    BY <1>1, ScriptPreserves DEF MInv, AllSame, Untouched
<1>3. CASE Get
    BY <1>1, <1>2, <1>3, Proceeds, SilentStep DEF Get, Takes, Silent
<1>4. CASE Collect
  <2>1. step.op = "Collect" /\ ~Throws /\ \E v : run' = [run EXCEPT !.pc = @ + 1, !.todo = v]
    BY <1>4 DEF Collect, Takes
  <2>2. Continues /\ run'.admin = run.admin
    BY <1>1, <2>1, RunProceeds DEF RunOK, RunFields
  <2> QED BY <1>1, <1>2, <2>1, <2>2, SilentStep DEF Silent
<1>5. CASE Revert \/ Throw
  <2>1. \E v \in {"failed", "reverted"} : run' = [run EXCEPT !.status = v]
    BY <1>5 DEF Revert, Throw
  <2>2. Continues /\ run'.admin = run.admin /\ run'.pc = run.pc /\ run.pc \in Nat
    BY <1>1, <2>1, RunProceeds, Position DEF RunOK, RunFields, AtStep, Active
  <2> QED BY <1>1, <1>2, <2>2, SilentStep
<1> QED BY <1>3, <1>4, <1>5

LEMMA ReservesConfigured ==
    ASSUME MInv, ConfigureReserves
    PROVE  MInv' /\ Untouched
<1>1. /\ AtStep /\ RunOK /\ ScriptStep /\ UNCHANGED <<db, gateway>> /\ step.op = "ConfigureReserves" /\ ~Throws
      /\ \E v, w : w \in {run.pc, run.pc + 1} /\ run' = [run EXCEPT !.todo = v, !.pc = w]
    BY DEF ConfigureReserves, Takes, MInv, IInv, ScriptStep
<1>2. Continues /\ run'.admin = run.admin
    BY <1>1, RunProceeds DEF RunOK, RunFields
<1> PICK x : x = PoolOf(contracts[ReservesHelper].ref["configurator"])
    OBVIOUS
<1>3. contracts' = contracts \/ \E v : contracts' = [contracts EXCEPT ![x].reserves = v]
    BY DEF ConfigureReserves
<1>4. x \notin run.before
    BY <1>1, <1>2, StepOrder, WhatIsDone DEF Continues, Deployed, HelperOK, IsWired, New
<1>5. AllSame /\ Untouched
    BY <1>3, <1>4, FieldChange
<1>6. IInv'
    BY <1>1, ScriptPreserves DEF MInv
<1> QED BY <1>1, <1>2, <1>5, <1>6, SilentStep DEF Silent
-----------------------------------------------------------------------------
\* An address of this job's provider, other than its proxies.
SetsRef(p, id, v) == contracts' = [contracts EXCEPT ![p].ref[id] = v]

LEMMA RefChange ==
    ASSUME MInv, ProviderOK, NEW p, p = Provider, NEW id, id \notin ProxyIds, NEW v, SetsRef(p, id, v)
    PROVE  /\ Gentle /\ Untouched /\ p \in DOMAIN contracts /\ p \notin run.before
           /\ contracts[p].kind = "LendingPoolAddressesProvider"
           /\ \A a \in DOMAIN contracts : contracts'[a].owner = contracts[a].owner
           /\ \A a \in DOMAIN contracts : a # p => contracts'[a] = contracts[a]
           /\ DOMAIN contracts' = DOMAIN contracts
           /\ \A i \in Entries : contracts'[p].ref[i] = IF i = id THEN v ELSE contracts[p].ref[i]
<1>1. /\ contracts = [a \in DOMAIN contracts |-> contracts[a]]
      /\ p \in DOMAIN contracts /\ p \notin run.before /\ run.before \subseteq DOMAIN contracts
      /\ IsContract(contracts[p]) /\ contracts[p].kind = "LendingPoolAddressesProvider"
    BY DEF MInv, IInv, IsNetwork, AddressesOK, ProviderOK, New
<1> DEFINE c == contracts[p]
           r == [c.ref EXCEPT ![id] = v]
           d == [c EXCEPT !.ref = r]
<1>2. contracts' = [contracts EXCEPT ![p] = d]
    BY DEF SetsRef
<1>3. /\ \A i \in Entries : r[i] = IF i = id THEN v ELSE c.ref[i]
    BY <1>1 DEF IsContract
<1> HIDE DEF r
<1>4. d.ref = r /\ d.kind = c.kind /\ d.owner = c.owner
    BY <1>1 DEF IsContract, Fields
<1> HIDE DEF d
<1>5. /\ DOMAIN contracts' = DOMAIN contracts /\ contracts'[p] = d
      /\ \A a \in DOMAIN contracts : a # p => contracts'[a] = contracts[a]
    BY <1>1, <1>2
<1>6. \A i \in ProxyIds : i \in Entries /\ i # id
    BY DEF Entries
<1>7. Gentle
    BY <1>1, <1>3, <1>4, <1>5, <1>6 DEF Gentle
<1>8. Untouched
    BY <1>1, <1>5 DEF Untouched
<1> QED BY <1>1, <1>3, <1>4, <1>5, <1>7, <1>8

\* The other markets, and this one but for the address that is set.
LEMMA MarketsSet ==
    ASSUME MInv, SameProcess, ProviderOK, NEW p, p = Provider, NEW id, id \notin ProxyIds, NEW v, SetsRef(p, id, v),
           id = "PoolAdmin" => AdminFits(p, v),
           id = "LendingRateOracle" => RatesFit(p, v)
    PROVE  MarketsFit'
<1>1. /\ Gentle /\ p \in DOMAIN contracts /\ contracts[p].kind = "LendingPoolAddressesProvider"
      /\ \A a \in DOMAIN contracts : contracts'[a].owner = contracts[a].owner
      /\ \A a \in DOMAIN contracts : a # p => contracts'[a] = contracts[a]
      /\ DOMAIN contracts' = DOMAIN contracts
      /\ \A i \in Entries : contracts'[p].ref[i] = IF i = id THEN v ELSE contracts[p].ref[i]
    BY RefChange
<1>2. AddressesOK /\ MarketsFit
    BY DEF MInv
<1>3. ASSUME NEW q \in DOMAIN contracts, q # p, contracts[q].kind = "LendingPoolAddressesProvider"
      PROVE  MarketFits(q)'
  <2> PICK r : r = contracts[q].ref["LendingRateOracle"]
    OBVIOUS
  <2> PICK o : o = contracts[r].owner
    OBVIOUS
  <2> QED BY <1>1, <1>2, <1>3, GentleMarket DEF MarketsFit
<1>4. MarketFits(p)'
  <2> PICK a : a = IF id = "PoolAdmin" THEN v ELSE contracts[p].ref["PoolAdmin"]
    OBVIOUS
  <2> PICK r : r = IF id = "LendingRateOracle" THEN v ELSE contracts[p].ref["LendingRateOracle"]
    OBVIOUS
  <2> PICK o : o = contracts[r].owner
    OBVIOUS
  <2>1. contracts'[p].ref["PoolAdmin"] = a /\ contracts'[p].ref["LendingRateOracle"] = r
    BY <1>1 DEF Entries
  <2>2. AdminFits(p, a) /\ RatesFit(p, r)
    BY <1>1, <1>2 DEF MarketsFit, MarketFits
  <2>3. AdminFits(p, a)'
    BY <1>1, <1>2, <2>2, GentleAdmin
  <2>4. RatesFit(p, r)'
    BY <1>1, <1>2, <2>2, GentleRates
  <2> QED BY <2>1, <2>3, <2>4 DEF MarketFits, AdminFits, RatesFit, Known, New
<1> QED BY <1>1, <1>3, <1>4 DEF MarketsFit, Gentle

\* What such a step is to show.
LEMMA RefStep ==
    ASSUME MInv, ScriptStep, AtStep, Continues, ProviderOK, UNCHANGED <<db, gateway>>, run'.admin = run.admin,
           step.op # "ReadAdmin", NEW p, p = Provider, NEW id, id \notin ProxyIds, NEW v, SetsRef(p, id, v),
           id = "PoolAdmin" => AdminFits(p, v) /\ (IsAccount(v) \/ ~NoHelperYet),
           id = "LendingRateOracle" => RatesFit(p, v),
           step.op \notin Silent \/ (step.op = "SetAddress" /\ step.id = id)
    PROVE  MInv' /\ Untouched
<1>1. /\ Gentle /\ Untouched /\ p \in DOMAIN contracts /\ contracts[p].kind = "LendingPoolAddressesProvider"
      /\ \A a \in DOMAIN contracts : contracts'[a].owner = contracts[a].owner
      /\ \A i \in Entries : contracts'[p].ref[i] = IF i = id THEN v ELSE contracts[p].ref[i]
    BY RefChange
<1>2. SameProcess /\ Active /\ AddressesOK /\ MarketsFit /\ ProcessOK /\ RunOK
    BY DEF SameProcess, Continues, MInv, IInv
<1>3. MarketsFit'
    BY <1>2, MarketsSet
<1>4. NoHelperYet =>
          \/ contracts'[p].ref["PoolAdmin"] = contracts[p].ref["PoolAdmin"]
          \/ id = "PoolAdmin" /\ IsAccount(contracts'[p].ref["PoolAdmin"])
    BY <1>1 DEF Entries
<1>5. \A s \in Done : Holds(s)'
    BY <1>1, <1>2, <1>4, DoneHolds, OwnersKept
<1>6. SameEntry("LendingPoolAddressesProvider")
    BY DEF ProviderOK, SameEntry
<1>7. AdminRead'
    BY <1>1, <1>2, <1>6, AdminReadKept DEF ProcessOK
<1>8. run'.pc = run.pc + 1 => \A s : s = step => Holds(s)'
  <2>1. step.op = "SetAddress" /\ step.id = "PoolAdmin" /\ NoHelperYet => AdminIsAccount'
    <3>1. ASSUME id = "PoolAdmin", NoHelperYet
          PROVE  IsAccount(contracts'[p].ref["PoolAdmin"])
      BY <1>1, <3>1 DEF Entries
    <3>2. ProviderOK' /\ Provider' = p
      BY <1>1, <1>2, <1>6, KeptProvider
    <3> QED BY <3>1, <3>2 DEF AdminIsAccount, IsAccount, External, Silent
  <2>2. NoHelperYet' <=> NoHelperYet
    BY <1>2, InTaskGrows
  <2> QED BY <2>1, <2>2 DEF Holds, Silent
<1>9. IInv'
    BY ScriptPreserves DEF MInv
<1> QED BY <1>1, <1>3, <1>5, <1>7, <1>8, <1>9, Assemble

LEMMA ExternalFits ==
    ASSUME AddressesOK, NEW p, NEW v, External(v)
    PROVE  AdminFits(p, v) /\ (p \notin run.before => RatesFit(p, v))
           /\ (v # NoAddress => \A owner : OwnerFits(v, owner))
BY ExternalIsNoContract DEF AdminFits, RatesFit, OwnerFits, Known

LEMMA AddressSet ==
    ASSUME MInv, SetAddress
    PROVE  MInv' /\ Untouched
<1>1. AtStep /\ ~Throws /\ Proceed /\ UNCHANGED <<db, gateway>> /\ step.op = "SetAddress" /\ RunOK /\ ScriptStep
      /\ Active /\ AddressesOK /\ ProcessOK
    BY DEF SetAddress, Takes, MInv, IInv, ScriptStep, AtStep, Active
<1> PICK p : p = Provider
    OBVIOUS
<1> PICK id : id = step.id
    OBVIOUS
<1> PICK v : v = Value(step.value)
    OBVIOUS
<1>2. SetsRef(p, id, v)
    BY DEF SetAddress, SetsRef
<1>3. SetsInOrder(step, Done)
    BY <1>1, StepIsOrdered
<1>4. ProviderOK /\ p \in DOMAIN contracts /\ p \notin run.before /\ contracts[p].owner = job.signer
  <2>1. ProviderOK
    BY <1>1, StepOrder, WhatIsDone
  <2> QED BY <1>1, <2>1 DEF ProviderOK, New, ProcessOK, OwnersOK, Owned
<1>5. id = "PoolAdmin" => AdminFits(p, v) /\ IsAccount(v)
  <2>1. id = "PoolAdmin" => IsAccount(v)
    BY <1>3 DEF SetsInOrder, Value
  <2> QED BY <1>1, <2>1, ExternalFits DEF IsAccount
<1>6. ASSUME id = "LendingRateOracle"
      PROVE  RatesFit(p, v)
  <2>1. CASE step.value.from = "configuration"
    <3>1. External(v)
      BY <1>3, <1>6, <2>1 DEF SetsInOrder, IsOwn, Value
    <3> QED BY <1>1, <1>4, <3>1, ExternalFits
  <2>2. CASE step.value.from = "db"
    <3>1. v = RateOracle /\ Deployed("LendingRateOracle")
      BY <1>1, <1>3, <1>6, <2>2, WhatIsDone DEF SetsInOrder, IsOwn, Value, RateOracle
    <3> QED BY <1>4, <3>1 DEF Deployed, ProxyIds, New, RateOracle, RatesFit, Known
  <2> QED BY <1>3, <1>6, <2>1, <2>2 DEF SetsInOrder
<1>7. Continues /\ run'.admin = run.admin
    BY <1>1, Proceeds
<1>8. id \notin ProxyIds
    BY <1>3 DEF SetsInOrder
<1> QED BY <1>1, <1>2, <1>4, <1>5, <1>6, <1>7, <1>8, RefStep

\* The helper becomes administrator of its own market, and hands over to who was before.
LEMMA AdminLent ==
    ASSUME MInv, GrantHelper \/ RestoreAdmin
    PROVE  MInv' /\ Untouched
<1>1. /\ AtStep /\ ~Throws /\ UNCHANGED <<db, gateway>> /\ step.op \in {"GrantHelper", "RestoreAdmin"}
      /\ RunOK /\ ScriptStep /\ Active /\ AddressesOK /\ ProcessOK
      /\ Proceed \/ \E v : run' = [run EXCEPT !.pc = @ + 1, !.granted = v]
    BY DEF GrantHelper, RestoreAdmin, Takes, MInv, IInv, ScriptStep, AtStep, Active
<1>2. Continues /\ run'.admin = run.admin
    BY <1>1, RunProceeds DEF RunOK, RunFields, Proceed
<1> PICK p : p = Provider
    OBVIOUS
<1>3. ProviderOK /\ p \in DOMAIN contracts /\ contracts[p].owner = job.signer
  <2>1. ProviderOK
    BY <1>1, StepOrder, WhatIsDone
  <2> QED BY <1>1, <2>1 DEF ProviderOK, New, ProcessOK, OwnersOK, Owned
<1>4. ~NoHelperYet
    BY <1>1, WithinTask, StepOrder DEF NoHelperYet, Have
<1>5. CASE contracts' = contracts
  <2>1. AllSame /\ Untouched /\ IInv'
    BY <1>1, <1>5, ScriptPreserves DEF MInv, AllSame, Untouched
  <2> QED BY <1>1, <1>2, <2>1, SilentStep DEF Silent
<1>6. ASSUME NEW v, SetsRef(p, "PoolAdmin", v), AdminFits(p, v)
      PROVE  MInv' /\ Untouched
  <2>1. step.op \notin Silent /\ step.op # "ReadAdmin" /\ "PoolAdmin" \notin ProxyIds
    BY <1>1 DEF Silent, ProxyIds
  <2> QED BY <1>1, <1>2, <1>3, <1>4, <1>6, <2>1, RefStep
<1>7. CASE GrantHelper
  <2> PICK h : h = ReservesHelper
    OBVIOUS
  <2>1. step.op = "GrantHelper" /\ (contracts' = contracts \/ SetsRef(p, "PoolAdmin", h))
    BY <1>7 DEF GrantHelper, Takes, SetsRef
  <2>2. Deployed("ATokensAndRatesHelper")
    BY <1>1, <2>1, StepOrder, WhatIsDone
  <2>3. HelperOK /\ New(h) /\ contracts[h].kind = "ATokensAndRatesHelper"
    BY <2>2 DEF Deployed, ProxyIds, Trusted, ReservesHelper
  <2>4. contracts[h].owner = job.signer
    BY <1>1, <2>3 DEF ProcessOK, OwnersOK, Owned, New
  <2>5. contracts[h].ref["configurator"] # NoAddress
    BY <1>1, <2>3, NoAddressIsExternal, ExternalIsNoContract DEF HelperOK, IsWired, New
  <2>6. AdminFits(p, h)
    BY <1>3, <2>3, <2>4, <2>5 DEF AdminFits, Known, New, HelperOK
  <2> QED BY <1>5, <1>6, <2>1, <2>6
<1>8. CASE RestoreAdmin
  <2> PICK a : a = run.admin
    OBVIOUS
  <2>1. contracts' = contracts \/ SetsRef(p, "PoolAdmin", a)
    BY <1>8 DEF RestoreAdmin, SetsRef
  <2>2. AdminFits(p, a)
    BY <1>1, NoAddressIsExternal, ExternalFits DEF ProcessOK, AdminRead
  <2> QED BY <1>5, <1>6, <2>1, <2>2
<1> QED BY <1>7, <1>8

LEMMA AdminIsRead ==
    ASSUME MInv, ReadAdmin
    PROVE  MInv' /\ Untouched
<1>1. /\ AtStep /\ ~Throws /\ UNCHANGED <<db, gateway>> /\ step.op = "ReadAdmin" /\ contracts' = contracts
      /\ RunOK /\ ScriptStep /\ Active /\ AddressesOK /\ ProcessOK /\ MarketsFit
      /\ run' = [run EXCEPT !.pc = @ + 1, !.admin = contracts[Provider].ref["PoolAdmin"]]
    BY DEF ReadAdmin, Takes, MInv, IInv, ScriptStep, AtStep, Active
<1>2. Continues /\ run'.admin = contracts[Provider].ref["PoolAdmin"] /\ run'.pc = run.pc + 1
    BY <1>1, RunProceeds DEF RunOK, RunFields
<1>3. AllSame /\ Gentle /\ Untouched /\ IInv' /\ SameProcess
    BY <1>1, <1>2, ScriptPreserves, SameIsGentle DEF MInv, AllSame, Untouched, SameProcess, Continues
<1>4. ProviderOK /\ ProviderOK' /\ Provider' = Provider
    BY <1>1, <1>2, StepOrder, WhatIsDone DEF ProviderOK, New, Continues, Provider
<1>5. MarketsFit'
    BY <1>1, <1>3, MarketsKept DEF AllSame
<1>6. \A s \in Done : Holds(s)'
    BY <1>1, <1>2, <1>3, DoneHolds, OwnersKept DEF AllSame
<1>7. AdminRead'
  <2> PICK a : a = contracts[Provider].ref["PoolAdmin"]
    OBVIOUS
  <2>1. AdminFits(Provider, a)
    BY <1>1, <1>4 DEF MarketsFit, MarketFits, ProviderOK, New
  <2>2. AdminFits(Provider, a)'
    BY <1>1, <1>4, <2>1 DEF AdminFits, Known, External, ConfiguredRegistries
  <2>3. NoHelperYet' => IsAccount(a)
    BY <1>1, <1>2, StepOrder, WhatIsDone, InTaskGrows DEF AdminIsAccount
  <2>4. Have(Done, "ReadAdmin")'
    BY <1>1, <1>2, InTaskGrows DEF Have
  <2>5. run'.admin = a
    BY <1>2
  <2>6. AdminFits(Provider, run.admin)'
    BY <2>2, <2>5 DEF AdminFits, Known
  <2>7. (NoHelperYet => IsAccount(run.admin))'
    BY <2>3, <2>5
  <2> QED BY <1>4, <2>4, <2>6, <2>7 DEF AdminRead
<1>8. \A s : s = step => Holds(s)'
    BY <1>1 DEF Holds
<1> QED BY <1>1, <1>2, <1>3, <1>5, <1>6, <1>7, <1>8, Assemble
-----------------------------------------------------------------------------
\* The rate oracle of this job is handed over, to v.
LEMMA OracleHandedOver ==
    ASSUME MInv, ScriptStep, AtStep, ~Throws, Proceed, UNCHANGED <<db, gateway>>, step.op \notin Silent,
           Deployed("LendingRateOracle"), NEW o, o = RateOracle, NEW v, OwnerFits(v, job.signer),
           contracts' = [contracts EXCEPT ![o].owner = v]
    PROVE  MInv' /\ Untouched
<1>1. /\ RunOK /\ Active /\ AddressesOK /\ ProcessOK /\ MarketsFit
      /\ Continues /\ run'.admin = run.admin /\ SameProcess
    BY Proceeds DEF MInv, IInv, AtStep, Active, Continues, SameProcess
<1>2. New(o) /\ contracts[o].kind = "LendingRateOracle"
    BY DEF Deployed, Trusted, ProxyIds, RateOracle
<1>3. /\ contracts = [a \in DOMAIN contracts |-> contracts[a]] /\ run.before \subseteq DOMAIN contracts
      /\ o \in DOMAIN contracts /\ o \notin run.before /\ IsContract(contracts[o])
    BY <1>2 DEF MInv, IInv, IsNetwork, AddressesOK, New
<1>4. /\ DOMAIN contracts' = DOMAIN contracts
      /\ \A a \in DOMAIN contracts : a # o => contracts'[a] = contracts[a]
      /\ contracts'[o].kind = contracts[o].kind /\ contracts'[o].owner = v /\ contracts'[o].ref = contracts[o].ref
    BY <1>3 DEF IsContract, Fields
<1>5. Gentle /\ Untouched
    BY <1>2, <1>3, <1>4 DEF Gentle, Untouched
<1>6. ASSUME NEW q \in DOMAIN contracts, contracts[q].kind = "LendingPoolAddressesProvider"
      PROVE  MarketFits(q)'
  <2> PICK r : r = contracts[q].ref["LendingRateOracle"]
    OBVIOUS
  <2> PICK w : w = IF r = o THEN v ELSE contracts[r].owner
    OBVIOUS
  <2>1. MarketFits(q) /\ q # o
    BY <1>1, <1>2, <1>6 DEF MarketsFit
  <2>2. ASSUME r = o PROVE OwnerFits(v, contracts[q].owner)
    <3>1. q \notin run.before
      BY <1>2, <2>1, <2>2 DEF MarketFits, RatesFit
    <3>2. contracts[q].owner = job.signer
      BY <1>1, <1>6, <3>1 DEF ProcessOK, OwnersOK, Owned, New
    <3> QED BY <3>2
  <2>3. r \in DOMAIN contracts =>
            contracts'[r].owner = w /\ (w = contracts[r].owner \/ OwnerFits(w, contracts[q].owner))
    BY <1>4, <2>2
  <2>4. contracts'[q].ref = contracts[q].ref
    BY <1>4, <2>1
  <2> QED BY <1>1, <1>5, <1>6, <2>1, <2>3, <2>4, GentleMarket
<1>7. MarketsFit'
    BY <1>4, <1>6 DEF MarketsFit
<1>8. OwnerFits(contracts[RateOracle].owner, job.signer)'
  <2> PICK w : w = job.signer
    OBVIOUS
  <2>1. OwnerFits(v, w)'
    BY <1>1, <1>5, GentleOwner
  <2>2. RateOracle' = o /\ job' = job
    BY <1>1, GentleJob DEF RateOracle
  <2> QED BY <1>4, <2>1, <2>2 DEF OwnerFits
<1>9. AdminIsAccount => contracts'[Provider].ref["PoolAdmin"] = contracts[Provider].ref["PoolAdmin"]
    BY <1>2, <1>4 DEF AdminIsAccount, ProviderOK, New
<1>10. \A s \in Done : Holds(s)'
    BY <1>1, <1>5, <1>8, <1>9, DoneHolds
<1>11. AdminRead'
  <2>1. run.admin # NoAddress => SameEntry("LendingPoolAddressesProvider")
    BY <1>1 DEF ProcessOK, AdminRead, ProviderOK, SameEntry
  <2> QED BY <1>1, <1>5, <2>1, AdminReadKept DEF Silent, ProcessOK
<1>12. \A s : s = step => Holds(s)'
    BY DEF Silent, Holds
<1>13. IInv'
    BY ScriptPreserves DEF MInv
<1> QED BY <1>1, <1>5, <1>7, <1>10, <1>11, <1>12, <1>13, Assemble

LEMMA OracleTransactions ==
    ASSUME MInv, TransferRateOracle \/ SetOracleOwnership
    PROVE  MInv' /\ Untouched
<1>1. /\ AtStep /\ ~Throws /\ Proceed /\ UNCHANGED <<db, gateway>> /\ RunOK /\ Active /\ ScriptStep
      /\ step.op \in {"TransferRateOracle", "SetOracleOwnership"} /\ AddressesOK /\ ProcessOK
    BY DEF TransferRateOracle, SetOracleOwnership, Takes, AtStep, Active, MInv, IInv, ScriptStep
<1>2. Deployed("LendingRateOracle") /\ step.op \notin Silent
    BY <1>1, StepOrder, WhatIsDone DEF Silent
<1> PICK o : o = RateOracle
    OBVIOUS
<1>3. CASE TransferRateOracle
  <2> PICK v : v = RatesHelper
    OBVIOUS
  <2>1. step.op = "TransferRateOracle" /\ contracts' = [contracts EXCEPT ![o].owner = v]
    BY <1>3 DEF TransferRateOracle, Takes
  <2>2. New(v) /\ contracts[v].kind = "StableAndVariableTokensHelper"
    BY <1>1, <2>1, StepOrder, WhatIsDone DEF Deployed, ProxyIds, Trusted, RatesHelper
  <2>3. contracts[v].owner = job.signer
    BY <1>1, <2>2 DEF ProcessOK, OwnersOK, Owned, New
  <2>4. v # NoAddress
    BY <1>1, <2>2, NoAddressIsExternal, ExternalIsNoContract DEF New
  <2>5. OwnerFits(v, job.signer)
    BY <2>2, <2>3, <2>4 DEF OwnerFits, Known, New
  <2> QED BY <1>1, <1>2, <2>1, <2>5, OracleHandedOver
<1>4. CASE SetOracleOwnership
  <2> PICK v : v = Value(step.admin)
    OBVIOUS
  <2>1. step.op = "SetOracleOwnership" /\ contracts' = [contracts EXCEPT ![o].owner = v]
    BY <1>4 DEF SetOracleOwnership, Takes
  <2>2. IsAccount(v)
    BY <1>1, <2>1, StepOrder DEF Value, ProcessOK, AdminRead
  <2>3. OwnerFits(v, job.signer)
    BY <1>1, <2>2, ExternalFits DEF IsAccount
  <2> QED BY <1>1, <1>2, <2>1, <2>3, OracleHandedOver
<1> QED BY <1>3, <1>4
-----------------------------------------------------------------------------
\* A contract that is deployed: a fresh address of the scripts.
LEMMA Deploying ==
    ASSUME MInv, NEW kind, NEW c, IsContract(c), c.kind = kind, NEW n, n = NewAddress(kind)
    PROVE  /\ n \notin DOMAIN contracts /\ n[1] = "script" /\ n # NoAddress
           /\ LET C == Extend(contracts, n, c)
              IN /\ DOMAIN C = DOMAIN contracts \union {n} /\ C[n] = c
                 /\ C = [a \in DOMAIN C |-> C[a]]
                 /\ \A a \in DOMAIN contracts : C[a] = contracts[a]
<1>1. n = <<"script", kind, Cardinality(KindOf(contracts, kind)) + 1>>
    BY DEF NewAddress, OfKind, KindOf
<1>2. n \notin DOMAIN contracts
    BY <1>1, AddContract DEF MInv, IInv
<1>3. n[1] = "script"
    BY <1>1
<1>4. n # NoAddress
    BY <1>3, NoAddressIsExternal DEF External
<1> QED BY <1>2, <1>3, <1>4 DEF Extend

\* What was done holds after a deployment, but for what is deployed once more.
LEMMA DeployKeepsDone ==
    ASSUME MInv, AtStep, Continues, Gentle, DeploysInOrder(step, Done), UNCHANGED gateway,
           \A a \in DOMAIN contracts : contracts'[a] = contracts[a],
           NEW id, id = step.id, NEW n, db' = Extend(db, id, n),
           Deployed(id)', NEW s \in Done
    PROVE  Holds(s)'
<1>1. SameProcess /\ Active /\ AddressesOK /\ ProcessOK /\ RunOK
    BY DEF SameProcess, Continues, MInv, IInv
<1>2. Holds(s)
    BY <1>1 DEF ProcessOK
<1>3. \A i \in DOMAIN db : i # id => SameEntry(i)
    BY DEF SameEntry, Extend
<1>4. CASE s.op = "Deploy" /\ s.id = id
    BY <1>4 DEF Holds
<1>5. CASE ~(s.op = "Deploy" /\ s.id = id)
  <2>1. s.op = "Insert" => s.id \in ProxyIds /\ s.id \in DOMAIN db /\ s.id # id
    BY <1>2 DEF Holds, Inserted, DeploysInOrder, HaveFor
  <2>2. s.op = "Deploy" /\ s.id \notin ProxyIds => SameEntry(s.id)
    BY <1>2, <1>3, <1>5 DEF Holds, Deployed
  <2>3. s.op = "Insert" => SameEntry(s.id)
    BY <1>3, <2>1
  <2>4. ProviderOK /\ (s.op # "Deploy" \/ s.id = "ATokensAndRatesHelper") => SameEntry("LendingPoolAddressesProvider")
    BY <1>3 DEF DeploysInOrder, ProviderOK
  <2>5. ASSUME s.op = "Deploy", s.id = "LendingRateOracle"
        PROVE  OwnerFits(contracts[RateOracle].owner, job.signer)'
    <3>1. Deployed("LendingRateOracle") /\ SameEntry("LendingRateOracle")
      BY <1>2, <2>2, <2>5 DEF Holds, ProxyIds
    <3>2. RateOracle \in DOMAIN contracts
      BY <3>1 DEF Deployed, ProxyIds, New, RateOracle
    <3> QED BY <1>1, <3>1, <3>2, RateOwnerKept
  <2>6. AdminIsAccount => contracts'[Provider].ref["PoolAdmin"] = contracts[Provider].ref["PoolAdmin"]
    BY DEF AdminIsAccount, ProviderOK, New
  <2>7. s.op = "SetAddress" /\ s.id = "PoolAdmin" /\ NoHelperYet => AdminIsAccount
    BY <1>2 DEF Holds
  <2>8. NoHelperYet' <=> NoHelperYet
    BY <1>1, InTaskGrows
  <2> QED BY <1>1, <1>2, <2>2, <2>3, <2>4, <2>5, <2>6, <2>7, <2>8, HoldsKept
<1> QED BY <1>4, <1>5

LEMMA ContractDeployed ==
    ASSUME MInv, Deploy
    PROVE  MInv' /\ Untouched
<1>1. AtStep /\ ~Throws /\ Proceed /\ UNCHANGED gateway /\ step.op = "Deploy" /\ RunOK /\ ScriptStep
      /\ Active /\ AddressesOK /\ ProcessOK /\ MarketsFit
    BY DEF Deploy, Takes, MInv, IInv, ScriptStep, AtStep, Active
<1>2. Continues /\ run'.admin = run.admin /\ SameProcess /\ run'.pc = run.pc + 1
    BY <1>1, Proceeds DEF Continues, SameProcess
<1>3. DeploysInOrder(step, Done)
    BY <1>1, StepIsOrdered
<1> PICK kind : kind = step.kind
    OBVIOUS
<1> PICK id : id = step.id
    OBVIOUS
<1> PICK n : n = NewAddress(kind)
    OBVIOUS
<1> PICK ref : ref = [r \in DOMAIN step.ref |-> Value(step.ref[r])]
    OBVIOUS
<1> PICK c : c = Contract(kind, job.signer, ref, step.data)
    OBVIOUS
<1>4. contracts' = Extend(contracts, n, c) /\ db' = Extend(db, id, n)
    BY DEF Deploy
<1>5. c.kind = kind /\ c.owner = job.signer /\ c.ref = ref
    BY DEF Contract
<1>6. IsContract(c)
  <2>1. kind # "LendingPool" /\ (kind = "LendingPoolAddressesProvider" => Entries \subseteq DOMAIN step.ref)
    BY <1>3 DEF DeploysInOrder
  <2> QED BY <2>1 DEF IsContract, Contract, Fields
<1>7. /\ n \notin DOMAIN contracts /\ n[1] = "script" /\ n # NoAddress
      /\ DOMAIN contracts' = DOMAIN contracts \union {n} /\ contracts'[n] = c
      /\ \A a \in DOMAIN contracts : contracts'[a] = contracts[a]
    BY <1>4, <1>5, <1>6, Deploying
<1>8. Gentle /\ Untouched /\ run.before \subseteq DOMAIN contracts
    BY <1>1, <1>5, <1>7 DEF Gentle, Untouched, AddressesOK
<1>9. ASSUME kind = "LendingPoolAddressesProvider" PROVE MarketFits(n)'
  <2>1. ref["PoolAdmin"] = NoAddress /\ ref["LendingRateOracle"] = NoAddress
    BY <1>3, <1>9 DEF DeploysInOrder, Entries, Value
  <2>2. NoAddress \notin DOMAIN contracts' /\ External(NoAddress)'
    BY <1>1, <1>2, <1>8, GentleAddresses, NoAddressIsExternal DEF External
  <2> QED BY <1>2, <1>5, <1>7, <2>1, <2>2 DEF MarketFits, AdminFits, RatesFit, Known, New
<1>10. MarketsFit'
  <2>1. \A p \in DOMAIN contracts' \ DOMAIN contracts :
            contracts'[p].kind = "LendingPoolAddressesProvider" => MarketFits(p)'
    BY <1>5, <1>7, <1>9
  <2> QED BY <1>1, <1>2, <1>7, <1>8, <2>1, MarketsKept
<1>11. id \in DOMAIN db' /\ db'[id] = n /\ New(n)'
    BY <1>2, <1>4, <1>7, <1>8 DEF Extend, New, SameProcess
<1>12. Deployed(id)'
  <2>1. id \in Trusted => contracts'[n].kind = id
    BY <1>3, <1>5, <1>7 DEF DeploysInOrder
  <2>2. ASSUME id = "LendingRateOracle"
        PROVE  OwnerFits(contracts[RateOracle].owner, job.signer)'
    <3>1. RateOracle' = n /\ job' = job
      BY <1>2, <1>11, <2>2, GentleJob DEF RateOracle
    <3> PICK w : w = job.signer
      OBVIOUS
    <3>2. IsAccount(w)
      BY <1>1, FirstJob, JobIsScripted DEF job
    <3>3. OwnerFits(w, w)'
      BY <1>1, <1>2, <1>8, <3>2, ExternalFits, GentleOwner DEF IsAccount
    <3> QED BY <1>5, <1>7, <3>1, <3>3 DEF OwnerFits
  <2>3. ASSUME id = "ATokensAndRatesHelper"
        PROVE  HelperOK'
    <3> PICK d : d = contracts[Provider].ref["LendingPoolConfigurator"]
      OBVIOUS
    <3>1. ProviderOK /\ Created("LendingPoolConfigurator")
      BY <1>1, <1>3, <2>3, WhatIsDone DEF DeploysInOrder
    <3>2. IsWired(d) /\ "LendingPoolConfigurator" \in ProxyIds
      BY <3>1 DEF Created
    <3>3. ref["configurator"] = d
      BY <1>3, <2>3 DEF DeploysInOrder, Value
    <3>4. SameEntry("LendingPoolAddressesProvider")
      BY <1>4, <2>3, <3>1 DEF SameEntry, ProviderOK, Extend
    <3>5. ProviderOK' /\ Provider' = Provider /\ contracts'[Provider].ref["LendingPoolConfigurator"] = d
      BY <1>1, <1>2, <1>8, <3>1, <3>2, <3>4, KeptProvider DEF IsWired
    <3>6. IsWired(d)'
      BY <1>1, <1>2, <1>8, <3>2, GentleWired
    <3>7. ReservesHelper' = n
      BY <1>11, <2>3 DEF ReservesHelper
    <3> QED BY <1>5, <1>7, <3>3, <3>5, <3>6, <3>7 DEF HelperOK, IsWired, New, PoolOf
  <2> QED BY <1>11, <2>1, <2>2, <2>3 DEF Deployed
<1>13. \A s \in Done : Holds(s)'
    BY <1>1, <1>2, <1>3, <1>4, <1>7, <1>8, <1>12, DeployKeepsDone
<1>14. \A s : s = step => Holds(s)'
    BY <1>1, <1>12 DEF Holds
<1>15. AdminRead'
  <2>1. ASSUME run.admin # NoAddress
        PROVE  SameEntry("LendingPoolAddressesProvider")
    <3>1. Have(Done, "ReadAdmin") /\ ProviderOK
      BY <1>1, <2>1 DEF ProcessOK, AdminRead
    <3>2. id # "LendingPoolAddressesProvider"
      BY <1>3, <3>1 DEF DeploysInOrder, Have
    <3> QED BY <1>4, <3>1, <3>2 DEF ProviderOK, SameEntry, Extend
  <2> QED BY <1>1, <1>2, <1>8, <2>1, AdminReadKept DEF ProcessOK
<1>16. IInv'
    BY <1>1, ScriptPreserves DEF MInv
<1> QED BY <1>1, <1>2, <1>8, <1>10, <1>13, <1>14, <1>15, <1>16, Assemble

\* A proxy that is created knows its provider, and a configurator the pool it has.
LEMMA ProxyCreated ==
    ASSUME MInv, SetImpl
    PROVE  MInv' /\ Untouched
<1>1. AtStep /\ ~Throws /\ Proceed /\ UNCHANGED <<db, gateway>> /\ step.op = "SetImpl" /\ RunOK /\ ScriptStep
      /\ Active /\ AddressesOK /\ ProcessOK /\ MarketsFit /\ Accepts
    BY DEF SetImpl, Takes, MInv, IInv, ScriptStep, AtStep, Active
<1>2. Continues /\ run'.admin = run.admin /\ SameProcess /\ run'.pc = run.pc + 1
    BY <1>1, Proceeds DEF Continues, SameProcess
<1> PICK p : p = Provider
    OBVIOUS
<1> PICK id : id = step.id
    OBVIOUS
<1> PICK n : n = NewAddress(id)
    OBVIOUS
<1> PICK pool : pool = contracts[p].ref["LendingPool"]
    OBVIOUS
<1> PICK impl : impl = Value(step.value)
    OBVIOUS
<1> PICK c : c = IF id = "LendingPool" THEN LendingPoolProxy(p, impl)
                 ELSE Contract(id, p, [provider |-> p, impl |-> impl, pool |-> pool], {})
    OBVIOUS
<1> PICK C : C = Extend(contracts, n, c)
    OBVIOUS
<1>3. contracts' = [C EXCEPT ![p].ref[id] = n]
    BY DEF SetImpl
<1>4. id \in ProxyIds /\ contracts[p].ref[id] = NoAddress
    BY <1>1, StepIsOrdered DEF Accepts, CanInitialize
<1>5. ProviderOK /\ p \in DOMAIN contracts /\ p \notin run.before
      /\ contracts[p].kind = "LendingPoolAddressesProvider"
    BY <1>1, StepOrder, WhatIsDone DEF ProviderOK, New
<1>6. IsContract(c) /\ c.kind = id /\ (id = "LendingPoolConfigurator" => c.ref["pool"] = pool)
    BY <1>4 DEF IsContract, LendingPoolProxy, Contract, Fields, ProxyIds
<1>7. /\ n \notin DOMAIN contracts /\ n[1] = "script"
      /\ DOMAIN C = DOMAIN contracts \union {n} /\ C[n] = c /\ C = [a \in DOMAIN C |-> C[a]]
      /\ \A a \in DOMAIN contracts : C[a] = contracts[a]
    BY <1>6, Deploying
<1> DEFINE b == contracts[p]
           r == [b.ref EXCEPT ![id] = n]
           d == [b EXCEPT !.ref = r]
<1>8. contracts' = [C EXCEPT ![p] = d]
    BY <1>3, <1>5, <1>7
<1>9. IsContract(b)
    BY <1>5 DEF MInv, IInv, IsNetwork
<1>10. \A i \in Entries : r[i] = IF i = id THEN n ELSE b.ref[i]
    BY <1>5, <1>9 DEF IsContract
<1> HIDE DEF r
<1>11. d.ref = r /\ d.kind = b.kind /\ d.owner = b.owner
    BY <1>9 DEF IsContract, Fields
<1> HIDE DEF d
<1>12. /\ DOMAIN contracts' = DOMAIN contracts \union {n} /\ contracts'[p] = d /\ contracts'[n] = c
       /\ \A a \in DOMAIN contracts : a # p => contracts'[a] = contracts[a]
    BY <1>5, <1>7, <1>8
<1>13. \A i \in ProxyIds : i \in Entries
    BY DEF Entries
<1>14. Gentle
  <2>1. c.kind \notin Owned
    BY <1>4, <1>6 DEF Owned, ProxyIds
  <2> QED BY <1>4, <1>5, <1>7, <1>10, <1>11, <1>12, <1>13, <2>1 DEF Gentle
<1>15. Untouched
    BY <1>1, <1>5, <1>12 DEF Untouched, AddressesOK
<1>16. \A i \in {"PoolAdmin", "LendingRateOracle"} : contracts'[p].ref[i] = contracts[p].ref[i]
    BY <1>4, <1>10, <1>11, <1>12 DEF Entries, ProxyIds
<1>17. \A a \in DOMAIN contracts : contracts'[a].owner = contracts[a].owner
    BY <1>11, <1>12
<1>18. MarketsFit'
  <2>1. c.kind # "LendingPoolAddressesProvider"
    BY <1>4, <1>6 DEF ProxyIds
  <2>2. \A a \in DOMAIN contracts : contracts[a].kind = "LendingPoolAddressesProvider" =>
            \A i \in {"PoolAdmin", "LendingRateOracle"} : contracts'[a].ref[i] = contracts[a].ref[i]
    BY <1>12, <1>16
  <2> QED BY <1>1, <1>2, <1>12, <1>14, <1>17, <2>1, <2>2, MarketsKept
<1>19. \A s \in Done : Holds(s)'
    BY <1>1, <1>2, <1>14, <1>16, <1>17, DoneHolds, OwnersKept
<1>20. SameEntry("LendingPoolAddressesProvider")
    BY <1>1, <1>5 DEF ProviderOK, SameEntry
<1>21. AdminRead'
    BY <1>1, <1>2, <1>14, <1>20, AdminReadKept DEF ProcessOK
<1>22. Created(id)'
  <2>1. ProviderOK' /\ Provider' = p
    BY <1>1, <1>2, <1>5, <1>14, <1>20, KeptProvider
  <2>2. New(n)' /\ contracts'[p].ref[id] = n
    BY <1>1, <1>2, <1>4, <1>7, <1>10, <1>11, <1>12, <1>13 DEF New, SameProcess, AddressesOK
  <2>3. ASSUME id = "LendingPoolConfigurator" PROVE IsWired(n)'
    <3>1. Created("LendingPool")
      BY <1>1, <2>3, StepOrder, WhatIsDone
    <3>2. New(pool)
      BY <3>1 DEF Created
    <3>3. New(pool)'
      BY <1>1, <1>2, <1>14, <3>2, GentleAddresses
    <3> QED BY <1>6, <1>12, <2>2, <2>3, <3>3 DEF IsWired, PoolOf, New
  <2> QED BY <1>4, <2>1, <2>2, <2>3 DEF Created, IsWired, New, PoolOf
<1>23. \A s : s = step => Holds(s)'
    BY <1>1, <1>22 DEF Holds
<1>24. IInv'
    BY <1>1, ScriptPreserves DEF MInv
<1> QED BY <1>1, <1>2, <1>14, <1>15, <1>18, <1>19, <1>21, <1>23, <1>24, Assemble

\* The proxy and the gateway that are saved are this job's.
LEMMA AddressesSaved ==
    ASSUME MInv, Insert \/ EditGateway
    PROVE  MInv' /\ Untouched
<1>1. AtStep /\ ~Throws /\ Proceed /\ UNCHANGED contracts /\ step.op \in {"Insert", "EditGateway"} /\ RunOK
      /\ ScriptStep /\ Active /\ AddressesOK /\ ProcessOK /\ MarketsFit
    BY DEF Insert, EditGateway, Takes, MInv, IInv, ScriptStep, AtStep, Active
<1>2. Continues /\ run'.admin = run.admin /\ SameProcess /\ run'.pc = run.pc + 1
    BY <1>1, Proceeds DEF Continues, SameProcess
<1>3. AllSame /\ Gentle /\ Untouched /\ IInv'
    BY <1>1, ScriptPreserves, SameIsGentle DEF MInv, AllSame, Untouched
<1>4. MarketsFit'
    BY <1>1, <1>2, <1>3, MarketsKept DEF AllSame
<1> PICK id : id = step.id
    OBVIOUS
<1>5. \/ /\ step.op = "Insert" /\ id \in ProxyIds /\ Created(id) /\ UNCHANGED gateway
         /\ db' = Extend(db, id, contracts[Provider].ref[id])
      \/ /\ step.op = "EditGateway" /\ Deployed("WETHGateway") /\ UNCHANGED db
         /\ gateway' = db["WETHGateway"]
    BY <1>1, StepOrder, WhatIsDone DEF Insert, EditGateway, Takes
<1>6. \A i \in DOMAIN db : (i \notin ProxyIds \/ step.op # "Insert" \/ i # id) => SameEntry(i)
    BY <1>5 DEF SameEntry, Extend
<1>7. SameEntry("LendingPoolAddressesProvider") \/ ~ProviderOK
    BY <1>6 DEF ProviderOK, ProxyIds
<1>8. \A s : s = step => Holds(s)'
  <2>1. CASE step.op = "Insert"
    <3> PICK a : a = contracts[Provider].ref[id]
      OBVIOUS
    <3>1. New(a) /\ (id = "LendingPoolConfigurator" => IsWired(a))
      BY <1>5, <2>1 DEF Created
    <3>2. New(a)' /\ (id = "LendingPoolConfigurator" => IsWired(a)')
      BY <1>1, <1>2, <1>3, <3>1, GentleAddresses, GentleWired
    <3>3. id \in DOMAIN db' /\ db'[id] = a
      BY <1>5, <2>1 DEF Extend
    <3>4. Inserted(id)'
      BY <1>5, <2>1, <3>2, <3>3 DEF Inserted, New, IsWired, PoolOf
    <3> QED BY <2>1, <3>4 DEF Holds
  <2>2. CASE step.op = "EditGateway"
    <3> PICK g : g = gateway'
      OBVIOUS
    <3>1. New(g)
      BY <1>5, <2>2 DEF Deployed, ProxyIds
    <3>2. New(g)'
      BY <1>1, <1>2, <1>3, <3>1, GentleAddresses
    <3> QED BY <2>2, <3>2 DEF Holds, New
  <2> QED BY <1>1, <2>1, <2>2
<1>9. ASSUME NEW s \in Done PROVE Holds(s)'
  <2>1. Holds(s)
    BY <1>1 DEF ProcessOK
  <2>2. CASE s.op = step.op /\ (s.op = "Insert" => s.id = id)
    <3>1. s.op = "Insert" => Inserted(id)'
      BY <1>8, <2>2 DEF Holds
    <3>2. s.op = "EditGateway" => New(gateway)'
      BY <1>8, <2>2 DEF Holds
    <3> QED BY <1>1, <2>2, <3>1, <3>2 DEF Holds
  <2>3. CASE ~(s.op = step.op /\ (s.op = "Insert" => s.id = id))
    <3>1. s.op = "Deploy" /\ s.id \notin ProxyIds => SameEntry(s.id)
      BY <1>6, <2>1 DEF Holds, Deployed
    <3>2. s.op = "Insert" => SameEntry(s.id)
      BY <1>6, <2>1, <2>3 DEF Holds, Inserted
    <3>3. s.op = "EditGateway" => gateway' = gateway
      BY <1>5, <2>3
    <3>4. ASSUME s.op = "Deploy", s.id = "LendingRateOracle"
          PROVE  OwnerFits(contracts[RateOracle].owner, job.signer)'
      <4>1. Deployed("LendingRateOracle") /\ SameEntry("LendingRateOracle")
        BY <2>1, <3>1, <3>4 DEF Holds, ProxyIds
      <4> QED BY <1>1, <1>2, <1>3, <4>1, RateOwnerKept
    <3>5. NoHelperYet' <=> NoHelperYet
      BY <1>1, <1>2, InTaskGrows
    <3> QED BY <1>1, <1>2, <1>3, <1>7, <2>1, <3>1, <3>2, <3>3, <3>4, <3>5, HoldsKept
  <2> QED BY <2>2, <2>3
<1>10. AdminRead'
    BY <1>1, <1>2, <1>3, <1>7, AdminReadKept DEF ProcessOK, AdminRead
<1> QED BY <1>1, <1>2, <1>3, <1>4, <1>8, <1>9, <1>10, Assemble
-----------------------------------------------------------------------------
\* Between the steps: tasks that end, and what the operator does.
LEMMA ScriptPart ==
    ASSUME MInv, ScriptStep
    PROVE  (MInv' /\ Untouched) \/ NextTask
BY ContractDeployed, AddressSet, ProxyCreated, AddressesSaved, AdminIsRead, AdminLent, OracleTransactions,
   SharedTransactions, PoolTransactions, ReservesConfigured, Reads DEF ScriptStep

LEMMA LaterTasks ==
    ASSUME RunOK, Active, run'.jobs = run.jobs, run'.task = run.task \/ run'.task = run.task + 1
    PROVE  NoHelperYet' => NoHelperYet
<1>1. job' = job /\ run.task \in Nat \ {0}
    BY Position DEF job
<1> DEFINE t == run.task + 1
<1>2. t \in Nat /\ (\A i : i \in 1..(t - 1) => i \in 1..(t + 1 - 1)) /\ \A i : i \notin 1..(1 - 1)
    BY <1>1
<1>3. job.tasks = job'.tasks /\ (run'.task + 1 = t \/ run'.task + 1 = t + 1)
    BY <1>1
<1> HIDE DEF t
<1>4. ASSUME NEW s \in Earlier(job.tasks, t, 1)
      PROVE  s \in Earlier(job.tasks, t + 1, 1)
    BY <1>2, <1>4, EarlierMember
<1> QED BY <1>1, <1>3, <1>4 DEF NoHelperYet, Have, t

\* A process that goes on, at the same step or in another task, with part of what was done.
LEMMA ProcessGoesOn ==
    ASSUME MInv, RunOK', Active, Active', UNCHANGED <<contracts, db, gateway>>, IInv',
           run'.jobs = run.jobs, run'.before = run.before, Done' \subseteq Done,
           run'.task = run.task \/ run'.task = run.task + 1,
           \/ run'.pc = 1 /\ run'.admin = NoAddress
           \/ run'.task = run.task /\ run'.pc = run.pc /\ run'.admin = run.admin /\ Done' = Done
    PROVE  MInv' /\ Untouched
<1>1. SameProcess /\ AllSame /\ Gentle /\ Untouched /\ AddressesOK /\ ProcessOK /\ MarketsFit
    BY SameIsGentle DEF SameProcess, AllSame, Untouched, MInv
<1>2. AddressesOK' /\ MarketsFit' /\ OwnersOK'
    BY <1>1, GentleAddresses, GentleOwners, MarketsKept DEF AllSame, ProcessOK
<1>3. NoHelperYet' => NoHelperYet
    BY LaterTasks DEF MInv, IInv
<1>4. ASSUME NEW s \in Done PROVE Holds(s)'
  <2>1. Holds(s)
    BY <1>1 DEF ProcessOK
  <2>2. s.op = "Deploy" /\ s.id = "LendingRateOracle" => OwnerFits(contracts[RateOracle].owner, job.signer)'
    BY <1>1, <2>1, OwnersKept DEF Holds, AllSame
  <2>3. /\ s.op = "Deploy" /\ s.id \notin ProxyIds => SameEntry(s.id)
        /\ s.op = "Insert" => SameEntry(s.id)
        /\ ProviderOK => SameEntry("LendingPoolAddressesProvider")
    BY <2>1 DEF Holds, Deployed, Inserted, ProviderOK, SameEntry
  <2>4. gateway' = gateway /\ contracts'[Provider].ref["PoolAdmin"] = contracts[Provider].ref["PoolAdmin"]
    OBVIOUS
  <2> QED BY <1>1, <1>3, <2>1, <2>2, <2>3, <2>4, HoldsKept
<1>5. AdminRead'
  <2>1. CASE run'.pc = 1 /\ run'.admin = NoAddress
    <3>1. ~Have(InTask, "ReadAdmin")'
      BY <2>1, Started1 DEF Have
    <3> QED BY <2>1, <3>1 DEF AdminRead
  <2>2. CASE run'.task = run.task /\ run'.pc = run.pc /\ run'.admin = run.admin /\ Done' = Done
    <3>1. job' = job /\ task' = task
      BY <2>2 DEF job, task
    <3>2. InTask' = InTask /\ (NoHelperYet' <=> NoHelperYet) /\ Provider' = Provider
      BY <2>2, <3>1 DEF InTask, NoHelperYet, Provider
    <3>3. \A p, a : AdminFits(p, a)' <=> AdminFits(p, a)
      BY DEF AdminFits, Known, External, ConfiguredRegistries
    <3>4. ProviderOK' <=> ProviderOK
      BY <3>2 DEF ProviderOK, New
    <3>5. AdminRead
      BY <1>1 DEF ProcessOK
    <3>6. ASSUME run.admin # NoAddress
          PROVE  AdminFits(Provider, run.admin)'
      <4> PICK p : p = Provider
        OBVIOUS
      <4> PICK a : a = run.admin
        OBVIOUS
      <4>1. AdminFits(p, a)'
        BY <3>3, <3>5, <3>6 DEF AdminRead
      <4> QED BY <2>2, <3>2, <4>1 DEF AdminFits, Known
    <3> QED BY <2>2, <3>2, <3>4, <3>5, <3>6 DEF AdminRead, Have
  <2> QED BY <2>1, <2>2
<1>6. ProcessOK'
    BY <1>2, <1>4, <1>5 DEF ProcessOK
<1> QED BY <1>1, <1>2, <1>6 DEF MInv

\* What was there before a script is started is not this job's.
LEMMA StartsAnew ==
    ASSUME MInv, StartOver
    PROVE  MInv' /\ Untouched
<1>1. /\ RunOK' /\ Active' /\ Done' = {} /\ run'.jobs = run.jobs /\ run'.before = DOMAIN contracts
      /\ run'.pc = 1 /\ run'.admin = NoAddress
    BY StartedOver DEF MInv, IInv
<1>2. UNCHANGED <<contracts, db, gateway>> /\ IInv'
    BY OperatorPreserves DEF StartOver, MInv
<1>3. AddressesOK'
    BY <1>1, <1>2 DEF MInv, AddressesOK
<1>4. \A a : ~New(a)'
    BY <1>1, <1>2 DEF New
<1>5. ASSUME NEW p \in DOMAIN contracts, contracts[p].kind = "LendingPoolAddressesProvider"
      PROVE  MarketFits(p)'
  <2>1. MarketFits(p)
    BY <1>5 DEF MInv, MarketsFit
  <2> QED BY <1>2, <1>4, <2>1 DEF MarketFits, AdminFits, RatesFit, OwnerFits, Known, New, External, ConfiguredRegistries
<1>6. MarketsFit'
    BY <1>2, <1>5 DEF MarketsFit
<1>7. ProcessOK'
  <2>1. ~Have(InTask, "ReadAdmin")'
    BY <1>1, Started1 DEF Have
  <2>2. OwnersOK'
    BY <1>4 DEF OwnersOK
  <2> QED BY <1>1, <2>1, <2>2 DEF ProcessOK, AdminRead
<1> QED BY <1>2, <1>3, <1>6, <1>7 DEF MInv, Untouched

\* The next market: nothing of it is there yet.
LEMMA GoesToNextMarket ==
    ASSUME MInv, NextMarket
    PROVE  MInv' /\ Untouched
<1>1. RunOK' /\ ~Active' /\ run'.before = run.before
    BY NextStarts DEF MInv, IInv
<1>2. UNCHANGED <<contracts, db, gateway>> /\ IInv'
    BY OperatorPreserves DEF NextMarket, MInv
<1>3. AddressesOK' /\ MarketsFit'
  <2>1. AddressesOK'
    BY <1>1, <1>2 DEF MInv, AddressesOK
  <2>2. ASSUME NEW p \in DOMAIN contracts, contracts[p].kind = "LendingPoolAddressesProvider"
        PROVE  MarketFits(p)'
    <3>1. MarketFits(p)
      BY <2>2 DEF MInv, MarketsFit
    <3> QED BY <1>1, <1>2, <3>1 DEF MarketFits, AdminFits, RatesFit, OwnerFits, Known, New, External, ConfiguredRegistries
  <2> QED BY <1>2, <2>1, <2>2 DEF MarketsFit
<1> QED BY <1>1, <1>2, <1>3 DEF MInv, Untouched

LEMMA OperatorPart ==
    ASSUME MInv, NextTask \/ Stop \/ StartOver \/ Resume \/ NextMarket
    PROVE  MInv' /\ Untouched
<1>1. RunOK /\ IInv
    BY DEF MInv, IInv
<1>2. CASE NextTask
  <2>1. UNCHANGED <<contracts, db, gateway>> /\ IInv'
    BY <1>1, <1>2, ScriptPreserves DEF NextTask, ScriptStep
  <2> QED BY <1>1, <1>2, <2>1, TaskEnds, ProcessGoesOn
<1>3. CASE Stop
  <2>1. UNCHANGED <<contracts, db, gateway>> /\ IInv'
    BY <1>1, <1>3, OperatorPreserves DEF Stop
  <2> QED BY <1>1, <1>3, <2>1, Stopped, ProcessGoesOn
<1>4. CASE Resume
  <2>1. UNCHANGED <<contracts, db, gateway>> /\ IInv'
    BY <1>1, <1>4, OperatorPreserves DEF Resume
  <2> QED BY <1>1, <1>4, <2>1, Resumed, ProcessGoesOn
<1> QED BY <1>2, <1>3, <1>4, StartsAnew, GoesToNextMarket

LEMMA InitMInv ==
    ASSUME Init
    PROVE  MInv
<1>1. /\ DOMAIN contracts = ConfiguredRegistries /\ run.before = {} /\ ~Active
      /\ \A a \in DOMAIN contracts : contracts[a].kind = "LendingPoolAddressesProviderRegistry"
    BY DEF Init, Contract, Active
<1>2. AddressesOK /\ MarketsFit
    BY <1>1 DEF AddressesOK, MarketsFit
<1> QED BY <1>1, <1>2, InitIInv DEF MInv

LEMMA StepMInv ==
    ASSUME MInv, [Next]_vars
    PROVE  MInv' /\ [Untouched]_vars
<1>1. CASE UNCHANGED vars
  <2>1. IInv' /\ SameProcess /\ (Active' <=> Active)
    BY <1>1, StepIInv DEF MInv, vars, SameProcess, Active
  <2>2. CASE Active
    <3>1. Done' = Done /\ RunOK'
      BY <1>1, <2>1 DEF vars, Done, job, IInv
    <3> QED BY <1>1, <2>1, <2>2, <3>1, ProcessGoesOn DEF vars
  <2>3. CASE ~Active
    <3>1. AllSame /\ Gentle /\ AddressesOK /\ MarketsFit
      BY <1>1, SameIsGentle DEF vars, AllSame, MInv
    <3>2. AddressesOK' /\ MarketsFit'
      BY <2>1, <3>1, GentleAddresses, MarketsKept DEF AllSame
    <3> QED BY <1>1, <2>1, <2>3, <3>2 DEF MInv
  <2> QED BY <2>2, <2>3
<1>2. CASE Next
    BY <1>2, ScriptPart, OperatorPart DEF Next
<1> QED BY <1>1, <1>2

\* The markets of the network, in the words of the property.
LEMMA FitMarketsBelong ==
    ASSUME MInv
    PROVE  AdministratorsBelongToTheMarket
<1>1. ASSUME NEW p \in Markets
      PROVE  MarketFits(p)
    BY <1>1 DEF Markets, OfKind, MInv, MarketsFit
<1> QED BY <1>1 DEF AdministratorsBelongToTheMarket, Provided, OfKind, Markets, MarketFits, AdminFits, RatesFit,
           OwnerFits

\* For all scripts in which what a step writes to comes from an earlier step of the same
\* job, all scenarios and any number of starts: a deployment, stopped, reverted, resumed or
\* started over at any point, writes to no contract that was there before it, but for the
\* registry that markets share.
THEOREM DeploymentLeavesEarlierAlone == Spec => EarlierContractsUntouched
<1>1. Init => MInv
    BY InitMInv
<1>2. MInv /\ [Next]_vars => MInv' /\ [Untouched]_vars
    BY StepMInv
<1>3. [Untouched]_vars =>
          [\A a \in run.before :
              contracts[a].kind # "LendingPoolAddressesProviderRegistry" => contracts'[a] = contracts[a]]_vars
    BY DEF Untouched
<1> QED BY <1>1, <1>2, <1>3, PTL DEF Spec, EarlierContractsUntouched

\* For the same scripts, at every moment: a market is administered by no contract, but for
\* the helper of that very market, whose orders come from the market's owner; and its rate
\* oracle is owned by no contract, but for the rates helper of the same owner.
THEOREM MarketsAreTheirOwners == Spec => []AdministratorsBelongToTheMarket
<1>1. Init => MInv
    BY InitMInv
<1>2. MInv /\ [Next]_vars => MInv'
    BY StepMInv
<1>3. MInv => AdministratorsBelongToTheMarket
    BY FitMarketsBelong
<1> QED BY <1>1, <1>2, <1>3, PTL DEF Spec
=============================================================================
