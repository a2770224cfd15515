--------------------------- MODULE ParallelScanProof ---------------------------
(***************************************************************************)
(* For every matcher layout and every interleaving: the thread outcomes     *)
(* alone decide how a scan ends, no callback precedes a failure, no thread  *)
(* is left running, no more scans run at once than were asked for, and the  *)
(* sink is called as the abstract delivery promises.                        *)
(***************************************************************************)
EXTENDS ParallelScan, InductionLemmas, FiniteSetTheorems

-----------------------------------------------------------------------------
(* The groups of a layout. *)

Workers == (First + 1)..(Limit - 1)

\* The partitions of a group: never empty, within the matcher, and no more of them than
\* workers were asked for.
LEMMA GroupShape ==
    ASSUME layout \in Layouts, group \in 1..Groups
    PROVE  /\ layout.partitions \in Nat /\ layout.partitions > 1
           /\ First \in Nat /\ Limit \in Nat /\ First < Limit /\ Limit <= layout.partitions
           /\ First \in Partitions /\ Workers \subseteq Partitions
           /\ Groups \in {1, 2}
           /\ group < Groups => group = 1 /\ Groups = 2 /\ Limit = layout.split
           /\ group = Groups => Limit = layout.partitions
           /\ Limit - First <= layout.worker_count
           /\ layout.worker_count \in Nat
           /\ PlanCount \in Nat \ {0}
BY LayoutsAssumption DEF Groups, First, Limit, Sequential, Partitions, Workers, PlanCount

\* A step that stays in its group keeps the group's partitions.
LEMMA SameGroup ==
    ASSUME layout' = layout, group' = group
    PROVE  /\ First' = First /\ Limit' = Limit /\ Partitions' = Partitions
           /\ Workers' = Workers /\ Groups' = Groups /\ PlanCount' = PlanCount
BY DEF First, Limit, Partitions, Workers, Groups, PlanCount, Sequential

-----------------------------------------------------------------------------
(* The inductive invariant. *)

Started(p) == threads[p] \in Outcome \cup {"running"}
NoErrors == spawn_error = None /\ scan_error = None /\ worker_panic = None

\* Partitions of an earlier group are done; those of a later one are untouched.
OtherGroups ==
    /\ \A p \in Partitions : p < First => threads[p] = "output" /\ p \in outputs
    /\ \A p \in Partitions : p >= Limit => threads[p] = "idle" /\ p \notin outputs

NothingStored == \A p \in Partitions : p >= First => p \notin outputs

PlanInv ==
    phase = "plan" =>
        /\ NoErrors /\ NothingStored
        /\ plans < PlanCount
        /\ \A p \in Partitions : p >= First => threads[p] = "idle"

SpawnInv ==
    phase = "spawn" =>
        /\ NoErrors /\ NothingStored
        /\ next \in (First + 1)..Limit
        /\ threads[First] = "idle"
        /\ \A p \in Workers : IF p < next THEN Started(p) ELSE threads[p] = "idle"

ScanInv ==
    phase = "scan" =>
        /\ NoErrors /\ NothingStored
        /\ spawned = Limit
        /\ threads[First] = "running"
        /\ \A p \in Workers : Started(p)

\* e is the first partition joined so far whose scan ended with status.
IsFirst(e, status) ==
    IF e = None
    THEN \A p \in Partitions : p < next => threads[p] # status
    ELSE /\ e \in Partitions /\ e < next /\ threads[e] = status
         /\ \A p \in Partitions : p < next /\ threads[p] = status => e <= p

JoinInv ==
    phase = "join" =>
        /\ spawned \in (First + 1)..Limit
        /\ next \in (First + 1)..spawned
        /\ \A p \in Workers :
             /\ p < spawned => Started(p)
             /\ p = spawned => threads[p] = "refused"
             /\ p > spawned => threads[p] = "idle"
             /\ p < next => threads[p] \in Outcome
        /\ IF spawn_error = None
           THEN spawned = Limit /\ threads[First] \in {"output", "error"}
           ELSE spawn_error = spawned /\ spawned < Limit /\ threads[First] = "idle"
        /\ \A p \in Partitions : p >= First =>
             (p \in outputs <=> p < next /\ threads[p] = "output")
        /\ IsFirst(scan_error, "error")
        /\ IsFirst(worker_panic, "panic")

UnwindInv ==
    phase = "unwind" =>
        \/ threads[First] = "panic" /\ result = Panicked(First)
        \/ threads[First] # "panic" /\ Running = {} /\ result = Verdict

AllOutput == \A p \in Partitions : threads[p] = "output"

DeliverInv == phase = "deliver" => AllOutput

EndInv ==
    Ended =>
        /\ Running = {}
        /\ result.kind \in {"plan error", "plan panic", "sink panic"} \/ result = Verdict

IInv ==
    /\ TypeOK /\ OtherGroups
    /\ PlanInv /\ SpawnInv /\ ScanInv /\ JoinInv /\ UnwindInv /\ DeliverInv /\ EndInv
    /\ CallbacksComeLast
    /\ phase \in {"plan", "spawn", "scan", "join", "unwind"} => delivered = <<>>

-----------------------------------------------------------------------------
(* What the joins found is what happened. *)

\* The least element of a set of partitions is its Earliest.
LEMMA EarliestIs ==
    ASSUME NEW S, S \subseteq Int, NEW e \in S, \A p \in S : e <= p
    PROVE  Earliest(S) = e
<1>1. Earliest(S) \in S /\ \A q \in S : Earliest(S) <= q
    BY DEF Earliest
<1>2. Earliest(S) \in Int /\ e \in Int /\ Earliest(S) <= e /\ e <= Earliest(S)
    BY <1>1
<1>3. \A i, j \in Int : i <= j /\ j <= i => i = j
    OBVIOUS
<1>4. QED
    BY <1>2, <1>3

\* Once the joins are over the caller's three variables say what happened to the threads.
LEMMA JoinedFacts ==
    ASSUME IInv, Joined
    PROVE  /\ Running = {} /\ threads[First] # "panic"
           /\ next = spawned
           /\ worker_panic = None => With("panic") = {}
           /\ worker_panic # None => With("panic") # {} /\ Earliest(With("panic")) = worker_panic
           /\ spawn_error = None => With("refused") = {}
           /\ spawn_error # None => With("refused") # {} /\ Earliest(With("refused")) = spawn_error
           /\ scan_error = None => With("error") = {}
           /\ scan_error # None => With("error") # {} /\ Earliest(With("error")) = scan_error
<1>1. /\ layout \in Layouts /\ group \in 1..Groups /\ phase = "join"
      /\ JoinInv /\ OtherGroups /\ TypeOK
    BY DEF IInv, TypeOK, Joined
<1>2. /\ First \in Nat /\ Limit \in Nat /\ First < Limit /\ Limit <= layout.partitions
      /\ layout.partitions \in Nat /\ First \in Partitions /\ Workers \subseteq Partitions
    BY <1>1, GroupShape
<1>3. /\ spawned \in (First + 1)..Limit /\ next = spawned
    BY <1>1, <1>2 DEF JoinInv, Joined
<1>4. \A p \in Partitions : p < First \/ p = First \/ p \in Workers \/ p >= Limit
    BY <1>2 DEF Partitions, Workers
<1>5. \A p \in Partitions :
         /\ p < First => threads[p] = "output"
         /\ p = First => threads[p] \in {"output", "error", "idle"}
         /\ p \in Workers /\ p < spawned => threads[p] \in Outcome
         /\ p \in Workers /\ p = spawned => threads[p] = "refused"
         /\ p \in Workers /\ p > spawned => threads[p] = "idle"
         /\ p >= Limit => threads[p] = "idle"
    BY <1>1, <1>2, <1>3 DEF JoinInv, OtherGroups
<1>6. \A p \in Partitions :
         /\ threads[p] # "running"
         /\ threads[p] = "panic" => p < next
         /\ threads[p] = "error" => p < next
         /\ threads[p] = "refused" => p = spawned /\ p < Limit
    BY <1>2, <1>3, <1>4, <1>5 DEF Outcome, Partitions
<1>7. Running = {} /\ threads[First] # "panic"
    BY <1>2, <1>5, <1>6 DEF Running
<1>8. ASSUME NEW status \in {"error", "panic"}, NEW e, IsFirst(e, status)
      PROVE  /\ e = None => With(status) = {}
             /\ e # None => With(status) # {} /\ Earliest(With(status)) = e
    <2>1. CASE e = None
        BY <1>6, <1>8, <2>1 DEF IsFirst, With
    <2>2. CASE e # None
        <3>1. /\ e \in With(status) /\ With(status) \subseteq Int
              /\ \A p \in With(status) : e <= p
            BY <1>6, <1>8, <2>2 DEF IsFirst, With, Partitions
        <3>2. Earliest(With(status)) = e
            BY <3>1, EarliestIs
        <3>3. QED
            BY <2>2, <3>1, <3>2
    <2>3. QED
        BY <2>1, <2>2
<1>9. /\ scan_error = None => With("error") = {}
      /\ scan_error # None => With("error") # {} /\ Earliest(With("error")) = scan_error
    BY <1>1, <1>8 DEF JoinInv
<1>10. /\ worker_panic = None => With("panic") = {}
       /\ worker_panic # None => With("panic") # {} /\ Earliest(With("panic")) = worker_panic
    BY <1>1, <1>8 DEF JoinInv
<1>11. spawn_error = None => With("refused") = {}
    BY <1>1, <1>6 DEF JoinInv, With
<1>12. ASSUME spawn_error # None
       PROVE  With("refused") # {} /\ Earliest(With("refused")) = spawn_error
    <2>1. spawn_error = spawned /\ spawned < Limit
        BY <1>1, <1>12 DEF JoinInv
    <2>2. spawned \in Workers /\ spawned \in Partitions
        BY <1>2, <1>3, <2>1 DEF Workers, Partitions
    <2>3. /\ spawn_error \in With("refused") /\ With("refused") \subseteq Int
          /\ \A p \in With("refused") : spawn_error <= p
        BY <1>3, <1>5, <1>6, <2>1, <2>2 DEF With, Partitions
    <2>4. Earliest(With("refused")) = spawn_error
        BY <2>3, EarliestIs
    <2>5. QED
        BY <2>3, <2>4
<1>13. QED
    BY <1>3, <1>7, <1>9, <1>10, <1>11, <1>12

\* A group without errors has all its outputs: the expect holds.
LEMMA SucceededFacts ==
    ASSUME IInv, Succeeded
    PROVE  /\ \A p \in Partitions : p < Limit => threads[p] = "output" /\ p \in outputs
           /\ First..(Limit - 1) \subseteq outputs
<1>1. /\ layout \in Layouts /\ group \in 1..Groups /\ phase = "join"
      /\ JoinInv /\ OtherGroups /\ TypeOK /\ Joined
      /\ spawn_error = None /\ scan_error = None /\ worker_panic = None
    BY DEF IInv, TypeOK, Joined, Succeeded
<1>2. /\ First \in Nat /\ Limit \in Nat /\ First < Limit /\ Limit <= layout.partitions
      /\ layout.partitions \in Nat /\ First \in Partitions /\ Workers \subseteq Partitions
    BY <1>1, GroupShape
<1>3. spawned = Limit /\ next = Limit /\ threads[First] \in {"output", "error"}
    BY <1>1, <1>2, JoinedFacts DEF JoinInv
<1>4. With("error") = {} /\ With("panic") = {}
    BY <1>1, JoinedFacts
<1>5. \A p \in Partitions : threads[p] \notin {"error", "panic"}
    BY <1>4 DEF With
<1>6. ASSUME NEW p \in Partitions, p < Limit
      PROVE  threads[p] = "output" /\ p \in outputs
    <2>1. CASE p < First
        BY <1>1, <2>1 DEF OtherGroups
    <2>2. CASE p = First
        BY <1>1, <1>2, <1>3, <1>5, <2>2 DEF JoinInv
    <2>3. CASE p > First
        <3>1. p \in Workers
            BY <1>2, <1>6, <2>3 DEF Workers, Partitions
        <3>2. threads[p] \in Outcome
            BY <1>1, <1>3, <1>6, <3>1 DEF JoinInv
        <3>3. threads[p] = "output"
            BY <1>5, <3>2 DEF Outcome
        <3>4. QED
            BY <1>1, <1>2, <1>3, <1>6, <2>3, <3>3 DEF JoinInv, Partitions
    <2>4. QED
        BY <1>2, <2>1, <2>2, <2>3 DEF Partitions
<1>7. First..(Limit - 1) \subseteq outputs
    BY <1>2, <1>6 DEF Partitions
<1>8. QED
    BY <1>6, <1>7

-----------------------------------------------------------------------------
(* Init and every action. *)

\* A call starts with no thread and nothing delivered.
LEMMA InitIInv == Init => IInv
<1> SUFFICES ASSUME Init PROVE IInv
    OBVIOUS
<1>1. /\ layout \in Layouts /\ group \in 1..Groups /\ group = 1
    BY DEF Init, Groups
<1>2. /\ layout.partitions \in Nat /\ layout.partitions > 1 /\ PlanCount \in Nat \ {0}
      /\ First = 0 /\ Limit \in Nat
    BY <1>1, GroupShape DEF First
<1>3. TypeOK
    BY <1>1, <1>2 DEF Init, TypeOK, Pending, Without, None, Partitions
<1>4. OtherGroups /\ PlanInv
    BY <1>2 DEF Init, OtherGroups, PlanInv, NoErrors, NothingStored, Partitions
<1>5. /\ SpawnInv /\ ScanInv /\ JoinInv /\ UnwindInv /\ DeliverInv /\ EndInv
      /\ CallbacksComeLast /\ delivered = <<>>
    BY DEF Init, SpawnInv, ScanInv, JoinInv, UnwindInv, DeliverInv, EndInv, Ended,
           CallbacksComeLast
<1>6. QED
    BY <1>3, <1>4, <1>5 DEF IInv

\* The facts every step below starts from.
LEMMA Setting ==
    ASSUME IInv
    PROVE  /\ layout \in Layouts /\ group \in 1..Groups /\ TypeOK /\ OtherGroups
           /\ PlanCount \in Nat \ {0}
           /\ layout.partitions \in Nat /\ layout.partitions > 1
           /\ First \in Nat /\ Limit \in Nat /\ First < Limit /\ Limit <= layout.partitions
           /\ First + 1 \in 0..layout.partitions /\ Limit \in 1..layout.partitions
           /\ First \in Partitions /\ Workers \subseteq Partitions
           /\ \A p \in Partitions : p < First \/ p = First \/ p \in Workers \/ p >= Limit
           /\ Partitions \subseteq Nat
           /\ threads \in [Partitions -> Outcome \cup {"idle", "refused", "running"}]
           /\ outputs \subseteq Partitions
<1>1. layout \in Layouts /\ group \in 1..Groups /\ TypeOK /\ OtherGroups
    BY DEF IInv, TypeOK
<1>2. /\ layout.partitions \in Nat /\ layout.partitions > 1
      /\ First \in Nat /\ Limit \in Nat /\ First < Limit /\ Limit <= layout.partitions
      /\ First \in Partitions /\ Workers \subseteq Partitions /\ PlanCount \in Nat \ {0}
    BY <1>1, GroupShape
<1>3. /\ Partitions \subseteq Nat
      /\ \A p \in Partitions : p < First \/ p = First \/ p \in Workers \/ p >= Limit
    BY <1>2 DEF Partitions, Workers
<1>4. /\ threads \in [Partitions -> Outcome \cup {"idle", "refused", "running"}]
      /\ outputs \subseteq Partitions
    BY <1>1 DEF TypeOK
<1>5. First + 1 \in 0..layout.partitions /\ Limit \in 1..layout.partitions
    BY <1>2
<1>6. QED
    BY <1>1, <1>2, <1>3, <1>4, <1>5

\* Computing a plan keeps the invariant.
LEMMA PlanStep ==
    ASSUME IInv, Plan
    PROVE  IInv'
<1>1. /\ layout' = layout /\ group' = group /\ threads' = threads
      /\ spawned' = spawned /\ spawn_error' = spawn_error
      /\ scan_error' = scan_error /\ worker_panic' = worker_panic
      /\ outputs' = outputs /\ event' = event /\ delivered' = delivered
      /\ result' = result /\ phase = "plan" /\ plans' = plans + 1
      /\ \/ plans' = PlanCount /\ phase' = "spawn" /\ next' = First + 1
         \/ plans' # PlanCount /\ phase' = "plan" /\ next' = next
    BY DEF Plan, errorVars, deliverVars
<1>2. /\ First' = First /\ Limit' = Limit /\ Partitions' = Partitions
      /\ Workers' = Workers /\ Groups' = Groups /\ PlanCount' = PlanCount
    BY <1>1, SameGroup
<1>3. /\ NoErrors /\ NothingStored /\ delivered = <<>> /\ plans < PlanCount
      /\ \A p \in Partitions : p >= First => threads[p] = "idle"
    BY <1>1 DEF IInv, PlanInv
<1>4. PlanCount \in Nat \ {0} /\ plans' \in 0..PlanCount
      /\ (phase' = "plan" => plans' < PlanCount)
    <2>1. PlanCount \in Nat \ {0} /\ plans \in 0..PlanCount
        BY Setting DEF TypeOK
    <2>2. QED
        BY <1>1, <1>3, <2>1
<1>5. TypeOK'
    <2>1. TypeOK /\ First + 1 \in 0..layout.partitions
        BY Setting
    <2>2. next' \in 0..layout.partitions
        BY <1>1, <2>1 DEF TypeOK
    <2>3. QED
        BY <1>1, <1>2, <1>4, <2>1, <2>2 DEF TypeOK
<1>6. OtherGroups'
    BY <1>1, <1>2, Setting DEF OtherGroups
<1>7. PlanInv'
    BY <1>1, <1>2, <1>3, <1>4 DEF PlanInv, NoErrors, NothingStored
<1>8. SpawnInv'
    <2>1. \A p \in Workers : p >= First /\ ~ (p < First + 1) /\ p \in Partitions
        BY Setting DEF Workers
    <2>2. QED
        BY <1>1, <1>2, <1>3, <2>1, Setting DEF SpawnInv, NoErrors, NothingStored
<1>9. QED
    BY <1>1, <1>3, <1>5, <1>6, <1>7, <1>8
       DEF IInv, ScanInv, JoinInv, UnwindInv, DeliverInv, EndInv, Ended, CallbacksComeLast

\* A failed plan ends the call before any worker of the group started.
LEMMA PlanFailsStep ==
    ASSUME IInv, PlanFails
    PROVE  IInv'
<1>1. /\ layout' = layout /\ group' = group /\ plans' = plans /\ threads' = threads
      /\ next' = next /\ spawned' = spawned /\ spawn_error' = spawn_error
      /\ scan_error' = scan_error /\ worker_panic' = worker_panic
      /\ outputs' = outputs /\ event' = event /\ delivered' = delivered
      /\ phase = "plan"
      /\ \/ phase' = "returned" /\ result' = Without("plan error")
         \/ phase' = "panicked" /\ result' = Without("plan panic")
    BY DEF PlanFails, errorVars, deliverVars, loopVars
<1>2. /\ First' = First /\ Limit' = Limit /\ Partitions' = Partitions
      /\ Workers' = Workers /\ Groups' = Groups /\ PlanCount' = PlanCount
    BY <1>1, SameGroup
<1>3. /\ \A p \in Partitions : threads[p] # "running"
      /\ delivered = <<>>
    <2>1. /\ \A p \in Partitions : p >= First => threads[p] = "idle"
          /\ delivered = <<>>
        BY <1>1 DEF IInv, PlanInv
    <2>2. \A p \in Partitions : p < First => threads[p] = "output"
        BY Setting DEF OtherGroups
    <2>3. \A p \in Partitions : p < First \/ p >= First
        BY Setting
    <2>4. QED
        BY <2>1, <2>2, <2>3
<1>4. TypeOK'
    <2>1. TypeOK
        BY Setting
    <2>2. /\ result' \in [kind : {"plan error", "plan panic"}, by : {None}]
          /\ phase' \in {"returned", "panicked"}
        <3>1. \A k \in {"plan error", "plan panic"} :
                Without(k) \in [kind : {"plan error", "plan panic"}, by : {None}]
            BY DEF Without
        <3>2. QED
            BY <1>1, <3>1
    <2>3. QED
        BY <1>1, <1>2, <2>1, <2>2 DEF TypeOK
<1>5. OtherGroups'
    BY <1>1, <1>2, Setting DEF OtherGroups
<1>6. EndInv'
    <2>1. Running' = {}
        BY <1>1, <1>2, <1>3 DEF Running
    <2>2. result'.kind \in {"plan error", "plan panic"}
        <3>1. \A k : Without(k).kind = k
            BY DEF Without
        <3>2. QED
            BY <1>1, <3>1
    <2>3. QED
        BY <2>1, <2>2 DEF EndInv
<1>7. QED
    BY <1>1, <1>3, <1>4, <1>5, <1>6
       DEF IInv, PlanInv, SpawnInv, ScanInv, JoinInv, UnwindInv, DeliverInv, CallbacksComeLast

\* Starting a worker keeps the invariant.
LEMMA SpawnStep ==
    ASSUME IInv, Spawn
    PROVE  IInv'
<1>1. /\ layout' = layout /\ phase' = phase /\ group' = group /\ plans' = plans
      /\ spawned' = spawned /\ spawn_error' = spawn_error
      /\ scan_error' = scan_error /\ worker_panic' = worker_panic
      /\ outputs' = outputs /\ event' = event /\ delivered' = delivered
      /\ result' = result /\ phase = "spawn" /\ next < Limit /\ next' = next + 1
      /\ threads' = [threads EXCEPT ![next] = "running"]
    BY DEF Spawn, errorVars, deliverVars
<1>2. /\ First' = First /\ Limit' = Limit /\ Partitions' = Partitions
      /\ Workers' = Workers /\ Groups' = Groups /\ PlanCount' = PlanCount
    BY <1>1, SameGroup
<1>3. /\ NoErrors /\ NothingStored /\ delivered = <<>>
      /\ next \in (First + 1)..Limit /\ threads[First] = "idle"
      /\ \A p \in Workers : IF p < next THEN Started(p) ELSE threads[p] = "idle"
    BY <1>1 DEF IInv, SpawnInv
<1>4. /\ next \in Workers /\ next \in Partitions /\ next \in Nat
      /\ next' \in (First + 1)..Limit
    BY <1>1, <1>3, Setting DEF Workers
<1>5. \A p \in Partitions : threads'[p] = IF p = next THEN "running" ELSE threads[p]
    BY <1>1, Setting
<1>6. TypeOK'
    <2>1. TypeOK /\ next' \in 0..layout.partitions
        BY <1>4, Setting
    <2>2. threads' \in [Partitions -> Outcome \cup {"idle", "refused", "running"}]
        BY <1>1, <1>4, Setting
    <2>3. QED
        BY <1>1, <1>2, <2>1, <2>2 DEF TypeOK
<1>7. OtherGroups'
    <2>1. OtherGroups /\ First < next /\ next < Limit /\ Partitions \subseteq Nat
        BY <1>4, Setting DEF Workers
    <2>2. ASSUME NEW p \in Partitions
          PROVE  /\ p < First => threads'[p] = "output" /\ p \in outputs
                 /\ p >= Limit => threads'[p] = "idle" /\ p \notin outputs
        <3>1. p < First \/ p >= Limit => p # next
            BY <1>4, <2>1, Setting
        <3>2. QED
            BY <1>5, <2>1, <3>1 DEF OtherGroups
    <2>3. QED
        BY <1>1, <1>2, <2>2 DEF OtherGroups
<1>8. SpawnInv'
    <2>1. threads'[First] = "idle"
        BY <1>3, <1>4, <1>5, Setting
    <2>2. ASSUME NEW p \in Workers
          PROVE  IF p < next + 1 THEN Started(p)' ELSE threads'[p] = "idle"
        BY <1>3, <1>4, <1>5, Setting DEF Started
    <2>3. QED
        BY <1>1, <1>2, <1>3, <1>4, <2>1, <2>2 DEF SpawnInv, NoErrors, NothingStored
<1>9. QED
    BY <1>1, <1>3, <1>6, <1>7, <1>8
       DEF IInv, PlanInv, ScanInv, JoinInv, UnwindInv, DeliverInv, EndInv, Ended,
           CallbacksComeLast

\* A worker that does not start keeps the invariant: the ones before it are joined.
LEMMA SpawnFailsStep ==
    ASSUME IInv, SpawnFails
    PROVE  IInv'
<1>1. /\ layout' = layout /\ group' = group /\ plans' = plans
      /\ scan_error' = scan_error /\ worker_panic' = worker_panic
      /\ outputs' = outputs /\ event' = event /\ delivered' = delivered
      /\ result' = result /\ phase = "spawn" /\ phase' = "join" /\ next < Limit
      /\ next' = First + 1 /\ spawned' = next /\ spawn_error' = next
      /\ threads' = [threads EXCEPT ![next] = "refused"]
    BY DEF SpawnFails, deliverVars
<1>2. /\ First' = First /\ Limit' = Limit /\ Partitions' = Partitions
      /\ Workers' = Workers /\ Groups' = Groups /\ PlanCount' = PlanCount
    BY <1>1, SameGroup
<1>3. /\ NoErrors /\ NothingStored /\ delivered = <<>>
      /\ next \in (First + 1)..Limit /\ threads[First] = "idle"
      /\ \A p \in Workers : IF p < next THEN Started(p) ELSE threads[p] = "idle"
    BY <1>1 DEF IInv, SpawnInv
<1>4. /\ next \in Workers /\ next \in Partitions /\ next \in Nat /\ next # None
      /\ next' \in (First + 1)..spawned' /\ spawned' \in (First + 1)..Limit
    BY <1>1, <1>3, Setting DEF Workers, None
<1>5. \A p \in Partitions : threads'[p] = IF p = next THEN "refused" ELSE threads[p]
    BY <1>1, Setting
<1>6. TypeOK'
    <2>1. TypeOK /\ next' \in 0..layout.partitions /\ spawned' \in 1..layout.partitions
        BY <1>1, <1>4, Setting
    <2>2. threads' \in [Partitions -> Outcome \cup {"idle", "refused", "running"}]
        BY <1>1, <1>4, Setting
    <2>3. QED
        BY <1>1, <1>2, <1>4, <2>1, <2>2 DEF TypeOK
<1>7. OtherGroups'
    <2>1. OtherGroups /\ First < next /\ next < Limit /\ Partitions \subseteq Nat
        BY <1>4, Setting DEF Workers
    <2>2. ASSUME NEW p \in Partitions
          PROVE  /\ p < First => threads'[p] = "output" /\ p \in outputs
                 /\ p >= Limit => threads'[p] = "idle" /\ p \notin outputs
        <3>1. p < First \/ p >= Limit => p # next
            BY <1>4, <2>1, Setting
        <3>2. QED
            BY <1>5, <2>1, <3>1 DEF OtherGroups
    <2>3. QED
        BY <1>1, <1>2, <2>2 DEF OtherGroups
<1>8. JoinInv'
    <2>1. threads'[First] = "idle"
        BY <1>3, <1>4, <1>5, Setting
    <2>2. ASSUME NEW p \in Workers
          PROVE  /\ p < next => Started(p)'
                 /\ p = next => threads'[p] = "refused"
                 /\ p > next => threads'[p] = "idle"
                 /\ ~ (p < First + 1)
        BY <1>3, <1>4, <1>5, Setting DEF Started, Workers
    <2>3. \A p \in Partitions : p < First + 1 => threads'[p] \in {"output", "idle"}
        BY <1>2, <1>7, <2>1, Setting DEF OtherGroups
    <2>4. \A p \in Partitions : p >= First =>
            (p \in outputs <=> p < First + 1 /\ threads'[p] = "output")
        BY <1>3, <2>1, Setting DEF NothingStored
    <2>5. IsFirst(None, "error")' /\ IsFirst(None, "panic")'
        BY <1>1, <1>2, <2>3 DEF IsFirst
    <2>6. IsFirst(scan_error, "error")' /\ IsFirst(worker_panic, "panic")'
        BY <1>1, <1>3, <2>5 DEF NoErrors, IsFirst
    <2>7. QED
        BY <1>1, <1>2, <1>4, <2>1, <2>2, <2>4, <2>6, Setting DEF JoinInv
<1>9. QED
    BY <1>1, <1>3, <1>6, <1>7, <1>8
       DEF IInv, PlanInv, SpawnInv, ScanInv, UnwindInv, DeliverInv, EndInv, Ended,
           CallbacksComeLast

\* Starting the caller's own scan keeps the invariant.
LEMMA StartOwnScanStep ==
    ASSUME IInv, StartOwnScan
    PROVE  IInv'
<1>1. /\ layout' = layout /\ group' = group /\ plans' = plans /\ next' = next
      /\ spawn_error' = spawn_error /\ scan_error' = scan_error
      /\ worker_panic' = worker_panic /\ outputs' = outputs /\ event' = event
      /\ delivered' = delivered /\ result' = result /\ phase = "spawn"
      /\ phase' = "scan" /\ next = Limit /\ spawned' = Limit
      /\ threads' = [threads EXCEPT ![First] = "running"]
    BY DEF StartOwnScan, errorVars, deliverVars
<1>2. /\ First' = First /\ Limit' = Limit /\ Partitions' = Partitions
      /\ Workers' = Workers /\ Groups' = Groups /\ PlanCount' = PlanCount
    BY <1>1, SameGroup
<1>3. /\ NoErrors /\ NothingStored /\ delivered = <<>>
      /\ \A p \in Workers : p < Limit => Started(p)
    BY <1>1 DEF IInv, SpawnInv
<1>4. \A p \in Partitions : threads'[p] = IF p = First THEN "running" ELSE threads[p]
    BY <1>1, Setting
<1>5. TypeOK'
    <2>1. TypeOK /\ spawned' \in 1..layout.partitions
        BY <1>1, Setting
    <2>2. threads' \in [Partitions -> Outcome \cup {"idle", "refused", "running"}]
        BY <1>1, Setting
    <2>3. QED
        BY <1>1, <1>2, <2>1, <2>2 DEF TypeOK
<1>6. OtherGroups'
    BY <1>1, <1>2, <1>4, Setting DEF OtherGroups
<1>7. ScanInv'
    <2>1. \A p \in Workers : p < Limit /\ p # First /\ p \in Partitions
        BY Setting DEF Workers
    <2>2. \A p \in Workers : Started(p)'
        BY <1>3, <1>4, <2>1 DEF Started
    <2>3. QED
        BY <1>1, <1>2, <1>3, <1>4, <2>2, Setting DEF ScanInv, NoErrors, NothingStored
<1>8. QED
    BY <1>1, <1>3, <1>5, <1>6, <1>7
       DEF IInv, PlanInv, SpawnInv, JoinInv, UnwindInv, DeliverInv, EndInv, Ended,
           CallbacksComeLast

\* The end of the caller's own scan keeps the invariant, its panic included.
LEMMA OwnScanEndsStep ==
    ASSUME IInv, NEW o \in Outcome, OwnScanEnds(o)
    PROVE  IInv'
<1>1. /\ layout' = layout /\ group' = group /\ plans' = plans /\ spawned' = spawned
      /\ spawn_error' = spawn_error /\ worker_panic' = worker_panic
      /\ event' = event /\ delivered' = delivered /\ phase = "scan"
      /\ next' = First + 1
      /\ threads' = [threads EXCEPT ![First] = o]
      /\ outputs' = IF o = "output" THEN outputs \cup {First} ELSE outputs
      /\ scan_error' = IF o = "error" THEN First ELSE scan_error
      /\ o = "panic" => phase' = "unwind" /\ result' = Panicked(First)
      /\ o # "panic" => phase' = "join" /\ result' = result
    BY DEF OwnScanEnds, deliverVars
<1>2. /\ First' = First /\ Limit' = Limit /\ Partitions' = Partitions
      /\ Workers' = Workers /\ Groups' = Groups /\ PlanCount' = PlanCount
    BY <1>1, SameGroup
<1>3. /\ NoErrors /\ NothingStored /\ delivered = <<>> /\ spawned = Limit
      /\ \A p \in Workers : Started(p)
    BY <1>1 DEF IInv, ScanInv
<1>4. \A p \in Partitions : threads'[p] = IF p = First THEN o ELSE threads[p]
    BY <1>1, Setting
<1>5. TypeOK'
    <2>1. TypeOK /\ next' \in 0..layout.partitions /\ First \in Partitions
        BY <1>1, Setting
    <2>2. threads' \in [Partitions -> Outcome \cup {"idle", "refused", "running"}]
        BY <1>1, Setting
    <2>3. /\ outputs' \subseteq Partitions /\ scan_error' \in Partitions \cup {None}
          /\ phase' \in {"unwind", "join"}
        BY <1>1, <2>1 DEF TypeOK
    <2>4. Panicked(First) \in [kind : {"panic"}, by : Partitions]
        BY <2>1 DEF Panicked
    <2>5. QED
        BY <1>1, <1>2, <2>1, <2>2, <2>3, <2>4 DEF TypeOK
<1>6. OtherGroups'
    BY <1>1, <1>2, <1>4, Setting DEF OtherGroups
<1>7. CASE o = "panic"
    <2>1. UnwindInv'
        BY <1>1, <1>2, <1>4, <1>7, Setting DEF UnwindInv, Panicked
    <2>2. QED
        BY <1>1, <1>3, <1>5, <1>6, <1>7, <2>1
           DEF IInv, PlanInv, SpawnInv, ScanInv, JoinInv, DeliverInv, EndInv, Ended,
               CallbacksComeLast
<1>8. CASE o # "panic"
    <2>1. threads'[First] = o /\ o \in {"output", "error"}
        BY <1>4, <1>8, Setting DEF Outcome
    <2>2. ASSUME NEW p \in Workers
          PROVE  p < Limit /\ Started(p)' /\ ~ (p < First + 1)
        BY <1>3, <1>4, Setting DEF Started, Workers
    <2>3. \A p \in Partitions :
            /\ p < First => threads'[p] = "output"
            /\ p < First + 1 => p <= First
        BY <1>2, <1>6, Setting DEF OtherGroups
    <2>4. \A p \in Partitions : p >= First =>
            (p \in outputs' <=> p < First + 1 /\ threads'[p] = "output")
        BY <1>1, <1>3, <1>4, <2>1, Setting DEF NothingStored
    <2>5. IsFirst(worker_panic, "panic")'
        BY <1>1, <1>2, <1>3, <2>1, <2>3, Setting DEF IsFirst, NoErrors
    <2>6. IsFirst(scan_error, "error")'
        <3>1. First # None /\ First < First + 1
            BY Setting DEF None
        <3>2. CASE o = "error"
            BY <1>1, <1>2, <2>1, <2>3, <3>1, <3>2, Setting DEF IsFirst
        <3>3. CASE o = "output"
            BY <1>1, <1>2, <1>3, <2>1, <2>3, <3>3, Setting DEF IsFirst, NoErrors
        <3>4. QED
            BY <2>1, <3>2, <3>3
    <2>7. spawn_error' = None /\ spawned' = Limit /\ Limit \in (First + 1)..Limit
          /\ First + 1 \in (First + 1)..Limit
        BY <1>1, <1>3, Setting DEF NoErrors
    <2>8. JoinInv'
        BY <1>1, <1>2, <1>8, <2>1, <2>2, <2>4, <2>5, <2>6, <2>7, Setting DEF JoinInv
    <2>9. QED
        BY <1>1, <1>3, <1>5, <1>6, <1>8, <2>8
           DEF IInv, PlanInv, SpawnInv, ScanInv, UnwindInv, DeliverInv, EndInv, Ended,
               CallbacksComeLast
<1>9. QED
    BY <1>7, <1>8

\* A worker that ends, whenever it does, keeps the invariant.
LEMMA WorkerEndsStep ==
    ASSUME IInv, NEW w, NEW o \in Outcome, WorkerEnds(w, o)
    PROVE  IInv'
<1>1. /\ layout' = layout /\ phase' = phase /\ group' = group /\ plans' = plans
      /\ next' = next /\ spawned' = spawned /\ spawn_error' = spawn_error
      /\ scan_error' = scan_error /\ worker_panic' = worker_panic
      /\ outputs' = outputs /\ event' = event /\ delivered' = delivered
      /\ result' = result
      /\ threads' = [threads EXCEPT ![w] = o] /\ threads[w] = "running" /\ w \in Workers
    BY DEF WorkerEnds, errorVars, deliverVars, loopVars, Workers
<1>2. /\ First' = First /\ Limit' = Limit /\ Partitions' = Partitions
      /\ Workers' = Workers /\ Groups' = Groups /\ PlanCount' = PlanCount
    BY <1>1, SameGroup
<1>3. w \in Partitions /\ w > First /\ w < Limit /\ w # First /\ First # w
    BY <1>1, Setting DEF Workers
<1>4. \A p \in Partitions : threads'[p] = IF p = w THEN o ELSE threads[p]
    BY <1>1, Setting
<1>5. o # "running" /\ o # "idle" /\ o # "refused" /\ o \in Outcome \cup {"running"}
    BY DEF Outcome
<1>6. Running # {}
    BY <1>1, <1>3 DEF Running
<1>7. phase \in {"spawn", "scan", "join", "unwind"} /\ delivered = <<>>
    <2>1. phase # "plan"
        BY <1>1, <1>3, Setting DEF IInv, PlanInv
    <2>2. ~ Ended
        BY <1>6 DEF IInv, EndInv
    <2>3. phase # "deliver"
        BY <1>1, <1>3 DEF IInv, DeliverInv, AllOutput
    <2>4. QED
        BY <2>1, <2>2, <2>3 DEF IInv, TypeOK, Ended
<1>8. TypeOK'
    <2>1. TypeOK
        BY Setting
    <2>2. threads' \in [Partitions -> Outcome \cup {"idle", "refused", "running"}]
        BY <1>1, <1>3, Setting
    <2>3. QED
        BY <1>1, <1>2, <2>1, <2>2, ZenonT(40) DEF TypeOK
<1>9. OtherGroups'
    <2>1. ASSUME NEW p \in Partitions
          PROVE  /\ p < First => threads'[p] = "output" /\ p \in outputs
                 /\ p >= Limit => threads'[p] = "idle" /\ p \notin outputs
        <3>1. p < First \/ p >= Limit => p # w
            BY <1>3, Setting DEF Workers
        <3>2. QED
            BY <1>4, <3>1, Setting DEF OtherGroups
    <2>2. QED
        BY <1>1, <1>2, <2>1 DEF OtherGroups
<1>10. \A p \in Workers : Started(p) => Started(p)'
    BY <1>4, <1>5, Setting DEF Started
<1>11. threads'[First] = threads[First]
    BY <1>3, <1>4, Setting
<1>12. CASE phase = "spawn"
    <2>1. NoErrors /\ NothingStored /\ next \in (First + 1)..Limit /\ threads[First] = "idle"
          /\ \A p \in Workers : IF p < next THEN Started(p) ELSE threads[p] = "idle"
        BY <1>12 DEF IInv, SpawnInv
    <2>2. ASSUME NEW p \in Workers
          PROVE  IF p < next THEN Started(p)' ELSE threads'[p] = "idle"
        BY <1>1, <1>4, <1>10, <2>1, Setting
    <2>3. SpawnInv'
        BY <1>1, <1>2, <1>11, <2>1, <2>2 DEF SpawnInv, NoErrors, NothingStored
    <2>4. QED
        BY <1>1, <1>7, <1>8, <1>9, <1>12, <2>3
           DEF IInv, PlanInv, ScanInv, JoinInv, UnwindInv, DeliverInv, EndInv, Ended,
               CallbacksComeLast
<1>13. CASE phase = "scan"
    <2>1. ScanInv'
        BY <1>1, <1>2, <1>10, <1>11, <1>13 DEF IInv, ScanInv, NoErrors, NothingStored
    <2>2. QED
        BY <1>1, <1>7, <1>8, <1>9, <1>13, <2>1
           DEF IInv, PlanInv, SpawnInv, JoinInv, UnwindInv, DeliverInv, EndInv, Ended,
               CallbacksComeLast
<1>14. CASE phase = "join"
    <2>1. JoinInv /\ next \in Int
        BY <1>14 DEF IInv, JoinInv
    <2>2. ~ (w < next)
        BY <1>1, <1>14, <2>1 DEF JoinInv, Outcome
    <2>3. \A p \in Partitions : p < next => p # w /\ threads'[p] = threads[p]
        BY <1>4, <2>2
    <2>4. ASSUME NEW e, NEW status, IsFirst(e, status)
          PROVE  IsFirst(e, status)'
        BY <1>1, <1>2, <2>3, <2>4 DEF IsFirst
    <2>5. IsFirst(scan_error, "error")' /\ IsFirst(worker_panic, "panic")'
        <3>1. IsFirst(scan_error, "error") /\ IsFirst(worker_panic, "panic")
            BY <1>14, <2>1 DEF JoinInv
        <3>2. QED
            BY <1>1, <1>2, <2>3, <3>1 DEF IsFirst
    <2>6. ASSUME NEW p \in Workers
          PROVE  /\ p < spawned => Started(p)'
                 /\ p = spawned => threads'[p] = "refused"
                 /\ p > spawned => threads'[p] = "idle"
                 /\ p < next => threads'[p] \in Outcome
        BY <1>1, <1>4, <1>10, <1>14, <2>1, Setting DEF JoinInv
    <2>7. \A p \in Partitions : p >= First =>
            (p \in outputs <=> p < next /\ threads'[p] = "output")
        BY <1>14, <2>1, <2>3 DEF JoinInv
    <2>8. JoinInv'
        BY <1>1, <1>2, <1>11, <1>14, <2>1, <2>5, <2>6, <2>7 DEF JoinInv
    <2>9. QED
        BY <1>1, <1>7, <1>8, <1>9, <1>14, <2>8
           DEF IInv, PlanInv, SpawnInv, ScanInv, UnwindInv, DeliverInv, EndInv, Ended,
               CallbacksComeLast
<1>15. CASE phase = "unwind"
    <2>1. threads[First] = "panic" /\ result = Panicked(First)
        BY <1>6, <1>15 DEF IInv, UnwindInv
    <2>2. UnwindInv'
        BY <1>1, <1>2, <1>11, <2>1 DEF UnwindInv, Panicked
    <2>3. QED
        BY <1>1, <1>7, <1>8, <1>9, <1>15, <2>2
           DEF IInv, PlanInv, SpawnInv, ScanInv, JoinInv, DeliverInv, EndInv, Ended,
               CallbacksComeLast
<1>16. QED
    BY <1>7, <1>12, <1>13, <1>14, <1>15

\* Joining the next worker keeps the first error and the first panic.
LEMMA JoinStep ==
    ASSUME IInv, Join
    PROVE  IInv'
<1>1. /\ layout' = layout /\ phase' = phase /\ group' = group /\ plans' = plans
      /\ threads' = threads /\ spawned' = spawned /\ spawn_error' = spawn_error
      /\ event' = event /\ delivered' = delivered /\ result' = result
      /\ phase = "join" /\ next < spawned /\ threads[next] # "running"
      /\ next' = next + 1
      /\ outputs' = IF threads[next] = "output" THEN outputs \cup {next} ELSE outputs
      /\ scan_error' = IF threads[next] = "error" /\ scan_error = None THEN next
                       ELSE scan_error
      /\ worker_panic' = IF threads[next] = "panic" /\ worker_panic = None THEN next
                         ELSE worker_panic
    BY DEF Join, deliverVars
<1>2. /\ First' = First /\ Limit' = Limit /\ Partitions' = Partitions
      /\ Workers' = Workers /\ Groups' = Groups /\ PlanCount' = PlanCount
    BY <1>1, SameGroup
<1>3. JoinInv /\ TypeOK /\ delivered = <<>>
    BY <1>1 DEF IInv
<1>4. /\ spawned \in (First + 1)..Limit /\ next \in (First + 1)..spawned
    BY <1>1, <1>3 DEF JoinInv
<1>5. /\ next \in Workers /\ next \in Partitions /\ next \in Nat /\ next # None
      /\ next' \in (First + 1)..spawned /\ next' \in 0..layout.partitions
    BY <1>1, <1>4, Setting DEF Workers, None
<1>6. threads[next] \in Outcome
    BY <1>1, <1>3, <1>5 DEF JoinInv, Started
<1>7. \A p \in Partitions : (p < next + 1) <=> (p < next \/ p = next)
    BY <1>5, Setting
<1>8. TypeOK'
    <2>1. /\ outputs' \subseteq Partitions
          /\ scan_error' \in Partitions \cup {None}
          /\ worker_panic' \in Partitions \cup {None}
        BY <1>1, <1>3, <1>5 DEF TypeOK
    <2>2. QED
        BY <1>1, <1>2, <1>3, <1>5, <2>1 DEF TypeOK
<1>9. OtherGroups'
    <2>1. \A p \in Partitions : p >= Limit => p # next
        BY <1>5, Setting DEF Workers
    <2>2. QED
        BY <1>1, <1>2, <2>1, Setting DEF OtherGroups
<1>10. ASSUME NEW status \in {"error", "panic"}, NEW e, IsFirst(e, status), NEW f,
              f = IF threads[next] = status /\ e = None THEN next ELSE e
       PROVE  /\ f = None => \A p \in Partitions : p < next + 1 => threads[p] # status
              /\ f # None =>
                   /\ f \in Partitions /\ f < next + 1 /\ threads[f] = status
                   /\ \A p \in Partitions : p < next + 1 /\ threads[p] = status => f <= p
    <2>1. CASE e = None
        BY <1>5, <1>7, <1>10, <2>1, Setting DEF IsFirst
    <2>2. CASE e # None
        BY <1>5, <1>7, <1>10, <2>2, Setting DEF IsFirst
    <2>3. QED
        BY <2>1, <2>2
<1>11. IsFirst(scan_error, "error")'
    <2>1. IsFirst(scan_error, "error")
        BY <1>1, <1>3 DEF JoinInv
    <2>2. /\ scan_error' = None => \A p \in Partitions : p < next + 1 => threads[p] # "error"
          /\ scan_error' # None =>
               /\ scan_error' \in Partitions /\ scan_error' < next + 1
               /\ threads[scan_error'] = "error"
               /\ \A p \in Partitions :
                     p < next + 1 /\ threads[p] = "error" => scan_error' <= p
        BY <1>1, <1>10, <2>1
    <2>3. QED
        BY <1>1, <1>2, <2>2 DEF IsFirst
<1>12. IsFirst(worker_panic, "panic")'
    <2>1. IsFirst(worker_panic, "panic")
        BY <1>1, <1>3 DEF JoinInv
    <2>2. /\ worker_panic' = None => \A p \in Partitions : p < next + 1 => threads[p] # "panic"
          /\ worker_panic' # None =>
               /\ worker_panic' \in Partitions /\ worker_panic' < next + 1
               /\ threads[worker_panic'] = "panic"
               /\ \A p \in Partitions :
                     p < next + 1 /\ threads[p] = "panic" => worker_panic' <= p
        BY <1>1, <1>10, <2>1
    <2>3. QED
        BY <1>1, <1>2, <2>2 DEF IsFirst
<1>13. ASSUME NEW p \in Partitions, p >= First
       PROVE  p \in outputs' <=> p < next + 1 /\ threads[p] = "output"
    BY <1>1, <1>3, <1>5, <1>7, <1>13, Setting DEF JoinInv
<1>14. ASSUME NEW p \in Workers
       PROVE  /\ p < spawned => Started(p)
              /\ p = spawned => threads[p] = "refused"
              /\ p > spawned => threads[p] = "idle"
              /\ p < next + 1 => threads[p] \in Outcome
    BY <1>1, <1>3, <1>6, <1>7, Setting DEF JoinInv
<1>15. JoinInv'
    <2>1. \A p : Started(p)' <=> Started(p)
        BY <1>1 DEF Started
    <2>2. IF spawn_error = None
          THEN spawned = Limit /\ threads[First] \in {"output", "error"}
          ELSE spawn_error = spawned /\ spawned < Limit /\ threads[First] = "idle"
        BY <1>1, <1>3 DEF JoinInv
    <2>3. QED
        BY <1>1, <1>2, <1>4, <1>5, <1>11, <1>12, <1>13, <1>14, <2>1, <2>2 DEF JoinInv
<1>16. QED
    BY <1>1, <1>3, <1>8, <1>9, <1>15
       DEF IInv, PlanInv, SpawnInv, ScanInv, UnwindInv, DeliverInv, EndInv, Ended,
           CallbacksComeLast

\* Steps that keep what OtherGroups is about.
LEMMA SameOtherGroups ==
    ASSUME IInv, layout' = layout, group' = group, threads' = threads, outputs' = outputs
    PROVE  OtherGroups' /\ Running' = Running /\ Verdict' = Verdict /\ AllOutput' = AllOutput
<1>1. /\ First' = First /\ Limit' = Limit /\ Partitions' = Partitions
      /\ Workers' = Workers /\ Groups' = Groups /\ PlanCount' = PlanCount
    BY SameGroup
<1>2. QED
    BY <1>1, Setting DEF OtherGroups, Running, Verdict, With, AllOutput

\* Resuming a worker's panic keeps the invariant.
LEMMA ResumePanicStep ==
    ASSUME IInv, ResumePanic
    PROVE  IInv'
<1>1. /\ layout' = layout /\ group' = group /\ plans' = plans /\ threads' = threads
      /\ next' = next /\ spawned' = spawned /\ spawn_error' = spawn_error
      /\ scan_error' = scan_error /\ worker_panic' = worker_panic
      /\ outputs' = outputs /\ event' = event /\ delivered' = delivered /\ Joined
      /\ worker_panic # None /\ phase = "join" /\ phase' = "unwind"
      /\ result' = Panicked(worker_panic)
    BY DEF ResumePanic, Joined, errorVars, deliverVars, loopVars
<1>2. /\ First' = First /\ Limit' = Limit /\ Partitions' = Partitions
      /\ Workers' = Workers /\ Groups' = Groups /\ PlanCount' = PlanCount
    BY <1>1, SameGroup
<1>3. OtherGroups' /\ Running' = Running /\ Verdict' = Verdict /\ AllOutput' = AllOutput
    BY <1>1, SameOtherGroups
<1>4. /\ Running = {} /\ threads[First] # "panic"
      /\ With("panic") # {} /\ Earliest(With("panic")) = worker_panic
    BY <1>1, JoinedFacts
<1>5. result' = Verdict
    BY <1>1, <1>4 DEF Verdict
<1>6. UnwindInv'
    BY <1>1, <1>2, <1>3, <1>4, <1>5 DEF UnwindInv
<1>7. TypeOK'
    <2>1. TypeOK
        BY Setting
    <2>2. worker_panic \in Partitions
        BY <1>1, <2>1 DEF TypeOK
    <2>3. Panicked(worker_panic) \in [kind : {"panic"}, by : Partitions]
        BY <2>2 DEF Panicked
    <2>4. QED
        BY <1>1, <1>2, <2>1, <2>3 DEF TypeOK
<1>8. delivered = <<>>
    BY <1>1 DEF IInv
<1>9. QED
    BY <1>1, <1>3, <1>6, <1>7, <1>8
       DEF IInv, PlanInv, SpawnInv, ScanInv, JoinInv, DeliverInv, EndInv, Ended,
           CallbacksComeLast

\* Returning an error keeps the invariant.
LEMMA ReturnErrorStep ==
    ASSUME IInv, ReturnError
    PROVE  IInv'
<1>1. /\ layout' = layout /\ group' = group /\ plans' = plans /\ threads' = threads
      /\ next' = next /\ spawned' = spawned /\ spawn_error' = spawn_error
      /\ scan_error' = scan_error /\ worker_panic' = worker_panic
      /\ outputs' = outputs /\ event' = event /\ delivered' = delivered /\ Joined
      /\ worker_panic = None /\ phase = "join" /\ phase' = "returned"
      /\ spawn_error # None \/ scan_error # None
      /\ result' = IF spawn_error # None THEN Failed(spawn_error) ELSE Failed(scan_error)
    BY DEF ReturnError, Joined, errorVars, deliverVars, loopVars
<1>2. /\ First' = First /\ Limit' = Limit /\ Partitions' = Partitions
      /\ Workers' = Workers /\ Groups' = Groups /\ PlanCount' = PlanCount
    BY <1>1, SameGroup
<1>3. OtherGroups' /\ Running' = Running /\ Verdict' = Verdict /\ AllOutput' = AllOutput
    BY <1>1, SameOtherGroups
<1>4. /\ Running = {} /\ threads[First] # "panic" /\ With("panic") = {}
      /\ spawn_error = None => With("refused") = {}
      /\ spawn_error # None =>
           With("refused") # {} /\ Earliest(With("refused")) = spawn_error
      /\ scan_error # None => With("error") # {} /\ Earliest(With("error")) = scan_error
    BY <1>1, JoinedFacts
<1>5. result' = Verdict
    BY <1>1, <1>4 DEF Verdict
<1>6. EndInv'
    BY <1>3, <1>4, <1>5 DEF EndInv
<1>7. TypeOK'
    <2>1. TypeOK
        BY Setting
    <2>2. \E p \in Partitions : result' = Failed(p)
        BY <1>1, <2>1 DEF TypeOK
    <2>3. \A p \in Partitions : Failed(p) \in [kind : {"error"}, by : Partitions]
        BY DEF Failed
    <2>4. QED
        BY <1>1, <1>2, <2>1, <2>2, <2>3 DEF TypeOK
<1>8. delivered = <<>>
    BY <1>1 DEF IInv
<1>9. QED
    BY <1>1, <1>3, <1>6, <1>7, <1>8
       DEF IInv, PlanInv, SpawnInv, ScanInv, JoinInv, UnwindInv, DeliverInv,
           CallbacksComeLast

\* Going on to the second cohort keeps the invariant.
LEMMA NextGroupStep ==
    ASSUME IInv, NextGroup
    PROVE  IInv'
<1>1. /\ layout' = layout /\ threads' = threads /\ next' = next
      /\ spawned' = spawned /\ spawn_error' = spawn_error
      /\ scan_error' = scan_error /\ worker_panic' = worker_panic
      /\ outputs' = outputs /\ event' = event /\ delivered' = delivered
      /\ result' = result /\ phase = "join" /\ phase' = "plan"
      /\ Succeeded /\ group < Groups /\ group' = group + 1 /\ plans' = 0
    BY DEF NextGroup, errorVars, deliverVars, loopVars, Succeeded, Joined
<1>2. /\ group = 1 /\ Groups = 2 /\ Limit = layout.split /\ Sequential
    BY <1>1, Setting, GroupShape DEF Groups
<1>3. /\ Groups' = Groups /\ Partitions' = Partitions /\ First' = Limit
      /\ PlanCount' = PlanCount /\ Limit' = layout.partitions
    BY <1>1, <1>2 DEF Groups, Sequential, Partitions, First, Limit, PlanCount
<1>4. \A p \in Partitions :
        /\ p < Limit => threads[p] = "output" /\ p \in outputs
        /\ p >= Limit => threads[p] = "idle" /\ p \notin outputs
    BY <1>1, SucceededFacts, Setting DEF OtherGroups
<1>5. NoErrors
    BY <1>1 DEF NoErrors, Succeeded
<1>6. OtherGroups'
    BY <1>1, <1>3, <1>4, Setting DEF OtherGroups, Partitions
<1>7. PlanInv'
    BY <1>1, <1>3, <1>4, <1>5, Setting DEF PlanInv, NoErrors, NothingStored
<1>8. TypeOK'
    <2>1. TypeOK /\ PlanCount \in Nat
        BY Setting
    <2>2. group' \in 1..Groups /\ plans' \in 0..PlanCount
        BY <1>1, <1>2, <2>1
    <2>3. QED
        BY <1>1, <1>3, <2>1, <2>2 DEF TypeOK
<1>9. delivered = <<>>
    BY <1>1 DEF IInv
<1>10. QED
    BY <1>1, <1>6, <1>7, <1>8, <1>9
       DEF IInv, SpawnInv, ScanInv, JoinInv, UnwindInv, DeliverInv, EndInv, Ended,
           CallbacksComeLast

\* Delivery starts only when every partition has its output.
LEMMA StartDeliveryStep ==
    ASSUME IInv, StartDelivery
    PROVE  IInv'
<1>1. /\ layout' = layout /\ group' = group /\ plans' = plans /\ threads' = threads
      /\ spawned' = spawned /\ spawn_error' = spawn_error
      /\ scan_error' = scan_error /\ worker_panic' = worker_panic
      /\ outputs' = outputs /\ event' = event /\ delivered' = delivered
      /\ result' = result /\ Succeeded /\ group = Groups /\ phase = "join"
      /\ phase' = "deliver" /\ next' = 0
    BY DEF StartDelivery, Succeeded, Joined, errorVars, deliverVars, loopVars
<1>2. /\ First' = First /\ Limit' = Limit /\ Partitions' = Partitions
      /\ Workers' = Workers /\ Groups' = Groups /\ PlanCount' = PlanCount
    BY <1>1, SameGroup
<1>3. OtherGroups' /\ Running' = Running /\ Verdict' = Verdict /\ AllOutput' = AllOutput
    BY <1>1, SameOtherGroups
<1>4. AllOutput
    <2>1. Limit = layout.partitions
        BY <1>1, Setting, GroupShape
    <2>2. \A p \in Partitions : p < Limit
        BY <2>1, Setting DEF Partitions
    <2>3. QED
        BY <1>1, <2>2, SucceededFacts DEF AllOutput
<1>5. DeliverInv'
    BY <1>3, <1>4 DEF DeliverInv
<1>6. TypeOK'
    <2>1. TypeOK /\ 0 \in 0..layout.partitions
        BY Setting
    <2>2. QED
        BY <1>1, <1>2, <2>1 DEF TypeOK
<1>7. delivered = <<>>
    BY <1>1 DEF IInv
<1>8. QED
    BY <1>1, <1>3, <1>5, <1>6, <1>7
       DEF IInv, PlanInv, SpawnInv, ScanInv, JoinInv, UnwindInv, EndInv, Ended,
           CallbacksComeLast

\* The scope lets a panic out with no thread running.
LEMMA ScopeUnwindsStep ==
    ASSUME IInv, ScopeUnwinds
    PROVE  IInv'
<1>1. /\ layout' = layout /\ group' = group /\ plans' = plans /\ threads' = threads
      /\ next' = next /\ spawned' = spawned /\ spawn_error' = spawn_error
      /\ scan_error' = scan_error /\ worker_panic' = worker_panic
      /\ outputs' = outputs /\ event' = event /\ delivered' = delivered
      /\ result' = result /\ phase = "unwind" /\ phase' = "panicked"
      /\ Running = {}
    BY DEF ScopeUnwinds, errorVars, deliverVars, loopVars
<1>2. /\ First' = First /\ Limit' = Limit /\ Partitions' = Partitions
      /\ Workers' = Workers /\ Groups' = Groups /\ PlanCount' = PlanCount
    BY <1>1, SameGroup
<1>3. OtherGroups' /\ Running' = Running /\ Verdict' = Verdict /\ AllOutput' = AllOutput
    BY <1>1, SameOtherGroups
<1>4. result = Verdict
    BY <1>1 DEF IInv, UnwindInv, Verdict
<1>5. EndInv'
    BY <1>1, <1>3, <1>4 DEF EndInv
<1>6. TypeOK'
    BY <1>1, <1>2, Setting DEF TypeOK
<1>7. delivered = <<>>
    BY <1>1 DEF IInv
<1>8. QED
    BY <1>1, <1>3, <1>5, <1>6, <1>7
       DEF IInv, PlanInv, SpawnInv, ScanInv, JoinInv, UnwindInv, DeliverInv,
           CallbacksComeLast

\* A call of the sink keeps the invariant, its panic included.
LEMMA CallSinkStep ==
    ASSUME IInv, CallSink
    PROVE  IInv'
<1>1. /\ layout' = layout /\ group' = group /\ plans' = plans /\ threads' = threads
      /\ next' = next /\ spawned' = spawned /\ spawn_error' = spawn_error
      /\ scan_error' = scan_error /\ worker_panic' = worker_panic
      /\ outputs' = outputs /\ phase = "deliver" /\ event' = event + 1
      /\ \/ phase' = phase /\ result' = result
         \/ phase' = "panicked" /\ result' = Without("sink panic")
    BY DEF CallSink, errorVars, deliverVars, loopVars
<1>2. /\ First' = First /\ Limit' = Limit /\ Partitions' = Partitions
      /\ Workers' = Workers /\ Groups' = Groups /\ PlanCount' = PlanCount
    BY <1>1, SameGroup
<1>3. OtherGroups' /\ Running' = Running /\ Verdict' = Verdict /\ AllOutput' = AllOutput
    BY <1>1, SameOtherGroups
<1>4. AllOutput
    BY <1>1 DEF IInv, DeliverInv
<1>5. Running = {}
    BY <1>4 DEF AllOutput, Running
<1>6. \A k : Without(k).kind = k
    BY DEF Without
<1>7. DeliverInv' /\ EndInv' /\ CallbacksComeLast'
    <2>1. AllOutput' /\ Running' = {}
        BY <1>3, <1>4, <1>5
    <2>2. DeliverInv' /\ CallbacksComeLast'
        BY <2>1 DEF DeliverInv, CallbacksComeLast, AllOutput
    <2>3. EndInv'
        BY <1>1, <1>6, <2>1 DEF EndInv, Ended
    <2>4. QED
        BY <2>2, <2>3
<1>8. TypeOK'
    <2>1. TypeOK
        BY Setting
    <2>2. event' \in Nat
        <3>1. event \in Nat
            BY <2>1 DEF TypeOK
        <3>2. event' = event + 1
            BY DEF CallSink
        <3>3. QED
            BY <3>1, <3>2
    <2>3. Without("sink panic") \in [kind : {"sink panic"}, by : {None}]
        BY DEF Without
    <2>4. QED
        BY <1>1, <1>2, <2>1, <2>2, <2>3 DEF TypeOK
<1>9. QED
    BY <1>1, <1>3, <1>7, <1>8
       DEF IInv, PlanInv, SpawnInv, ScanInv, JoinInv, UnwindInv

\* Going on to the next partition's matches keeps the invariant.
LEMMA NextBufferStep ==
    ASSUME IInv, NextBuffer
    PROVE  IInv'
<1>1. /\ layout' = layout /\ phase' = phase /\ group' = group /\ plans' = plans
      /\ threads' = threads /\ spawned' = spawned /\ spawn_error' = spawn_error
      /\ scan_error' = scan_error /\ worker_panic' = worker_panic
      /\ outputs' = outputs /\ delivered' = delivered /\ result' = result
      /\ phase = "deliver" /\ event' = 0 /\ next' = next + 1
      /\ next < layout.partitions
    BY DEF NextBuffer, errorVars, deliverVars, loopVars
<1>2. /\ First' = First /\ Limit' = Limit /\ Partitions' = Partitions
      /\ Workers' = Workers /\ Groups' = Groups /\ PlanCount' = PlanCount
    BY <1>1, SameGroup
<1>3. OtherGroups' /\ Running' = Running /\ Verdict' = Verdict /\ AllOutput' = AllOutput
    BY <1>1, SameOtherGroups
<1>4. AllOutput /\ CallbacksComeLast
    BY <1>1 DEF IInv, DeliverInv
<1>5. DeliverInv' /\ CallbacksComeLast'
    <2>1. AllOutput'
        BY <1>3, <1>4
    <2>2. QED
        BY <2>1 DEF DeliverInv, CallbacksComeLast, AllOutput
<1>6. TypeOK'
    <2>1. TypeOK /\ layout.partitions \in Nat
        BY Setting
    <2>2. next' \in 0..layout.partitions
        <3>1. next \in 0..layout.partitions
            BY <2>1 DEF TypeOK
        <3>2. QED
            BY <1>1, <2>1, <3>1
    <2>3. QED
        BY <1>1, <1>2, <2>1, <2>2 DEF TypeOK
<1>7. QED
    BY <1>1, <1>3, <1>5, <1>6
       DEF IInv, PlanInv, SpawnInv, ScanInv, JoinInv, UnwindInv, EndInv, Ended

\* A successful return keeps the invariant.
LEMMA ReturnStep ==
    ASSUME IInv, Return
    PROVE  IInv'
<1>1. /\ layout' = layout /\ group' = group /\ plans' = plans /\ threads' = threads
      /\ next' = next /\ spawned' = spawned /\ spawn_error' = spawn_error
      /\ scan_error' = scan_error /\ worker_panic' = worker_panic
      /\ outputs' = outputs /\ event' = event /\ delivered' = delivered
      /\ phase = "deliver" /\ phase' = "returned" /\ result' = Done
    BY DEF Return, errorVars, deliverVars, loopVars
<1>2. /\ First' = First /\ Limit' = Limit /\ Partitions' = Partitions
      /\ Workers' = Workers /\ Groups' = Groups /\ PlanCount' = PlanCount
    BY <1>1, SameGroup
<1>3. OtherGroups' /\ Running' = Running /\ Verdict' = Verdict /\ AllOutput' = AllOutput
    BY <1>1, SameOtherGroups
<1>4. AllOutput /\ First \in Partitions
    BY <1>1, Setting DEF IInv, DeliverInv
<1>5. Running = {} /\ Verdict = Done
    BY <1>4 DEF AllOutput, Running, Verdict, With
<1>6. EndInv' /\ CallbacksComeLast'
    <2>1. AllOutput'
        BY <1>3, <1>4
    <2>2. EndInv'
        BY <1>1, <1>3, <1>5 DEF EndInv
    <2>3. QED
        BY <2>1, <2>2 DEF CallbacksComeLast, AllOutput
<1>7. TypeOK'
    <2>1. TypeOK
        BY Setting
    <2>2. Done \in [kind : {"ok"}, by : {None}]
        BY DEF Done, Without
    <2>3. QED
        BY <1>1, <1>2, <2>1, <2>2 DEF TypeOK
<1>8. QED
    BY <1>1, <1>3, <1>6, <1>7
       DEF IInv, PlanInv, SpawnInv, ScanInv, JoinInv, UnwindInv, DeliverInv

\* A step that changes nothing keeps the invariant.
LEMMA StutterStep ==
    ASSUME IInv, UNCHANGED parallelVars
    PROVE  IInv'
<1>1. /\ layout' = layout /\ phase' = phase /\ group' = group /\ plans' = plans
      /\ threads' = threads /\ next' = next /\ spawned' = spawned
      /\ spawn_error' = spawn_error /\ scan_error' = scan_error
      /\ worker_panic' = worker_panic /\ outputs' = outputs /\ event' = event
      /\ delivered' = delivered /\ result' = result
    BY DEF parallelVars, errorVars, deliverVars, loopVars
<1>2. /\ First' = First /\ Limit' = Limit /\ Partitions' = Partitions
      /\ Workers' = Workers /\ Groups' = Groups /\ PlanCount' = PlanCount
    BY <1>1, SameGroup
<1>3. OtherGroups' /\ Running' = Running /\ Verdict' = Verdict /\ AllOutput' = AllOutput
    BY <1>1, SameOtherGroups
<1>4. TypeOK'
    BY <1>1, <1>2, Setting DEF TypeOK
<1>5. (\A p : Started(p)' <=> Started(p)) /\ NoErrors' = NoErrors
      /\ NothingStored' = NothingStored
    BY <1>1, <1>2 DEF Started, NoErrors, NothingStored
<1>6. IsFirst(scan_error, "error")' = IsFirst(scan_error, "error")
      /\ IsFirst(worker_panic, "panic")' = IsFirst(worker_panic, "panic")
    BY <1>1, <1>2 DEF IsFirst
<1>7. PlanInv' /\ SpawnInv' /\ ScanInv'
    BY <1>1, <1>2, <1>5 DEF IInv, PlanInv, SpawnInv, ScanInv
<1>8. JoinInv'
    BY <1>1, <1>2, <1>5, <1>6 DEF IInv, JoinInv
<1>9. UnwindInv' /\ DeliverInv' /\ EndInv' /\ CallbacksComeLast'
    BY <1>1, <1>2, <1>3
       DEF IInv, UnwindInv, DeliverInv, EndInv, Ended, CallbacksComeLast, Panicked
<1>10. QED
    BY <1>1, <1>3, <1>4, <1>7, <1>8, <1>9 DEF IInv

\* The inductive invariant holds of every call.
LEMMA Inductive == Spec => []IInv
<1>1. IInv /\ [Next]_parallelVars => IInv'
    <2> SUFFICES ASSUME IInv, [Next]_parallelVars PROVE IInv'
        OBVIOUS
    <2>1. CASE Plan
        BY <2>1, PlanStep
    <2>2. CASE PlanFails
        BY <2>2, PlanFailsStep
    <2>3. CASE Spawn
        BY <2>3, SpawnStep
    <2>4. CASE SpawnFails
        BY <2>4, SpawnFailsStep
    <2>5. CASE StartOwnScan
        BY <2>5, StartOwnScanStep
    <2>6. CASE \E o \in Outcome : OwnScanEnds(o)
        BY <2>6, OwnScanEndsStep
    <2>7. CASE Join
        BY <2>7, JoinStep
    <2>8. CASE ResumePanic
        BY <2>8, ResumePanicStep
    <2>9. CASE ReturnError
        BY <2>9, ReturnErrorStep
    <2>10. CASE NextGroup
        BY <2>10, NextGroupStep
    <2>11. CASE StartDelivery
        BY <2>11, StartDeliveryStep
    <2>12. CASE ScopeUnwinds
        BY <2>12, ScopeUnwindsStep
    <2>13. CASE CallSink
        BY <2>13, CallSinkStep
    <2>14. CASE NextBuffer
        BY <2>14, NextBufferStep
    <2>15. CASE Return
        BY <2>15, ReturnStep
    <2>16. CASE \E p \in Partitions : Worker(p)
        BY <2>16, WorkerEndsStep DEF Worker
    <2>17. CASE UNCHANGED parallelVars
        BY <2>17, StutterStep
    <2>18. QED
        BY <2>1, <2>2, <2>3, <2>4, <2>5, <2>6, <2>7, <2>8, <2>9, <2>10, <2>11, <2>12,
           <2>13, <2>14, <2>15, <2>16, <2>17 DEF Next, Caller
<1>2. QED
    BY <1>1, InitIInv, PTL DEF Spec

-----------------------------------------------------------------------------
(* The theorems. *)

\* Type correctness of the parallel scan (scan_parallel_with_hooks).
THEOREM ParallelTypes == Spec => []TypeOK
<1>1. IInv => TypeOK
    BY DEF IInv
<1>2. QED
    BY <1>1, Inductive, PTL

\* For every layout and every interleaving, the outcomes of the threads decide how
\* the scan ends (the panic, then spawn_error, then scan_error of the join loop).
THEOREM VerdictIsDetermined == Spec => []ResultIsDetermined
<1>1. IInv => ResultIsDetermined
    BY DEF IInv, EndInv, ResultIsDetermined
<1>2. QED
    BY <1>1, Inductive, PTL

\* The expect on each partition's output never fails.
THEOREM OutputsAreKept == Spec => []EveryOutputKept
<1>1. IInv => EveryOutputKept
    BY SucceededFacts DEF EveryOutputKept
<1>2. QED
    BY <1>1, Inductive, PTL

\* No callback is invoked unless every thread ended with an output.
THEOREM CallbacksAreLast == Spec => []CallbacksComeLast
<1>1. IInv => CallbacksComeLast
    BY DEF IInv
<1>2. QED
    BY <1>1, Inductive, PTL

\* The call never ends, nor delivers, with a scan still running.
THEOREM NoThreadOutlives == Spec => []NoThreadOutlivesTheCall
<1>1. IInv => NoThreadOutlivesTheCall
    BY DEF IInv, EndInv, DeliverInv, AllOutput, NoThreadOutlivesTheCall, Running, Ended
<1>2. QED
    BY <1>1, Inductive, PTL

\* A mixed matcher of one worker never scans two partitions at once, and no other
\* matcher more than its workers.
THEOREM WithinRequest == Spec => []WithinRequestedWorkers
<1>1. IInv => WithinRequestedWorkers
    <2> SUFFICES ASSUME IInv PROVE WithinRequestedWorkers
        OBVIOUS
    <2>1. Running \subseteq First..(Limit - 1)
        <3>1. \A p \in Running : ~ (p < First) /\ ~ (p >= Limit) /\ p \in Nat
            BY Setting DEF Running, OtherGroups
        <3>2. QED
            BY <3>1, Setting
    <2>2. IsFiniteSet(First..(Limit - 1)) /\ Cardinality(First..(Limit - 1)) = Limit - First
        <3>1. First \in Int /\ Limit - 1 \in Int /\ First <= Limit - 1
            BY Setting
        <3>2. /\ IsFiniteSet(First..(Limit - 1))
              /\ Cardinality(First..(Limit - 1)) = (Limit - 1) - First + 1
            BY <3>1, FS_Interval
        <3>3. QED
            BY <3>1, <3>2, Setting
    <2>3. Cardinality(Running) <= Limit - First /\ Cardinality(Running) \in Nat
        BY <2>1, <2>2, FS_Subset, FS_CardinalityType
    <2>4. Limit - First <= layout.worker_count /\ layout.worker_count \in Nat
        BY Setting, GroupShape
    <2>5. QED
        BY <2>3, <2>4, Setting DEF WithinRequestedWorkers
<1>2. QED
    BY <1>1, Inductive, PTL

-----------------------------------------------------------------------------
(* What a scan has to deliver: the matches of the partitions, one after the *)
(* other.                                                                   *)

\* The first k matches of partition p, of which it has layout.events[p].
FirstOf(p, k) == [i \in 1..k |-> <<p, i - 1>>]
Buffers == [i \in 1..layout.partitions |-> FirstOf(i - 1, layout.events[i - 1])]
Match == Nat \X Nat

\* The matches of the partitions before p.
IsBefore(F) ==
    /\ F \in [0..layout.partitions -> Seq(Match)]
    /\ F[0] = << >>
    /\ \A i \in 1..layout.partitions : F[i] = F[i - 1] \o Buffers[i]
Before == CHOOSE F : IsBefore(F)

\* They are matches, as many as asked for.
LEMMA FirstOfType ==
    ASSUME NEW p \in Nat, NEW k \in Nat
    PROVE  FirstOf(p, k) \in Seq(Match) /\ Len(FirstOf(p, k)) = k
<1>1. FirstOf(p, k) \in [1..k -> Match]
    BY DEF FirstOf, Match
<1>2. QED
    BY <1>1, IsASeq DEF FirstOf

\* Two sequences of matches, one after the other.
LEMMA Concat ==
    ASSUME NEW s \in Seq(Match), NEW t \in Seq(Match)
    PROVE  /\ s \o t \in Seq(Match)
           /\ Len(s \o t) = Len(s) + Len(t)
           /\ \A j \in 1..Len(s) : (s \o t)[j] = s[j]
           /\ \A j \in 1..Len(t) : (s \o t)[Len(s) + j] = t[j]
<1>1. Len(s) \in Nat /\ Len(t) \in Nat
    BY LenProperties
<1>2. QED
    BY <1>1, ConcatProperties

\* The recursion has a solution, and at its end are all the matches.
LEMMA BeforeFacts ==
    ASSUME layout \in Layouts
    PROVE  IsBefore(Before) /\ Events(layout) = Before[layout.partitions]
<1> DEFINE n == layout.partitions
<1>1. n \in Nat /\ n > 1 /\ layout.events \in [0..(n - 1) -> Nat]
    BY LayoutsAssumption
<1>2. Buffers \in Seq(Seq(Match)) /\ Len(Buffers) = n
    <2>1. ASSUME NEW i \in 1..n PROVE FirstOf(i - 1, layout.events[i - 1]) \in Seq(Match)
        <3>1. i - 1 \in Nat /\ layout.events[i - 1] \in Nat
            BY <1>1
        <3>2. QED
            BY <3>1, FirstOfType
    <2>2. Buffers \in [1..n -> Seq(Match)]
        BY <2>1 DEF Buffers
    <2>3. Len(Buffers) = n
        BY <1>1 DEF Buffers
    <2> HIDE DEF n
    <2>4. QED
        BY <1>1, <2>2, <2>3, IsASeq
<1>3. \E F : IsBefore(F)
    <2> DEFINE g == [x \in (1..n) \X Seq(Match) |-> x[2] \o Buffers[x[1]]]
    <2>1. g \in [(1..n) \X Seq(Match) -> Seq(Match)]
        <3>1. ASSUME NEW x \in (1..n) \X Seq(Match) PROVE x[2] \o Buffers[x[1]] \in Seq(Match)
            <4>1. Buffers[x[1]] \in Seq(Match)
                BY <1>2, ElementOfSeq
            <4>2. QED
                BY <4>1, ConcatProperties
        <3>2. QED
            BY <3>1
    <2>2. << >> \in Seq(Match)
        OBVIOUS
    <2> HIDE DEF n
    <2>3. PICK F \in [0..n -> Seq(Match)] :
              F[0] = << >> /\ \A i \in 1..n : F[i] = g[<<i, F[i - 1]>>]
        <3> HIDE DEF g
        <3>1. Along(Seq(Match), n, << >>, g) # {}
            BY <1>1, <2>1, <2>2, Recursion
        <3>2. QED
            BY <3>1 DEF Along
    <2>4. ASSUME NEW i \in 1..n PROVE F[i] = F[i - 1] \o Buffers[i]
        <3>1. F[i - 1] \in Seq(Match)
            BY <2>3, <1>1
        <3>2. QED
            BY <3>1, <2>3
    <2>5. IsBefore(F)
        BY <2>3, <2>4 DEF IsBefore, n
    <2>6. QED
        BY <2>5
<1>4. IsBefore(Before)
    BY <1>3 DEF Before
<1>5. Events(layout) = FlattenSeq(Buffers)
    BY DEF Events, Buffers, FirstOf
<1>6. FlattenSeq(Buffers) = Before[n]
    <2>1. /\ Before \in [0..Len(Buffers) -> Seq(Match)] /\ Before[0] = << >>
          /\ \A i \in 1..Len(Buffers) : Before[i] = Before[i - 1] \o Buffers[i]
          /\ Len(Buffers) > 0
        <3>1. Len(Buffers) = layout.partitions
            BY <1>2
        <3>2. Len(Buffers) > 0
            BY <1>1, <3>1
        <3>3. QED
            BY <1>4, <3>1, <3>2, Zenon DEF IsBefore
    <2>2. FlattenSeq(Buffers) = Before[Len(Buffers)]
        BY <1>2, <2>1, FlattenIs
    <2>3. QED
        BY <1>2, <2>2
<1>7. QED
    BY <1>4, <1>5, <1>6

\* After a partition's matches come the next one's.
LEMMA AfterBuffer ==
    ASSUME layout \in Layouts, NEW p \in 0..(layout.partitions - 1)
    PROVE  Before[p + 1] = Before[p] \o FirstOf(p, layout.events[p])
<1>1. p + 1 \in 1..layout.partitions /\ (p + 1) - 1 = p
    BY LayoutsAssumption
<1>2. Before[p + 1] = Before[(p + 1) - 1] \o Buffers[p + 1]
    BY <1>1, BeforeFacts DEF IsBefore
<1>3. Buffers[p + 1] = FirstOf((p + 1) - 1, layout.events[(p + 1) - 1])
    BY <1>1 DEF Buffers
<1>4. QED
    BY <1>1, <1>2, <1>3

\* s comes first in t.
Starts(s, t) == Len(s) <= Len(t) /\ \A j \in 1..Len(s) : t[j] = s[j]

\* To come first in a sequence is to come first in a longer one.
LEMMA StartsLonger ==
    ASSUME NEW s \in Seq(Match), NEW t \in Seq(Match), NEW v \in Seq(Match), Starts(s, t)
    PROVE  Starts(s, t \o v)
<1>1. Len(s) \in Nat /\ Len(t) \in Nat /\ Len(v) \in Nat
    BY LenProperties
<1>2. /\ Len(t \o v) = Len(t) + Len(v)
      /\ \A i \in 1..Len(t) : (t \o v)[i] = t[i]
    BY <1>1, ConcatProperties
<1>3. QED
    BY <1>1, <1>2 DEF Starts

\* What is delivered before a partition's matches is where all the matches start.
LEMMA BeforeStarts ==
    ASSUME layout \in Layouts, NEW p \in 0..layout.partitions
    PROVE  Starts(Before[p], Events(layout))
<1> DEFINE n == layout.partitions
           Good == { i \in 0..n : p <= i => Starts(Before[p], Before[i]) }
<1>1. IsBefore(Before) /\ Events(layout) = Before[n] /\ n \in Nat
    BY BeforeFacts, LayoutsAssumption
<1>2. \A i \in 0..n : Before[i] \in Seq(Match)
    BY <1>1 DEF IsBefore
<1>3. 0 \in Good
    <2>1. Len(Before[0]) \in Nat
        BY <1>1, <1>2, LenProperties
    <2>2. QED
        BY <1>1, <2>1 DEF Starts
<1>4. ASSUME NEW i \in 1..n, i - 1 \in Good PROVE i \in Good
    <2> SUFFICES ASSUME p <= i PROVE Starts(Before[p], Before[i])
        OBVIOUS
    <2>1. CASE p = i
        <3>1. Len(Before[p]) \in Nat
            BY <1>2, LenProperties
        <3>2. QED
            BY <2>1, <3>1 DEF Starts
    <2>2. CASE p # i
        <3>1. p <= i - 1 /\ i - 1 \in 0..n
            BY <2>2, <1>1
        <3>2. Starts(Before[p], Before[i - 1])
            BY <1>4, <3>1
        <3>3. Before[i] = Before[i - 1] \o Buffers[i]
            BY <1>1 DEF IsBefore
        <3>4. Before[i - 1] \in Seq(Match) /\ Buffers[i] \in Seq(Match) /\ Before[p] \in Seq(Match)
            <4>1. i - 1 \in Nat /\ layout.events[i - 1] \in Nat
                BY <3>1, LayoutsAssumption
            <4>2. QED
                BY <4>1, <3>1, <1>2, FirstOfType DEF Buffers
        <3>5. QED
            BY <3>2, <3>3, <3>4, StartsLonger
    <2>3. QED
        BY <2>1, <2>2
<1>5. 0..n \subseteq Good
    <2> HIDE DEF Good
    <2>1. QED
        BY <1>1, <1>3, <1>4, Induction
<1>6. n \in Good /\ p <= n
    BY <1>1, <1>5
<1>7. QED
    BY <1>1, <1>6

\* After k of the matches of a partition comes the one numbered k.
LEMMA MatchInside ==
    ASSUME NEW s \in Seq(Match), NEW p \in Nat, NEW e \in Nat, NEW k \in 0..(e - 1),
           NEW t \in Seq(Match), Starts(s \o FirstOf(p, e), t)
    PROVE  /\ Len(s \o FirstOf(p, k)) < Len(t)
           /\ t[Len(s \o FirstOf(p, k)) + 1] = <<p, k>>
           /\ Append(s \o FirstOf(p, k), <<p, k>>) = s \o FirstOf(p, k + 1)
<1> DEFINE m == Len(s)
           sent == s \o FirstOf(p, k)
           more == s \o FirstOf(p, k + 1)
           all == s \o FirstOf(p, e)
<1>1. k \in Nat /\ k < e /\ k + 1 \in Nat
    OBVIOUS
<1>2. /\ FirstOf(p, k) \in Seq(Match) /\ Len(FirstOf(p, k)) = k
      /\ FirstOf(p, e) \in Seq(Match) /\ Len(FirstOf(p, e)) = e
      /\ FirstOf(p, k + 1) \in Seq(Match) /\ Len(FirstOf(p, k + 1)) = k + 1
    BY <1>1, FirstOfType
<1>3. m \in Nat /\ Len(t) \in Nat
    BY LenProperties
<1>4. \A i : /\ \A j \in 1..k : i = j => FirstOf(p, k)[i] = <<p, i - 1>>
             /\ \A j \in 1..e : i = j => FirstOf(p, e)[i] = <<p, i - 1>>
             /\ \A j \in 1..(k + 1) : i = j => FirstOf(p, k + 1)[i] = <<p, i - 1>>
    BY DEF FirstOf
<1>5. /\ sent \in Seq(Match) /\ Len(sent) = m + k
      /\ \A j \in 1..m : sent[j] = s[j]
      /\ \A j \in 1..k : sent[m + j] = FirstOf(p, k)[j]
    <2>1. /\ s \o FirstOf(p, k) \in Seq(Match)
          /\ Len(s \o FirstOf(p, k)) = Len(s) + Len(FirstOf(p, k))
          /\ \A j \in 1..Len(s) : (s \o FirstOf(p, k))[j] = s[j]
          /\ \A j \in 1..Len(FirstOf(p, k)) :
                (s \o FirstOf(p, k))[Len(s) + j] = FirstOf(p, k)[j]
        BY <1>2, Concat
    <2>2. QED
        BY <1>2, <2>1, Zenon
<1>6. /\ more \in Seq(Match) /\ Len(more) = m + (k + 1)
      /\ \A j \in 1..m : more[j] = s[j]
      /\ \A j \in 1..(k + 1) : more[m + j] = FirstOf(p, k + 1)[j]
    <2>1. /\ s \o FirstOf(p, k + 1) \in Seq(Match)
          /\ Len(s \o FirstOf(p, k + 1)) = Len(s) + Len(FirstOf(p, k + 1))
          /\ \A j \in 1..Len(s) : (s \o FirstOf(p, k + 1))[j] = s[j]
          /\ \A j \in 1..Len(FirstOf(p, k + 1)) :
                (s \o FirstOf(p, k + 1))[Len(s) + j] = FirstOf(p, k + 1)[j]
        BY <1>2, Concat
    <2>2. QED
        BY <1>2, <2>1, Zenon
<1>7. /\ Len(all) = m + e
      /\ \A j \in 1..m : all[j] = s[j]
      /\ \A j \in 1..e : all[m + j] = FirstOf(p, e)[j]
    <2>1. /\ s \o FirstOf(p, e) \in Seq(Match)
          /\ Len(s \o FirstOf(p, e)) = Len(s) + Len(FirstOf(p, e))
          /\ \A j \in 1..Len(s) : (s \o FirstOf(p, e))[j] = s[j]
          /\ \A j \in 1..Len(FirstOf(p, e)) :
                (s \o FirstOf(p, e))[Len(s) + j] = FirstOf(p, e)[j]
        BY <1>2, Concat
    <2>2. QED
        BY <1>2, <2>1, Zenon
<1>8. Starts(all, t)
    OBVIOUS
<1> HIDE DEF m, sent, more, all
<1>9. Len(sent) < Len(t)
    BY <1>1, <1>3, <1>5, <1>7, <1>8 DEF Starts
<1>10. t[Len(sent) + 1] = <<p, k>>
    <2>1. m + (k + 1) \in 1..(m + e) /\ k + 1 \in 1..e /\ (k + 1) - 1 = k
        BY <1>1, <1>3
    <2>2. t[m + (k + 1)] = all[m + (k + 1)]
        BY <2>1, <1>7, <1>8 DEF Starts
    <2>3. all[m + (k + 1)] = FirstOf(p, e)[k + 1]
        BY <2>1, <1>7
    <2>4. FirstOf(p, e)[k + 1] = <<p, k>>
        BY <2>1, <1>4
    <2>5. Len(sent) + 1 = m + (k + 1)
        BY <1>1, <1>3, <1>5
    <2>6. QED
        BY <2>2, <2>3, <2>4, <2>5
<1>11. Append(sent, <<p, k>>) = more
    <2>1. <<p, k>> \in Match
        BY <1>1 DEF Match
    <2> DEFINE appended == Append(sent, <<p, k>>)
    <2>2. /\ appended \in Seq(Match) /\ Len(appended) = Len(sent) + 1
          /\ \A j \in 1..Len(sent) : appended[j] = sent[j]
          /\ appended[Len(sent) + 1] = <<p, k>>
        BY <1>5, <2>1, AppendProperties
    <2> HIDE DEF appended
    <2>3. Len(appended) = m + (k + 1) /\ Len(sent) + 1 = m + (k + 1)
        BY <2>2, <1>1, <1>3, <1>5
    <2>4. ASSUME NEW j \in 1..(m + (k + 1)) PROVE appended[j] = more[j]
        <3>1. CASE j \in 1..m
            <4>1. j \in 1..Len(sent)
                BY <3>1, <1>1, <1>3, <1>5
            <4>2. QED
                BY <3>1, <4>1, <1>5, <1>6, <2>2
        <3>2. CASE j - m \in 1..k
            <4>1. j \in 1..Len(sent) /\ m + (j - m) = j /\ j - m \in 1..(k + 1)
                BY <3>2, <1>1, <1>3, <1>5
            <4>2. appended[j] = FirstOf(p, k)[j - m]
                BY <4>1, <3>2, <2>2, <1>5
            <4>3. more[j] = FirstOf(p, k + 1)[j - m]
                BY <4>1, <1>6
            <4>4. QED
                BY <4>1, <4>2, <4>3, <3>2, <1>4
        <3>3. CASE j = m + (k + 1)
            <4>1. k + 1 \in 1..(k + 1) /\ (k + 1) - 1 = k
                BY <1>1
            <4>2. more[j] = FirstOf(p, k + 1)[k + 1]
                BY <3>3, <4>1, <1>6
            <4>3. FirstOf(p, k + 1)[k + 1] = <<p, k>>
                BY <4>1, <1>4
            <4>4. QED
                BY <3>3, <4>2, <4>3, <2>2, <2>3
        <3>4. j \in 1..m \/ j - m \in 1..k \/ j = m + (k + 1)
            BY <1>1, <1>3
        <3>5. QED
            BY <3>1, <3>2, <3>3, <3>4
    <2>5. appended = more
        BY <2>2, <2>3, <2>4, <1>6, SeqEqual
    <2>6. QED
        BY <2>5 DEF appended
<1>12. QED
    BY <1>9, <1>10, <1>11 DEF sent, more

\* Match k of partition p comes after the partitions before p and k matches of its own.
LEMMA NextMatch ==
    ASSUME layout \in Layouts, NEW p \in 0..(layout.partitions - 1),
           NEW k \in 0..(layout.events[p] - 1)
    PROVE  LET sent == Before[p] \o FirstOf(p, k)
           IN  /\ Len(sent) < Len(Events(layout))
               /\ Events(layout)[Len(sent) + 1] = <<p, k>>
               /\ Append(sent, <<p, k>>) = Before[p] \o FirstOf(p, k + 1)
<1>1. /\ layout.partitions \in Nat /\ layout.events[p] \in Nat /\ p \in Nat
      /\ p + 1 \in 1..layout.partitions /\ p \in 0..layout.partitions
      /\ p + 1 \in 0..layout.partitions /\ layout.partitions \in 0..layout.partitions
    BY LayoutsAssumption
<1>2. Before[p] \in Seq(Match) /\ Events(layout) \in Seq(Match)
    BY <1>1, BeforeFacts DEF IsBefore
<1>3. Before[p + 1] = Before[p] \o FirstOf(p, layout.events[p])
    BY <1>1, AfterBuffer
<1>4. Starts(Before[p + 1], Events(layout))
    BY <1>1, BeforeStarts
<1>5. QED
    BY <1>1, <1>2, <1>3, <1>4, MatchInside

-----------------------------------------------------------------------------
(* The steps of a scan as steps of its promise.                             *)

\* What the sink was called with is what it should have been called with so far, and
\* only a call that returned counts as done.
DeliveryInv ==
    /\ phase = "deliver" =>
         /\ next < layout.partitions => event \in 0..layout.events[next]
         /\ next = layout.partitions => event = 0
         /\ delivered = Before[next] \o FirstOf(next, event)
    /\ phase \notin {"deliver", "returned", "panicked"} => event = 0
    /\ phase # "returned" => result # Done

Settled == IInv /\ DeliveryInv

Status == CASE phase = "deliver" -> "delivering"
            [] result = Done -> "complete"
            [] Ended /\ result # Done -> "failed"
            [] OTHER -> "scanning"

\* The ways to end are told apart.
LEMMA ResultsDiffer ==
    /\ Pending # Done /\ Without("plan error") # Done /\ Without("plan panic") # Done
    /\ Without("sink panic") # Done
    /\ \A p : Failed(p) # Done /\ Panicked(p) # Done
<1>1. /\ Done.kind = "ok" /\ Pending.kind = "none"
      /\ \A k : Without(k).kind = k
      /\ \A p : Failed(p).kind = "error" /\ Panicked(p).kind = "panic"
    BY DEF Done, Pending, Without, Failed, Panicked
<1>2. QED
    BY <1>1

\* The matches depend on the layout alone.
LEMMA SameBuffers ==
    ASSUME layout' = layout
    PROVE  Before' = Before /\ Events(layout)' = Events(layout)
BY DEF Before, IsBefore, Buffers, FirstOf, Match, Events

\* At the start nothing has been delivered.
LEMMA InitSettled == ASSUME Init PROVE Settled /\ Promise!Init
<1>1. IInv
    BY InitIInv
<1>2. DeliveryInv
    BY ResultsDiffer DEF Init, DeliveryInv
<1>3. Status = "scanning"
    BY ResultsDiffer DEF Init, Status, Ended
<1>4. Promise!Init
    BY <1>3 DEF Promise!Init, Init, Status
<1>5. QED
    BY <1>1, <1>2, <1>4 DEF Settled

\* A step of a scan is the step of its promise that its status shows: it fails,
LEMMA AsFail ==
    ASSUME Status = "scanning", Status' = "failed", Events(layout)' = Events(layout),
           delivered' = delivered
    PROVE  Promise!Fail
BY DEF Promise!Fail, Status

\* it begins to deliver,
LEMMA AsCommit ==
    ASSUME Status = "scanning", Status' = "delivering", Events(layout)' = Events(layout),
           delivered' = delivered
    PROVE  Promise!Commit
BY DEF Promise!Commit, Status

\* it has delivered everything,
LEMMA AsReturn ==
    ASSUME Status = "delivering", Status' = "complete", Events(layout)' = Events(layout),
           delivered' = delivered, delivered = Events(layout)
    PROVE  Promise!Return
BY DEF Promise!Return, Status

\* it calls the sink with the next match and may fail in it,
LEMMA AsCall ==
    ASSUME Status = "delivering", Status' \in {"delivering", "failed"},
           Events(layout)' = Events(layout), Len(delivered) < Len(Events(layout)),
           delivered' = Append(delivered, Events(layout)[Len(delivered) + 1])
    PROVE  Promise!CallSink
BY DEF Promise!CallSink, Status

\* or it changes nothing the promise speaks of.
LEMMA AsStutter ==
    ASSUME Status' = Status, Events(layout)' = Events(layout), delivered' = delivered
    PROVE  UNCHANGED Promise!deliveryVars
BY DEF Promise!deliveryVars, Status

\* A step before the delivery that leaves the result open, or fails.
LEMMA ScanningStep ==
    ASSUME Settled, layout' = layout, event' = event, delivered' = delivered, phase # "deliver", ~ Ended,
           phase' # "deliver", result' # Done
    PROVE  DeliveryInv' /\ [Promise!Next]_(Promise!deliveryVars)
<1>1. DeliveryInv'
    BY DEF Settled, DeliveryInv, Ended
<1>2. result # Done
    BY DEF Settled, DeliveryInv, Ended
<1>3. Status = "scanning" /\ Status' \in {"scanning", "failed"}
    BY <1>2 DEF Status
<1>4. Events(layout)' = Events(layout)
    BY SameBuffers
<1>5. Promise!Fail \/ UNCHANGED Promise!deliveryVars
    BY <1>3, <1>4, AsFail, AsStutter
<1>6. QED
    BY <1>1, <1>5 DEF Promise!Next

\* The delivery begins before the first match of the first partition.
LEMMA StartDeliverySettled ==
    ASSUME Settled, StartDelivery
    PROVE  DeliveryInv' /\ Promise!Commit
<1>1. /\ phase = "join" /\ phase' = "deliver" /\ next' = 0 /\ layout' = layout
      /\ event' = event /\ delivered' = delivered /\ result' = result
    BY DEF StartDelivery, Succeeded, Joined, deliverVars
<1>2. delivered = << >> /\ result # Done /\ event = 0 /\ layout \in Layouts
    BY <1>1, Setting DEF Settled, IInv, DeliveryInv
<1>3. /\ layout.partitions \in Nat /\ layout.partitions > 1
      /\ \A p \in 0..(layout.partitions - 1) : layout.events[p] \in Nat
    BY <1>2, LayoutsAssumption
<1>4. Before' = Before /\ Events(layout)' = Events(layout)
    BY <1>1, SameBuffers
<1>5. delivered = Before[0] \o FirstOf(0, 0)
    <2>1. FirstOf(0, 0) = << >> /\ Before[0] = << >>
        BY <1>2, BeforeFacts DEF FirstOf, IsBefore
    <2>2. QED
        BY <1>2, <2>1
<1>6. DeliveryInv'
    <2>1. next' < layout'.partitions => event' \in 0..layout'.events[next']
        BY <1>1, <1>2, <1>3
    <2>2. delivered' = Before'[next'] \o FirstOf(next', event')
        BY <1>1, <1>2, <1>4, <1>5
    <2>3. QED
        BY <1>1, <1>2, <2>1, <2>2 DEF DeliveryInv, FirstOf
<1>7. Status = "scanning" /\ Status' = "delivering"
    BY <1>1, <1>2 DEF Status, Ended
<1>8. QED
    BY <1>1, <1>4, <1>6, <1>7, AsCommit

\* Each call of the sink delivers the next match, whether or not the sink panics.
LEMMA CallSinkSettled ==
    ASSUME Settled, CallSink
    PROVE  DeliveryInv' /\ Promise!CallSink
<1>1. /\ phase = "deliver" /\ next < layout.partitions /\ event < layout.events[next]
      /\ layout' = layout /\ next' = next /\ event' = event + 1
      /\ delivered' = Append(delivered, <<next, event>>)
      /\ phase' \in {"deliver", "panicked"}
      /\ phase' = "deliver" => result' = result
      /\ phase' = "panicked" => result' = Without("sink panic")
    BY DEF CallSink, loopVars
<1>2. /\ layout \in Layouts /\ next \in 0..(layout.partitions - 1)
      /\ layout.events[next] \in Nat
    <2>1. layout \in Layouts /\ layout.partitions \in Nat /\ next \in 0..layout.partitions
        BY Setting DEF Settled, TypeOK
    <2>2. next \in 0..(layout.partitions - 1)
        <3>1. next < layout.partitions
            BY <1>1
        <3> DEFINE n == layout.partitions
        <3>2. n \in Nat /\ next \in 0..n /\ next < n => next \in 0..(n - 1)
            <4> HIDE DEF n
            <4> QED
                OBVIOUS
        <3>3. QED
            BY <2>1, <3>1, <3>2
    <2>3. QED
        BY <2>1, <2>2, LayoutsAssumption
<1>3. event \in 0..(layout.events[next] - 1) /\ event' \in 0..layout.events[next]
    <2>1. event \in 0..layout.events[next]
        BY <1>1 DEF Settled, DeliveryInv
    <2>2. event < layout.events[next] /\ event' = event + 1 /\ layout.events[next] \in Nat
        BY <1>1, <1>2
    <2> DEFINE count == layout.events[next]
    <2>3. count \in Nat /\ event \in 0..count /\ event < count
          => event \in 0..(count - 1) /\ event + 1 \in 0..count
        <3> HIDE DEF count
        <3> QED
            OBVIOUS
    <2>4. QED
        BY <2>1, <2>2, <2>3
<1>4. delivered = Before[next] \o FirstOf(next, event) /\ result # Done
    BY <1>1 DEF Settled, DeliveryInv
<1>5. /\ Len(delivered) < Len(Events(layout))
      /\ Events(layout)[Len(delivered) + 1] = <<next, event>>
      /\ Append(delivered, <<next, event>>) = Before[next] \o FirstOf(next, event + 1)
    BY <1>2, <1>3, <1>4, NextMatch, Zenon
<1>6. Before' = Before /\ Events(layout)' = Events(layout)
    BY <1>1, SameBuffers
<1>7. DeliveryInv'
    <2>1. result' # Done
        BY <1>1, <1>4, ResultsDiffer DEF Done
    <2>2. FirstOf(next, event)' = FirstOf(next, event + 1)
        BY <1>1 DEF FirstOf
    <2>3. delivered' = Before'[next'] \o FirstOf(next', event')
        <3>1. delivered' = Before[next] \o FirstOf(next, event + 1)
            BY <1>1, <1>5
        <3>2. QED
            BY <1>1, <1>6, <3>1
    <2>4. next' < layout'.partitions => event' \in 0..layout'.events[next']
        BY <1>1, <1>3
    <2>5. next' # layout'.partitions
        <3>1. next # layout.partitions
            <4> DEFINE n == layout.partitions
            <4>1. n \in Nat /\ next \in 0..(n - 1) => next # n
                <5> HIDE DEF n
                <5> QED
                    OBVIOUS
            <4>2. layout.partitions \in Nat
                BY <1>2, LayoutsAssumption
            <4>3. QED
                BY <1>2, <4>1, <4>2
        <3>2. QED
            BY <1>1, <3>1
    <2>6. FirstOf(next, event)' = FirstOf(next', event')
        BY DEF FirstOf
    <2>7. QED
        BY <1>1, <2>1, <2>3, <2>4, <2>5, <2>6 DEF DeliveryInv
<1>8. Status = "delivering" /\ Status' \in {"delivering", "failed"}
    <2>1. Status = "delivering"
        BY <1>1, <1>4 DEF Status, Ended
    <2>2. CASE phase' = "deliver"
        <3>1. result' # Done
            BY <1>1, <1>4, <2>2 DEF Done, Without
        <3>2. Status' = "delivering"
            BY <2>2, <3>1 DEF Status, Ended
        <3>3. QED
            BY <2>1, <3>2
    <2>3. CASE phase' = "panicked"
        <3>1. result' # Done
            BY <1>1, <2>3, ResultsDiffer DEF Done
        <3>2. Status' = "failed"
            BY <2>3, <3>1 DEF Status, Ended
        <3>3. QED
            BY <2>1, <3>2
    <2>4. QED
        BY <1>1, <2>2, <2>3
<1>9. QED
    BY <1>1, <1>5, <1>6, <1>7, <1>8, AsCall

\* At the end of a partition's matches nothing is delivered.
LEMMA NextBufferSettled ==
    ASSUME Settled, NextBuffer
    PROVE  DeliveryInv' /\ UNCHANGED Promise!deliveryVars
<1>1. /\ phase = "deliver" /\ next < layout.partitions /\ event = layout.events[next]
      /\ layout' = layout /\ next' = next + 1 /\ event' = 0 /\ phase' = phase
      /\ delivered' = delivered /\ result' = result
    BY DEF NextBuffer
<1>2. /\ layout \in Layouts /\ next \in 0..(layout.partitions - 1) /\ next + 1 \in 1..layout.partitions
      /\ \A p \in 0..(layout.partitions - 1) : layout.events[p] \in Nat
    <2>1. layout \in Layouts /\ layout.partitions \in Nat /\ next \in 0..layout.partitions
        BY Setting DEF Settled, TypeOK
    <2>2. next \in 0..(layout.partitions - 1) /\ next + 1 \in 1..layout.partitions
        BY <1>1, <2>1
    <2>3. QED
        BY <2>1, <2>2, LayoutsAssumption
<1>3. delivered = Before[next] \o FirstOf(next, event) /\ result # Done
    BY <1>1 DEF Settled, DeliveryInv
<1>4. Before' = Before /\ Events(layout)' = Events(layout)
    BY <1>1, SameBuffers
<1>5. Before[next + 1] = Before[next] \o FirstOf(next, event)
    BY <1>1, <1>2, AfterBuffer
<1>6. Before[next + 1] \o FirstOf(next + 1, 0) = Before[next + 1]
    <2>1. Before[next + 1] \in Seq(Match)
        BY <1>2, BeforeFacts DEF IsBefore
    <2>2. FirstOf(next + 1, 0) = << >>
        BY DEF FirstOf
    <2>3. QED
        BY <2>1, <2>2, ConcatEmptySeq
<1>7. DeliveryInv'
    <2>1. delivered' = Before'[next'] \o FirstOf(next', event')
        BY <1>1, <1>3, <1>4, <1>5, <1>6
    <2>2. FirstOf(next, event)' = FirstOf(next', event')
        BY DEF FirstOf
    <2>3. next' < layout'.partitions => event' \in 0..layout'.events[next']
        <3>1. ASSUME next + 1 < layout.partitions  PROVE layout.events[next + 1] \in Nat
            <4> DEFINE n == layout.partitions
            <4>1. n \in Nat /\ next + 1 \in 1..n /\ next + 1 < n => next + 1 \in 0..(n - 1)
                <5> HIDE DEF n
                <5> QED
                    OBVIOUS
            <4>2. layout.partitions \in Nat
                BY <1>2, LayoutsAssumption
            <4>3. QED
                BY <1>2, <3>1, <4>1, <4>2
        <3>2. ASSUME next + 1 < layout.partitions  PROVE 0 \in 0..layout.events[next + 1]
            BY <3>1, <3>2
        <3>3. QED
            BY <1>1, <3>2
    <2>4. QED
        BY <1>1, <1>3, <2>1, <2>2, <2>3 DEF DeliveryInv
<1>8. Status' = Status
    BY <1>1 DEF Status
<1>9. QED
    BY <1>1, <1>4, <1>7, <1>8, AsStutter

\* After the last partition every match has been delivered.
LEMMA ReturnSettled ==
    ASSUME Settled, Return
    PROVE  DeliveryInv' /\ Promise!Return
<1>1. /\ phase = "deliver" /\ next = layout.partitions /\ phase' = "returned"
      /\ layout' = layout /\ delivered' = delivered /\ result' = Done
    BY DEF Return, deliverVars
<1>2. delivered = Before[next] \o FirstOf(next, 0) /\ layout \in Layouts
    BY <1>1, Setting DEF Settled, DeliveryInv
<1>3. Events(layout)' = Events(layout)
    BY <1>1, SameBuffers
<1>0. result # Done
    BY <1>1 DEF Settled, DeliveryInv
<1>4. delivered = Events(layout)
    <2>1. Before[next] \in Seq(Match) /\ Before[next] = Events(layout)
        <3>1. layout.partitions \in 0..layout.partitions
            BY <1>2, LayoutsAssumption
        <3>2. QED
            BY <1>1, <1>2, <3>1, BeforeFacts DEF IsBefore
    <2>2. FirstOf(next, 0) = << >>
        BY DEF FirstOf
    <2>3. QED
        BY <1>2, <2>1, <2>2, ConcatEmptySeq
<1>5. Status = "delivering" /\ Status' = "complete"
    <2>1. Status = "delivering"
        BY <1>0, <1>1 DEF Status, Ended
    <2>2. phase' # "deliver" /\ result' = Done /\ Done' = Done
        BY <1>1 DEF Done, Without
    <2>3. Status' = "complete"
        BY <2>2 DEF Status, Ended
    <2>4. QED
        BY <2>1, <2>3
<1>6. DeliveryInv'
    BY <1>1 DEF DeliveryInv
<1>7. QED
    BY <1>1, <1>3, <1>4, <1>5, <1>6, AsReturn

\* A step that changes nothing settles nothing.
LEMMA StutterSettled ==
    ASSUME Settled, UNCHANGED parallelVars
    PROVE  DeliveryInv' /\ UNCHANGED Promise!deliveryVars
<1>1. /\ layout' = layout /\ phase' = phase /\ next' = next /\ event' = event
      /\ delivered' = delivered /\ result' = result
    BY DEF parallelVars, loopVars, deliverVars
<1>2. Before' = Before /\ Events(layout)' = Events(layout)
    BY <1>1, SameBuffers
<1>3. FirstOf(next, event)' = FirstOf(next, event)
    BY <1>1 DEF FirstOf
<1>4. DeliveryInv'
    BY <1>1, <1>2, <1>3 DEF Settled, DeliveryInv
<1>5. Status' = Status
    BY <1>1 DEF Status, Ended
<1>6. QED
    BY <1>1, <1>2, <1>4, <1>5, AsStutter

\* Every step before the delivery, and every step of a call that fails.
LEMMA OtherSettled ==
    ASSUME Settled,
           \/ Plan \/ PlanFails \/ Spawn \/ SpawnFails \/ StartOwnScan
           \/ (\E o \in Outcome : OwnScanEnds(o)) \/ Join \/ ResumePanic \/ ReturnError
           \/ NextGroup \/ ScopeUnwinds \/ (\E p \in Partitions : Worker(p))
    PROVE  DeliveryInv' /\ [Promise!Next]_(Promise!deliveryVars)
<1>1. phase # "returned" => result # Done
    BY DEF Settled, DeliveryInv
<1>2. layout' = layout /\ event' = event /\ delivered' = delivered
    BY DEF Plan, PlanFails, Spawn, SpawnFails, StartOwnScan, OwnScanEnds, Join, ResumePanic,
           ReturnError, NextGroup, ScopeUnwinds, Worker, WorkerEnds, deliverVars
<1>3. CASE ~ \E p \in Partitions : Worker(p)
    <2>1. phase # "deliver" /\ ~ Ended /\ phase' # "deliver"
        BY <1>3 DEF Plan, PlanFails, Spawn, SpawnFails, StartOwnScan, OwnScanEnds, Join,
               ResumePanic, ReturnError, NextGroup, ScopeUnwinds, Joined, Succeeded, Ended
    <2>2. result' # Done
        BY <1>1, <1>3, <2>1, ResultsDiffer
           DEF Plan, PlanFails, Spawn, SpawnFails, StartOwnScan, OwnScanEnds, Join, Ended,
               ResumePanic, ReturnError, NextGroup, ScopeUnwinds, Joined, Succeeded
    <2>3. QED
        BY <1>2, <2>1, <2>2, ScanningStep
<1>4. CASE \E p \in Partitions : Worker(p)
    <2>1. /\ phase' = phase /\ result' = result /\ next' = next
        BY <1>4 DEF Worker, WorkerEnds, loopVars
    <2>2. Running # {}
        <3>1. PICK p \in Partitions : threads[p] = "running"
            BY <1>4 DEF Worker, WorkerEnds
        <3>2. QED
            BY <3>1 DEF Running
    <2>3. phase # "deliver" /\ ~ Ended
        <3>1. phase = "deliver" => Running = {}
            BY DEF Settled, IInv, DeliverInv, AllOutput, Running
        <3>2. Ended => Running = {}
            BY DEF Settled, IInv, EndInv
        <3>3. QED
            BY <2>2, <3>1, <3>2
    <2>4. QED
        BY <1>1, <1>2, <2>1, <2>3, ScanningStep DEF Ended
<1>5. QED
    BY <1>3, <1>4

\* Matcher::scan over several partitions keeps its promise, for every layout, every
\* interleaving and every failure: no callback unless all partitions succeeded, and then
\* every match once, in partition order, up to a panic of the sink.
THEOREM ParallelImplementsDelivery == Spec => ImplementsDelivery
<1>1. Init => Settled /\ Promise!Init
    BY InitSettled
<1>2. Settled /\ [Next]_parallelVars
        => DeliveryInv' /\ [Promise!Next]_(Promise!deliveryVars)
    <2> SUFFICES ASSUME Settled, [Next]_parallelVars
                 PROVE  DeliveryInv' /\ [Promise!Next]_(Promise!deliveryVars)
        OBVIOUS
    <2>1. CASE StartDelivery
        BY <2>1, StartDeliverySettled DEF Promise!Next
    <2>2. CASE CallSink
        BY <2>2, CallSinkSettled DEF Promise!Next
    <2>3. CASE NextBuffer
        BY <2>3, NextBufferSettled
    <2>4. CASE Return
        BY <2>4, ReturnSettled DEF Promise!Next
    <2>5. CASE UNCHANGED parallelVars
        BY <2>5, StutterSettled
    <2>6. QED
        BY <2>1, <2>2, <2>3, <2>4, <2>5, OtherSettled DEF Next, Caller
<1>3. Settled /\ IInv' /\ DeliveryInv' => Settled'
    BY DEF Settled
<1>4. QED
    BY <1>1, <1>2, <1>3, Inductive, PTL DEF Spec, ImplementsDelivery, Promise!Spec
==============================================================================
