-------------------------- MODULE KubeModule_proofs --------------------------
(* Theorems about KubeModule, for every set of hosts, objects and calls.    *)
EXTENDS KubeModule, TLAPS

\* What a call of the model is, the call of an idle host included.
LEMMA CallFacts ==
  ASSUME NEW c \in Calls \cup {NoCall}
  PROVE  /\ c \in Call
         /\ c.by = "name" => \E o \in Objects : c.objs = {o}
<1>1. CASE c \in Calls
  BY <1>1, CallsAssumption
<1>2. CASE c = NoCall
  <2>1. c \in Call
    BY <1>2 DEF Call, NoCall, States, Ways
  <2>2. c.by = "type"
    BY <1>2 DEF NoCall
  <2> QED
    BY <2>1, <2>2
<1> QED
  BY <1>1, <1>2

LEMMA TargetsType ==
  ASSUME TypeOK, NEW c \in Calls \cup {NoCall}
  PROVE  Targets(c) \in SUBSET Objects
BY CallFacts DEF Targets, Present, Call

\* Failures stay within their bound.
LEMMA BreakType ==
  ASSUME TypeOK, NEW h \in Hosts, Break(h)
  PROVE  broken' \in [Hosts -> 0 .. MaxBroken]
<1>1. broken[h] \in 0 .. MaxBroken /\ broken[h] < MaxBroken
  BY DEF TypeOK, Break
<1>2. broken[h] + 1 \in 0 .. MaxBroken
  BY <1>1, BoundsAssumption
<1> QED
  BY <1>2 DEF TypeOK, Break

\* The history variables have their types and grow within an attempt.
LEMMA HistoryType ==
  ASSUME TypeOK, History
  PROVE  gone' \in [Hosts -> SUBSET Objects] /\ current' \in [Hosts -> SUBSET Objects]
<1>1. ASSUME NEW seen \in [Hosts -> SUBSET Objects], NEW s
      PROVE  Follow(seen, s) \in [Hosts -> SUBSET Objects]
  BY <1>1 DEF Follow
<1> QED
  BY <1>1 DEF TypeOK, History

LEMMA HistoryGrows ==
  ASSUME TypeOK, History, NEW h \in Hosts, pc'[h] \notin {"idle", "start"}
  PROVE  /\ gone'[h] = gone[h] \cup {o \in Objects : cluster'[o] = "none"}
         /\ current'[h] = current[h] \cup {o \in Objects : cluster'[o] = "ours"}
BY DEF TypeOK, History, Follow

-----------------------------------------------------------------------------
\* Type correctness of the calls, of what kubectl goes through and of the
\* cluster.
THEOREM TypeCorrect == Spec => []TypeOK
<1>1. Init => TypeOK
  BY BoundsAssumption DEF Init, TypeOK
<1>2. TypeOK /\ [Next]_vars => TypeOK'
  <2> SUFFICES ASSUME TypeOK, [Next]_vars PROVE TypeOK'
    OBVIOUS
  <2>1. History \/ UNCHANGED <<gone, current>>
    BY DEF Next, Step, Begin, Enter, Look, LookFails, Lookup, Command, CommandFails,
           Apply, Replace, Delete, Finish, Retry, NextTask, Other, vars
  <2>2. gone' \in [Hosts -> SUBSET Objects] /\ current' \in [Hosts -> SUBSET Objects]
    BY <2>1, HistoryType DEF TypeOK
  <2>3. ASSUME NEW h \in Hosts, NEW c \in Calls, Begin(h, c) PROVE TypeOK'
    BY <2>2, <2>3, BoundsAssumption DEF TypeOK, Begin
  <2>4. ASSUME NEW h \in Hosts, Enter(h) PROVE TypeOK'
    BY <2>2, <2>4 DEF TypeOK, Enter
  <2>5. ASSUME NEW h \in Hosts, Look(h) \/ LookFails(h) PROVE TypeOK'
    <3>1. broken' \in [Hosts -> 0 .. MaxBroken]
      BY <2>5, BreakType DEF TypeOK, Look, LookFails
    <3>2. PICK found \in BOOLEAN : Lookup(h, found)
      BY <2>5 DEF Look, LookFails, Exists
    <3>3. CASE Return(h, "ok")
      BY <2>2, <3>1, <3>2, <3>3 DEF TypeOK, Lookup, Return
    <3>4. CASE ~Return(h, "ok")
      BY <2>2, <3>1, <3>2, <3>4 DEF TypeOK, Lookup
    <3> QED
      BY <3>3, <3>4
  <2>6. ASSUME NEW h \in Hosts, Command(h) PROVE TypeOK'
    <3>1. Targets(call[h]) \in SUBSET Objects
      BY TargetsType DEF TypeOK
    <3>2. CASE Rejected(call[h])
      <4>1. Return(h, "failed") /\ UNCHANGED <<cluster, call, tries, broken, others>>
        BY <2>6, <3>2 DEF Command
      <4> QED
        BY <2>2, <4>1 DEF TypeOK, Return
    <3>3. CASE ~Rejected(call[h])
      BY <2>2, <2>6, <3>1, <3>3 DEF TypeOK, Command
    <3> QED
      BY <3>2, <3>3
  <2>7. ASSUME NEW h \in Hosts, CommandFails(h) PROVE TypeOK'
    <3>1. broken' \in [Hosts -> 0 .. MaxBroken]
      BY <2>7, BreakType DEF CommandFails
    <3> QED
      BY <2>2, <2>7, <3>1 DEF TypeOK, CommandFails, Return
  <2>8. ASSUME NEW h \in Hosts, NEW o \in todo[h], Apply(h, o) \/ Replace(h, o) \/ Delete(h, o)
        PROVE  TypeOK'
    <3>1. o \in Objects
      BY <2>8 DEF TypeOK
    <3>2. CASE Apply(h, o)
      BY <2>2, <3>1, <3>2 DEF TypeOK, Apply
    <3>3. CASE Replace(h, o)
      BY <2>2, <3>1, <3>3 DEF TypeOK, Replace
    <3>4. CASE Delete(h, o)
      BY <2>2, <3>1, <3>4 DEF TypeOK, Delete
    <3> QED
      BY <2>8, <3>2, <3>3, <3>4
  <2>9. ASSUME NEW h \in Hosts, Finish(h) PROVE TypeOK'
    BY <2>2, <2>9 DEF TypeOK, Finish, Return
  <2>10. ASSUME NEW h \in Hosts, Retry(h) PROVE TypeOK'
    BY <2>2, <2>10, BoundsAssumption DEF TypeOK, Retry
  <2>11. ASSUME NEW h \in Hosts, NextTask(h) PROVE TypeOK'
    BY <2>2, <2>11, BoundsAssumption DEF TypeOK, NextTask
  <2>12. ASSUME NEW o \in Objects, NEW s \in {"none", "other"}, Other(o, s) PROVE TypeOK'
    BY <2>2, <2>12, BoundsAssumption DEF TypeOK, Other
  <2>13. CASE UNCHANGED vars
    BY <2>13 DEF TypeOK, vars
  <2> QED
    BY <2>3, <2>4, <2>5, <2>6, <2>7, <2>8, <2>9, <2>10, <2>11, <2>12, <2>13 DEF Next, Step
<1> QED
  BY <1>1, <1>2, PTL DEF Spec
-----------------------------------------------------------------------------
(* The inductive invariant, host by host: which calls come to which step,   *)
(* that each attempt but the last has seen kubectl fail, and that kubectl's *)
(* progress through the objects is in the history.                          *)

Steps(h) ==
  /\ pc[h] = "lookup" => LooksFirst(call[h])
  /\ pc[h] = "work" => ~Rejected(call[h])
  /\ missed[h] => pc[h] = "work" /\ Strict(call[h])

Counted(h) ==
  Reliable(call[h]) =>
    /\ pc[h] \in {"start", "lookup", "command", "work"} => broken[h] + 1 >= tries[h]
    /\ pc[h] = "done" /\ result[h] = "failed" => broken[h] >= tries[h]

Owed(h) ==
  /\ call[h].state = "absent"
  /\ \/ call[h].force
     \/ call[h].by # "files" /\ broken[h] = 0
Removed(h) ==
  Owed(h) =>
    /\ pc[h] = "work" => call[h].objs \subseteq gone[h] \cup todo[h]
    /\ pc[h] = "done" /\ result[h] = "ok" => call[h].objs \subseteq gone[h]

Written(h) ==
  Applies(call[h]) =>
    /\ pc[h] = "work" => call[h].objs \subseteq current[h] \cup todo[h]
    /\ pc[h] = "done" /\ result[h] = "ok" => call[h].objs \subseteq current[h]

HostInv(h) == Steps(h) /\ Counted(h) /\ Removed(h) /\ Written(h)
Inv == TypeOK /\ \A h \in Hosts : HostInv(h)

\* A step of another host or client leaves a host's part in force: its
\* history only grows.
LEMMA OthersKeep ==
  ASSUME TypeOK, History, NEW h \in Hosts, HostInv(h),
         pc'[h] = pc[h], call'[h] = call[h], todo'[h] = todo[h],
         missed'[h] = missed[h], result'[h] = result[h],
         tries'[h] = tries[h], broken'[h] = broken[h]
  PROVE  HostInv(h)'
<1>1. Steps(h)' /\ Counted(h)'
  BY DEF HostInv, Steps, Counted
<1>2. CASE pc[h] \in {"idle", "start"}
  BY <1>1, <1>2 DEF HostInv, Removed, Written
<1>3. CASE pc[h] \notin {"idle", "start"}
  <2>1. gone[h] \subseteq gone'[h] /\ current[h] \subseteq current'[h]
    BY <1>3, HistoryGrows
  <2>2. Removed(h)'
    BY <2>1 DEF HostInv, Removed, Owed
  <2>3. Written(h)'
    BY <2>1 DEF HostInv, Written
  <2> QED
    BY <1>1, <2>2, <2>3 DEF HostInv
<1> QED
  BY <1>2, <1>3

\* A call that leaves kubectl with a result keeps its part of the invariant,
\* when the result is earned.
LEMMA ReturnKeeps ==
  ASSUME TypeOK, History, NEW h \in Hosts, NEW r \in {"ok", "failed"},
         Return(h, r), UNCHANGED <<call, tries>>,
         Reliable(call[h]) /\ r = "failed" => broken'[h] >= tries[h],
         Owed(h)' /\ r = "ok" => call[h].objs \subseteq gone'[h],
         Applies(call[h]) /\ r = "ok" => call[h].objs \subseteq current'[h]
  PROVE  HostInv(h)'
<1>1. pc'[h] = "done" /\ result'[h] = r /\ ~missed'[h]
  BY DEF TypeOK, Return
<1>2. Steps(h)' /\ Counted(h)'
  BY <1>1 DEF Steps, Counted
<1>3. Removed(h)' /\ Written(h)'
  BY <1>1 DEF Removed, Written
<1> QED
  BY <1>2, <1>3 DEF HostInv

\* exists: nothing was found, or the command is run.
LEMMA LookupKeeps ==
  ASSUME TypeOK, NEW h \in Hosts, HostInv(h), NEW found \in BOOLEAN, Lookup(h, found),
         broken' \in [Hosts -> Nat], broken'[h] >= broken[h],
         broken'[h] = 0 => found = Exists(call[h])
  PROVE  HostInv(h)'
<1>1. History /\ pc[h] = "lookup" /\ UNCHANGED <<cluster, call, tries>>
  BY DEF Lookup
<1>2. LooksFirst(call[h])
  BY <1>1 DEF HostInv, Steps
<1>3. ~Applies(call[h])
  BY <1>2 DEF LooksFirst, Applies
<1>4. CASE found /\ call[h].state # "exists"
  <2>1. pc'[h] = "command" /\ ~missed'[h]
    BY <1>1, <1>4 DEF Lookup, TypeOK, HostInv, Steps
  <2>2. broken'[h] + 1 >= tries[h] \/ ~Reliable(call[h])
    <3>1. broken[h] \in Nat /\ broken'[h] \in Nat /\ tries[h] \in Nat
      BY BoundsAssumption DEF TypeOK
    <3> QED
      BY <1>1, <3>1 DEF HostInv, Counted
  <2> QED
    BY <1>1, <1>3, <2>1, <2>2 DEF HostInv, Steps, Counted, Removed, Written
<1>5. CASE ~(found /\ call[h].state # "exists")
  <2>1. Return(h, "ok") /\ pc'[h] = "done"
    BY <1>5 DEF Lookup, Return, TypeOK
  <2>2. ASSUME Owed(h)' PROVE call[h].objs \subseteq gone'[h]
    <3>1. call[h].state = "absent" /\ ~call[h].force /\ ~Exists(call[h]) /\ call[h].by # "files"
      BY <1>1, <1>2, <1>5, <2>2 DEF Owed, LooksFirst
    <3>2. call[h] \in Call /\ (call[h].by = "name" => \E o \in Objects : call[h].objs = {o})
      BY CallFacts DEF TypeOK
    <3>3. \A o \in call[h].objs : cluster[o] = "none"
      BY <3>1, <3>2 DEF Exists, Present
    <3>4. call[h].objs \subseteq Objects
      BY <3>2 DEF Call
    <3> QED
      BY <1>1, <2>1, <3>3, <3>4, HistoryGrows
  <2> QED
    BY <1>1, <1>3, <2>1, <2>2, ReturnKeeps
<1> QED
  BY <1>4, <1>5

THEOREM Inductive == Spec => []Inv
<1>1. Init => Inv
  <2> SUFFICES ASSUME Init PROVE Inv
    OBVIOUS
  <2>1. TypeOK
    BY BoundsAssumption DEF Init, TypeOK
  <2>2. ASSUME NEW h \in Hosts PROVE HostInv(h)
    BY DEF Init, HostInv, Steps, Counted, Removed, Written
  <2> QED
    BY <2>1, <2>2 DEF Inv
<1>2. TypeOK' /\ Inv /\ [Next]_vars => Inv'
  <2> SUFFICES ASSUME TypeOK', Inv, [Next]_vars PROVE Inv'
    OBVIOUS
  <2>1. TypeOK /\ \A h \in Hosts : HostInv(h)
    BY DEF Inv
  <2>2. CASE UNCHANGED vars
    BY <2>1, <2>2 DEF Inv, HostInv, Steps, Counted, Removed, Written, Owed, vars
  <2>3. ASSUME NEW o \in Objects, NEW s \in {"none", "other"}, Other(o, s) PROVE Inv'
    BY <2>1, <2>3, OthersKeep DEF Other, Inv
  <2>4. ASSUME NEW g \in Hosts, Step(g) PROVE Inv'
    <3>1. History
      BY <2>4 DEF Step, Begin, Enter, Look, LookFails, Lookup, Command, CommandFails,
             Apply, Replace, Delete, Finish, Retry, NextTask
    <3>2. ASSUME NEW h \in Hosts, h # g PROVE HostInv(h)'
      <4>1. /\ pc'[h] = pc[h] /\ call'[h] = call[h] /\ todo'[h] = todo[h]
            /\ missed'[h] = missed[h] /\ result'[h] = result[h]
            /\ tries'[h] = tries[h] /\ broken'[h] = broken[h]
        BY <2>1, <2>4, <3>2
           DEF TypeOK, Step, Begin, Enter, Look, LookFails, Lookup, Command, CommandFails,
               Apply, Replace, Delete, Finish, Retry, NextTask, Return, Break
      <4> QED
        BY <2>1, <3>1, <4>1, OthersKeep
    <3>3. ASSUME NEW c \in Calls, Begin(g, c) PROVE HostInv(g)'
      <4>1. /\ pc'[g] = "start" /\ tries'[g] = 1 /\ broken'[g] \in Nat /\ ~missed[g]
            /\ UNCHANGED missed
        BY <2>1, <3>3, BoundsAssumption DEF TypeOK, Begin, HostInv, Steps
      <4> QED
        BY <4>1 DEF HostInv, Steps, Counted, Removed, Written
    <3>4. ASSUME Enter(g) PROVE HostInv(g)'
      <4>1. pc[g] = "start" /\ pc'[g] = IF LooksFirst(call[g]) THEN "lookup" ELSE "command"
        BY <2>1, <3>4 DEF TypeOK, Enter
      <4> QED
        BY <2>1, <3>4, <4>1 DEF Enter, HostInv, Steps, Counted, Removed, Written
    <3>5. ASSUME Look(g) PROVE HostInv(g)'
      <4>1. broken \in [Hosts -> Nat]
        BY <2>1, BoundsAssumption DEF TypeOK
      <4>2. Lookup(g, Exists(call[g])) /\ Exists(call[g]) \in BOOLEAN /\ UNCHANGED broken
        BY <3>5 DEF Look, Exists
      <4> QED
        BY <2>1, <4>1, <4>2, LookupKeeps
    <3>6. ASSUME LookFails(g) PROVE HostInv(g)'
      <4>1. broken \in [Hosts -> Nat] /\ broken' \in [Hosts -> Nat]
        BY <2>1, BoundsAssumption DEF TypeOK
      <4>2. broken'[g] = broken[g] + 1
        BY <3>6, <4>1 DEF LookFails, Break
      <4> QED
        <5>1. Lookup(g, FALSE)
          BY <3>6 DEF LookFails
        <5>2. broken'[g] >= broken[g] /\ broken'[g] # 0
          BY <4>1, <4>2
        <5> QED
          BY <2>1, <4>1, <5>1, <5>2, LookupKeeps
    <3>7. ASSUME Command(g) PROVE HostInv(g)'
      <4>1. CASE Rejected(call[g])
        <5>1. ~Reliable(call[g])
          BY <4>1 DEF Rejected, Reliable, Applies
        <5> QED
          BY <2>1, <3>1, <3>7, <4>1, <5>1, ReturnKeeps DEF Command
      <4>2. CASE ~Rejected(call[g])
        <5>1. /\ pc[g] = "command" /\ pc'[g] = "work" /\ todo'[g] = Targets(call[g])
              /\ UNCHANGED <<cluster, call, tries, broken, missed>>
          BY <2>1, <3>7, <4>2 DEF TypeOK, Command
        <5>2. ~missed[g]
          BY <2>1, <5>1 DEF HostInv, Steps
        <5>3. call[g].objs \subseteq Objects
          BY <2>1, CallFacts DEF TypeOK, Call
        <5>4. call[g].objs \subseteq gone'[g] \cup todo'[g]
          <6>1. \A o \in call[g].objs : cluster[o] = "none" \/ o \in Targets(call[g])
            BY DEF Targets, Present
          <6> QED
            BY <2>1, <3>1, <5>1, <5>3, <6>1, HistoryGrows
        <5>5. Applies(call[g]) => call[g].objs \subseteq todo'[g]
          BY <4>2, <5>1 DEF Rejected, Applies, Targets
        <5> QED
          BY <2>1, <4>2, <5>1, <5>2, <5>4, <5>5
             DEF HostInv, Steps, Counted, Removed, Written, Owed
      <4> QED
        BY <4>1, <4>2
    <3>8. ASSUME CommandFails(g) PROVE HostInv(g)'
      <4>1. /\ broken[g] \in Nat /\ tries[g] \in Nat /\ broken'[g] = broken[g] + 1
            /\ pc[g] \in {"command", "work"} /\ Return(g, "failed") /\ UNCHANGED <<call, tries>>
        BY <2>1, <3>8, BoundsAssumption DEF TypeOK, CommandFails, Break
      <4>2. Reliable(call[g]) => broken'[g] >= tries[g]
        BY <2>1, <4>1 DEF HostInv, Counted
      <4> QED
        BY <2>1, <3>1, <4>1, <4>2, ReturnKeeps
    <3>9. ASSUME NEW o \in todo[g], Apply(g, o) \/ Replace(g, o) \/ Delete(g, o)
          PROVE  HostInv(g)'
      <4>1. /\ pc[g] = "work" /\ pc'[g] = "work" /\ UNCHANGED <<call, result, tries, broken>>
            /\ o \in Objects
        BY <2>1, <3>9 DEF TypeOK, Apply, Replace, Delete
      <4>2. /\ gone[g] \subseteq gone'[g] /\ current[g] \subseteq current'[g]
            /\ cluster'[o] = "none" => o \in gone'[g]
            /\ cluster'[o] = "ours" => o \in current'[g]
        BY <2>1, <3>1, <4>1, HistoryGrows
      <4>3. Counted(g)'
        BY <2>1, <4>1 DEF HostInv, Counted
      <4>4. CASE Apply(g, o)
        <5>1. /\ Applies(call[g]) /\ cluster'[o] = "ours" /\ todo'[g] = todo[g] \ {o}
              /\ UNCHANGED missed
          BY <2>1, <4>1, <4>4 DEF TypeOK, Apply
        <5>2. Steps(g)' /\ Written(g)'
          BY <2>1, <4>1, <4>2, <5>1 DEF HostInv, Steps, Written
        <5>3. Removed(g)'
          BY <4>1, <5>1 DEF Removed, Owed, Applies
        <5> QED
          BY <4>3, <5>2, <5>3 DEF HostInv
      <4>5. CASE Replace(g, o)
        <5>1. Applies(call[g]) /\ UNCHANGED <<todo, missed>>
          BY <4>5 DEF Replace
        <5>2. Steps(g)' /\ Written(g)'
          BY <2>1, <4>1, <4>2, <5>1 DEF HostInv, Steps, Written
        <5>3. Removed(g)'
          BY <4>1, <5>1 DEF Removed, Owed, Applies
        <5> QED
          BY <4>3, <5>2, <5>3 DEF HostInv
      <4>6. CASE Delete(g, o)
        <5>1. /\ call[g].state = "absent" /\ cluster'[o] = "none" /\ todo'[g] = todo[g] \ {o}
              /\ missed'[g] => missed[g] \/ Strict(call[g])
          BY <2>1, <4>1, <4>6 DEF TypeOK, Delete
        <5>2. Steps(g)' /\ Removed(g)'
          BY <2>1, <4>1, <4>2, <5>1 DEF HostInv, Steps, Removed, Owed
        <5>3. Written(g)'
          BY <4>1, <5>1 DEF Written, Applies
        <5> QED
          BY <4>3, <5>2, <5>3 DEF HostInv
      <4> QED
        BY <3>9, <4>4, <4>5, <4>6
    <3>10. ASSUME Finish(g) PROVE HostInv(g)'
      <4>1. /\ pc[g] = "work" /\ todo[g] = {} /\ UNCHANGED <<cluster, call, tries, broken>>
            /\ Return(g, IF missed[g] THEN "failed" ELSE "ok")
        BY <3>10 DEF Finish
      <4>2. pc'[g] = "done"
        BY <2>1, <4>1 DEF TypeOK, Return
      <4>3. gone[g] \subseteq gone'[g] /\ current[g] \subseteq current'[g]
        BY <2>1, <3>1, <4>2, HistoryGrows
      <4>4. missed[g] => ~Reliable(call[g])
        BY <2>1 DEF HostInv, Steps, Strict, Reliable, Applies
      <4>5. Owed(g)' => call[g].objs \subseteq gone'[g]
        BY <2>1, <4>1, <4>3 DEF HostInv, Removed, Owed
      <4>6. Applies(call[g]) => call[g].objs \subseteq current'[g]
        BY <2>1, <4>1, <4>3 DEF HostInv, Written
      <4> QED
        BY <2>1, <3>1, <4>1, <4>4, <4>5, <4>6, ReturnKeeps
    <3>11. ASSUME Retry(g) PROVE HostInv(g)'
      <4>1. /\ pc[g] = "done" /\ result[g] = "failed" /\ pc'[g] = "start"
            /\ tries'[g] = tries[g] + 1 /\ tries[g] \in Nat /\ broken[g] \in Nat
            /\ UNCHANGED <<call, missed, broken>>
        BY <2>1, <3>11, BoundsAssumption DEF TypeOK, Retry
      <4> QED
        BY <2>1, <4>1 DEF HostInv, Steps, Counted, Removed, Written
    <3>12. ASSUME NextTask(g) PROVE HostInv(g)'
      <4>1. pc[g] = "done" /\ pc'[g] = "idle" /\ UNCHANGED missed
        BY <2>1, <3>12 DEF TypeOK, NextTask
      <4> QED
        BY <2>1, <4>1 DEF HostInv, Steps, Counted, Removed, Written
    <3>13. HostInv(g)'
      BY <2>4, <3>3, <3>4, <3>5, <3>6, <3>7, <3>8, <3>9, <3>10, <3>11, <3>12 DEF Step
    <3> QED
      BY <3>2, <3>13 DEF Inv
  <2> QED
    BY <2>2, <2>3, <2>4 DEF Next
<1>3. Inv => TypeOK
  BY DEF Inv
<1> QED
  BY <1>1, <1>2, <1>3, TypeCorrect, PTL DEF Spec

-----------------------------------------------------------------------------
\* state=absent that succeeds means that the objects were gone, for every
\* number of hosts, objects, retries and steps of other clients.
THEOREM AbsentIsAbsent == Spec => []AbsentMeansAbsent
<1>1. Inv => AbsentMeansAbsent
  <2> SUFFICES ASSUME Inv, NEW h \in Hosts, Succeeded(h, {"absent"}), Owed(h)
               PROVE  call[h].objs \subseteq gone[h]
    BY DEF AbsentMeansAbsent, Owed, Succeeded
  <2> QED
    BY DEF Inv, HostInv, Removed, Succeeded
<1> QED
  BY <1>1, Inductive, PTL

\* state=present that succeeds means that the objects were as the files say.
THEOREM AppliedIsCurrent == Spec => []AppliedMeansCurrent
<1>1. Inv => AppliedMeansCurrent
  BY DEF Inv, HostInv, Written, Applies, AppliedMeansCurrent, Succeeded
<1> QED
  BY <1>1, Inductive, PTL

\* Calls that nothing but a failure of kubectl can fail, in each attempt.
THEOREM FailuresHaveReasons == Spec => []FailsForAReason
<1>1. Inv => FailsForAReason
  BY DEF Inv, HostInv, Counted, FailsForAReason
<1> QED
  BY <1>1, Inductive, PTL
=============================================================================
