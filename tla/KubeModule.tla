----------------------------- MODULE KubeModule -----------------------------
(***************************************************************************)
(* plugins/modules/kube.py, the Ansible module the roles manage Kubernetes *)
(* resources with: every call runs one or two kubectl commands.  Several   *)
(* hosts may run calls side by side, other clients change the cluster at   *)
(* any time, kubectl may fail, and Ansible repeats a failed call (until,   *)
(* retries).  What kubectl does is external, object by object.             *)
(***************************************************************************)
EXTENDS Integers

CONSTANTS
  Hosts,       \* hosts that run calls
  Objects,     \* Kubernetes objects
  Calls,       \* the calls the playbooks make
  MaxTries,    \* attempts Ansible makes of a call
  MaxBroken,   \* bound: kubectl commands that fail, per host
  MaxOthers    \* bound: steps of other clients

States == {"present", "latest", "reloaded", "absent", "stopped", "exists"}
(* How a call names its objects: definition files, a name, a label, --all,  *)
(* or a resource type alone.                                                *)
Ways == {"files", "name", "label", "all", "type"}
Call == [state : States, by : Ways, objs : SUBSET Objects, force : BOOLEAN]
NoCall == [state |-> "exists", by |-> "type", objs |-> {}, force |-> FALSE]

ASSUME CallsAssumption ==
  /\ Calls \subseteq Call
  /\ \A c \in Calls : c.by = "name" => \E o \in Objects : c.objs = {o}
ASSUME BoundsAssumption ==
  MaxTries \in Nat \ {0} /\ MaxBroken \in Nat /\ MaxOthers \in Nat

VARIABLES
  cluster,   \* object -> "none", "other" or "ours": as the files define it
  call,      \* the call each host makes, or NoCall
  pc,        \* "idle", "start", "lookup", "command", "work", "done"
  todo,      \* objects the kubectl command has not come to
  missed,    \* it found an object missing
  result,    \* "none", "ok", "failed"; what `exists' answers is not used
  tries, broken, others,
  gone,      \* history: objects that were absent at a time of the attempt
  current    \* history: objects that were as the files define them

vars == <<cluster, call, pc, todo, missed, result, tries, broken, others,
          gone, current>>

-----------------------------------------------------------------------------
(* kubectl *)

Present(os) == {o \in os : cluster[o] # "none"}

\* A fault: a label or a type is taken to match only when all objects do.
ExistsAll(c) == c.objs \subseteq Present(c.objs)

(* kubectl get fails when an object named or defined in a file is missing,  *)
(* and prints nothing when a label or a type matches none.                  *)
Exists(c) ==
  IF c.by \in {"files", "name"} THEN c.objs \subseteq Present(c.objs)
  ELSE Present(c.objs) # {}

\* A fault: --ignore-not-found is never given.
StrictForced(c) == c.state = "absent" /\ c.by \in {"files", "name"}

(* --ignore-not-found is given without files only; a selection misses none. *)
Strict(c) ==
  /\ c.state = "absent"
  /\ c.by \in {"files"} \cup (IF c.force THEN {} ELSE {"name"})

(* `kubectl stop' is no command any more, `kubectl delete' needs more than  *)
(* a type, and `apply' needs files.                                         *)
Rejected(c) ==
  \/ c.state = "stopped"
  \/ c.state = "absent" /\ c.by = "type"
  \/ c.state \in {"present", "latest", "reloaded"} /\ c.by # "files"

\* A fault: objects that are not there are left out (kubectl replace).
TargetsPresent(c) == Present(c.objs)

Targets(c) ==
  IF c.by \in {"files", "name"} THEN c.objs ELSE Present(c.objs)

-----------------------------------------------------------------------------
Applies(c) == c.state \in {"present", "latest", "reloaded"}

Init ==
  /\ cluster \in [Objects -> {"none", "other"}]
  /\ call = [h \in Hosts |-> NoCall]
  /\ pc = [h \in Hosts |-> "idle"]
  /\ todo = [h \in Hosts |-> {}]
  /\ missed = [h \in Hosts |-> FALSE]
  /\ result = [h \in Hosts |-> "none"]
  /\ tries = [h \in Hosts |-> 0]
  /\ broken = [h \in Hosts |-> 0]
  /\ others = 0
  /\ gone = [h \in Hosts |-> {}]
  /\ current = [h \in Hosts |-> {}]

(* The history variables start with an attempt and follow its every step.   *)
Follow(seen, state) ==
  [h \in Hosts |->
     CASE pc'[h] = "idle" -> {}
       [] pc'[h] = "start" -> {o \in Objects : cluster'[o] = state}
       [] OTHER -> seen[h] \cup {o \in Objects : cluster'[o] = state}]

History ==
  /\ gone' = Follow(gone, "none")
  /\ current' = Follow(current, "ours")

Begin(h, c) ==
  /\ pc[h] = "idle"
  /\ call' = [call EXCEPT ![h] = c]
  /\ pc' = [pc EXCEPT ![h] = "start"]
  /\ tries' = [tries EXCEPT ![h] = 1]
  /\ UNCHANGED <<cluster, todo, missed, result, broken, others>>
  /\ History

(* delete and stop look first unless they are forced; create and replace    *)
(* never do, main calls them with check=False.                              *)
LooksFirst(c) ==
  c.state \in {"exists"} \cup (IF c.force THEN {} ELSE {"absent", "stopped"})

Enter(h) ==
  /\ pc[h] = "start"
  /\ pc' = [pc EXCEPT ![h] = IF LooksFirst(call[h]) THEN "lookup" ELSE "command"]
  /\ UNCHANGED <<cluster, call, todo, missed, result, tries, broken, others>>
  /\ History

\* A fault: the rest of a failed command stays queued.
ReturnUnfinished(h, r) ==
  /\ pc' = [pc EXCEPT ![h] = "done"]
  /\ result' = [result EXCEPT ![h] = r]
  /\ UNCHANGED <<todo, missed>>

Return(h, r) ==
  /\ pc' = [pc EXCEPT ![h] = "done"]
  /\ result' = [result EXCEPT ![h] = r]
  /\ todo' = [todo EXCEPT ![h] = {}]
  /\ missed' = [missed EXCEPT ![h] = FALSE]

(* exists: _execute_nofail makes a failing lookup one that found nothing.   *)
Lookup(h, found) ==
  /\ pc[h] = "lookup"
  /\ IF found /\ call[h].state # "exists"
     THEN /\ pc' = [pc EXCEPT ![h] = "command"]
          /\ UNCHANGED <<todo, missed, result>>
     ELSE Return(h, "ok")
  /\ UNCHANGED <<cluster, call, tries, others>>
  /\ History

Look(h) == Lookup(h, Exists(call[h])) /\ UNCHANGED broken

Break(h) ==
  /\ broken[h] < MaxBroken
  /\ broken' = [broken EXCEPT ![h] = @ + 1]

LookFails(h) == Lookup(h, FALSE) /\ Break(h)

(* _execute: the command is refused at once, or goes through its objects.   *)
Command(h) ==
  /\ pc[h] = "command"
  /\ IF Rejected(call[h]) THEN Return(h, "failed")
     ELSE /\ pc' = [pc EXCEPT ![h] = "work"]
          /\ todo' = [todo EXCEPT ![h] = Targets(call[h])]
          /\ UNCHANGED <<missed, result>>
  /\ UNCHANGED <<cluster, call, tries, broken, others>>
  /\ History

CommandFails(h) ==
  /\ pc[h] \in {"command", "work"}
  /\ Break(h)
  /\ Return(h, "failed")
  /\ UNCHANGED <<cluster, call, tries, others>>
  /\ History

Apply(h, o) ==
  /\ pc[h] = "work" /\ Applies(call[h]) /\ o \in todo[h]
  /\ cluster' = [cluster EXCEPT ![o] = "ours"]
  /\ todo' = [todo EXCEPT ![h] = @ \ {o}]
  /\ UNCHANGED <<call, pc, missed, result, tries, broken, others>>
  /\ History

(* apply --force, which create and replace always pass, deletes an object   *)
(* that it cannot change, to create it again.                               *)
Replace(h, o) ==
  /\ pc[h] = "work" /\ Applies(call[h]) /\ o \in todo[h]
  /\ cluster[o] = "other"
  /\ cluster' = [cluster EXCEPT ![o] = "none"]
  /\ UNCHANGED <<call, pc, todo, missed, result, tries, broken, others>>
  /\ History

Delete(h, o) ==
  /\ pc[h] = "work" /\ call[h].state = "absent" /\ o \in todo[h]
  /\ missed' = [missed EXCEPT ![h] = @ \/ (Strict(call[h]) /\ cluster[o] = "none")]
  /\ cluster' = [cluster EXCEPT ![o] = "none"]
  /\ todo' = [todo EXCEPT ![h] = @ \ {o}]
  /\ UNCHANGED <<call, pc, result, tries, broken, others>>
  /\ History

Finish(h) ==
  /\ pc[h] = "work" /\ todo[h] = {}
  /\ Return(h, IF missed[h] THEN "failed" ELSE "ok")
  /\ UNCHANGED <<cluster, call, tries, broken, others>>
  /\ History

(* Ansible: another attempt, or the next task.                              *)
Retry(h) ==
  /\ pc[h] = "done" /\ result[h] = "failed" /\ tries[h] < MaxTries
  /\ pc' = [pc EXCEPT ![h] = "start"]
  /\ result' = [result EXCEPT ![h] = "none"]
  /\ tries' = [tries EXCEPT ![h] = @ + 1]
  /\ UNCHANGED <<cluster, call, todo, missed, broken, others>>
  /\ History

NextTask(h) ==
  /\ pc[h] = "done"
  /\ pc' = [pc EXCEPT ![h] = "idle"]
  /\ call' = [call EXCEPT ![h] = NoCall]
  /\ result' = [result EXCEPT ![h] = "none"]
  /\ tries' = [tries EXCEPT ![h] = 0]
  /\ broken' = [broken EXCEPT ![h] = 0]
  /\ UNCHANGED <<cluster, todo, missed, others>>
  /\ History

Other(o, s) ==
  /\ others < MaxOthers
  /\ cluster[o] # s
  /\ cluster' = [cluster EXCEPT ![o] = s]
  /\ others' = others + 1
  /\ UNCHANGED <<call, pc, todo, missed, result, tries, broken>>
  /\ History

Step(h) ==
  \/ \E c \in Calls : Begin(h, c)
  \/ Enter(h) \/ Look(h) \/ LookFails(h)
  \/ Command(h) \/ CommandFails(h)
  \/ \E o \in todo[h] : Apply(h, o) \/ Replace(h, o) \/ Delete(h, o)
  \/ Finish(h) \/ Retry(h) \/ NextTask(h)

Next ==
  \/ \E h \in Hosts : Step(h)
  \/ \E o \in Objects, s \in {"none", "other"} : Other(o, s)

Spec == Init /\ [][Next]_vars

-----------------------------------------------------------------------------
TypeOK ==
  /\ cluster \in [Objects -> {"none", "other", "ours"}]
  /\ call \in [Hosts -> Calls \cup {NoCall}]
  /\ pc \in [Hosts -> {"idle", "start", "lookup", "command", "work", "done"}]
  /\ todo \in [Hosts -> SUBSET Objects]
  /\ \A h \in Hosts : todo[h] # {} => pc[h] = "work"
  /\ missed \in [Hosts -> BOOLEAN]
  /\ result \in [Hosts -> {"none", "ok", "failed"}]
  /\ tries \in [Hosts -> 0 .. MaxTries]
  /\ broken \in [Hosts -> 0 .. MaxBroken]
  /\ others \in 0 .. MaxOthers
  /\ gone \in [Hosts -> SUBSET Objects]
  /\ current \in [Hosts -> SUBSET Objects]

Succeeded(h, states) ==
  pc[h] = "done" /\ result[h] = "ok" /\ call[h].state \in states

(* state=absent that succeeds means that each object was absent at a time   *)
(* of the attempt, whatever other calls and clients do meanwhile: of a      *)
(* forced call, and of one without files whose lookups did not fail.        *)
AbsentMeansAbsent ==
  \A h \in Hosts :
    /\ Succeeded(h, {"absent"})
    /\ \/ call[h].force
       \/ call[h].by # "files" /\ broken[h] = 0
    => call[h].objs \subseteq gone[h]

(* state=present, latest or reloaded that succeeds means that each object   *)
(* was as the files define it at a time of the attempt.                     *)
AppliedMeansCurrent ==
  \A h \in Hosts :
    Succeeded(h, {"present", "latest", "reloaded"}) =>
      call[h].objs \subseteq current[h]

(* An apply of files, and a delete by label, of all or forced by name, fail *)
(* only when kubectl failed in each of their attempts: that another client  *)
(* removes the resource first, or has created it, is no error, and retries  *)
(* make up for kubectl.                                                     *)
Reliable(c) ==
  \/ Applies(c) /\ c.by = "files"
  \/ c.state = "absent" /\ c.by \in {"label", "all"}
  \/ c.state = "absent" /\ c.by = "name" /\ c.force
FailsForAReason ==
  \A h \in Hosts :
    pc[h] = "done" /\ result[h] = "failed" /\ Reliable(call[h]) =>
      broken[h] >= tries[h]
=============================================================================
