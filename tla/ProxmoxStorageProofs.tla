-------------------------- MODULE ProxmoxStorageProofs -------------------------
(***************************************************************************)
(* Proofs about the calls of proxmox_node_storage, for any names and       *)
(* sources, whatever the other clients and the tasks left behind do.       *)
(***************************************************************************)
EXTENDS ProxmoxStorage, TLAPS

(* A volume that changed is one that the call may change.                  *)
MayChange(n) ==
    /\ Complete(request)
    /\ \/ n = VolName(request)
       \/ Misnamed(request) /\ n = CreatedName(request)
    /\ request.state = "present" /\ begun[n] # None =>
          request.force \/ Misnamed(request)

(* The task in hand is one that was asked for, with its right.             *)
Deleting(t) ==
    /\ t.source = None
    /\ t.name = VolName(request)
    /\ request.state = "present" => request.force

Creating(t) ==
    /\ t.source = request.source
    /\ t.name = CreatedName(request)
    /\ request.state = "present"

(* What each statement knows: a volume is created under a name that was    *)
(* not there, or that may be replaced.                                     *)
Vacant ==
    request.force \/ VolName(request) \in touched \/ begun[VolName(request)] = None

Located ==
    /\ at = "list" => \A n \in Name : n \in touched \/ volumes[n] = begun[n]
    /\ at = "delete" => (request.state = "present" => request.force)
    /\ at = "create" => request.state = "present" /\ Vacant
    /\ at = "wait" => Deleting(task) \/ (Creating(task) /\ Vacant)
    /\ at = "wait" /\ exit = "ok" =>
          task.name \in touched \/ volumes[task.name] = task.source
    /\ at # "idle" => ended = "none"

(* A call that repeats a successful one finds what it asks for.            *)
Found ==
    again /\ touched = {} =>
        /\ Complete(request)
        /\ request.state = "absent" => begun[VolName(request)] = None
        /\ request.state = "present" =>
              Misnamed(request) \/ begun[VolName(request)] # None

(* And has nothing to do, unless it is forced or misnamed.                 *)
Repeating ==
    again /\ touched = {} /\ (at \in {"delete", "create", "wait"} \/ changed) =>
        \/ request.state = "present" /\ request.force
        \/ Misnamed(request)

Succeeded == ended = "ok" => Complete(request)

IInv ==
    /\ ProxmoxTypeOK
    /\ Located
    /\ Found
    /\ Repeating
    /\ Succeeded
    /\ SuccessTrue
    /\ OnlyAsked

-----------------------------------------------------------------------------

LEMMA NamesTyped ==
    ASSUME NEW r \in Request, Complete(r)
    PROVE  /\ VolName(r) \in Name
           /\ r.state = "present" => CreatedName(r) \in Name
           /\ r.state \in {"present", "absent"}
           /\ r.source # None => r.source \in Source
  BY ProxmoxAssumption DEF Request, Complete, VolName, CreatedName

LEMMA InitInv == ProxmoxInit => IInv
  BY ProxmoxAssumption
     DEF ProxmoxInit, IInv, ProxmoxTypeOK, Located, Found, Repeating,
         Succeeded, SuccessTrue, OnlyAsked

LEMMA CallInv == ASSUME IInv, NEW r \in Request, Call(r) PROVE IInv'
  <1>1. ProxmoxTypeOK'
    BY DEF Call, IInv, ProxmoxTypeOK
  <1>2. Located'
    BY DEF Call, Located
  <1>3. Found'
    <2> SUFFICES ASSUME again' PROVE Found'
      BY DEF Found
    <2>1. ended = "ok" /\ r = request /\ touched = {} /\ Complete(request)
      BY DEF Call, IInv, Succeeded
    <2>2. request' = request /\ begun' = volumes
      BY <2>1 DEF Call
    <2>3. CASE request.state = "absent"
      BY <2>1, <2>2, <2>3 DEF IInv, SuccessTrue, Found
    <2>4. CASE request.state = "present"
      <3>1. changed => volumes[CreatedName(request)] = request.source
        BY <2>1, <2>4 DEF IInv, SuccessTrue
      <3>2. ~changed => volumes[VolName(request)] # None
        BY <2>1, <2>4 DEF IInv, SuccessTrue
      <3>3. Misnamed(request) \/ CreatedName(request) = VolName(request)
        BY <2>1, <2>4 DEF Misnamed, Complete
      <3>4. request.source # None
        BY <2>1, <2>4 DEF Complete
      <3> QED
        BY <2>1, <2>2, <2>4, <3>1, <3>2, <3>3, <3>4 DEF Found
    <2> QED
      BY <2>1, <2>3, <2>4, NamesTyped DEF IInv, ProxmoxTypeOK
  <1>4. Repeating' /\ Succeeded' /\ SuccessTrue'
    BY DEF Call, Repeating, Succeeded, SuccessTrue
  <1>5. OnlyAsked'
    BY DEF Call, OnlyAsked
  <1> QED
    BY <1>1, <1>2, <1>3, <1>4, <1>5 DEF IInv

LEMMA FailInv == IInv /\ Fail => IInv'
  <1> SUFFICES ASSUME IInv, Fail PROVE IInv'
    OBVIOUS
  <1>1. ProxmoxTypeOK'
    BY DEF Fail, End, ghostVars, IInv, ProxmoxTypeOK
  <1> QED
    BY <1>1 DEF Fail, End, ghostVars, IInv, Located, Found, Repeating,
                Succeeded, SuccessTrue, OnlyAsked

LEMMA ListInv == ASSUME IInv, Replace \/ CreateNew \/ AsAsked PROVE IInv'
  <1>1. /\ at = "list" /\ Complete(request)
        /\ UNCHANGED <<volumes, touched, request, begun, again>>
    BY DEF Replace, CreateNew, AsAsked, ghostVars
  <1>2. /\ VolName(request) \in Name
        /\ request.state \in {"present", "absent"}
    BY <1>1, NamesTyped DEF IInv, ProxmoxTypeOK
  <1>3. \/ VolName(request) \in touched
        \/ volumes[VolName(request)] = begun[VolName(request)]
    BY <1>1, <1>2 DEF IInv, Located
  <1>4. OnlyAsked' /\ Found'
    BY <1>1 DEF IInv, OnlyAsked, Found
  <1>5. CASE Replace
    <2>1. ProxmoxTypeOK'
      BY <1>1, <1>5 DEF Replace, resultVars, ghostVars, IInv, ProxmoxTypeOK
    <2>2. Repeating'
      BY <1>1, <1>2, <1>3, <1>5
         DEF Replace, Exists, resultVars, ghostVars, IInv, Found, Repeating
    <2> QED
      BY <1>1, <1>4, <1>5, <2>1, <2>2
         DEF Replace, resultVars, ghostVars, IInv, Located, Succeeded,
             SuccessTrue
  <1>6. CASE CreateNew
    <2>1. ProxmoxTypeOK'
      BY <1>1, <1>6 DEF CreateNew, resultVars, ghostVars, IInv, ProxmoxTypeOK
    <2>2. Repeating'
      BY <1>1, <1>2, <1>3, <1>6
         DEF CreateNew, Exists, resultVars, ghostVars, IInv, Found, Repeating
    <2>3. Vacant'
      BY <1>1, <1>3, <1>6 DEF CreateNew, Exists, Vacant
    <2> QED
      BY <1>1, <1>4, <1>6, <2>1, <2>2, <2>3
         DEF CreateNew, resultVars, ghostVars, IInv, Located, Succeeded,
             SuccessTrue
  <1>7. CASE AsAsked
    <2>1. ProxmoxTypeOK'
      BY <1>1, <1>7 DEF AsAsked, End, ghostVars, IInv, ProxmoxTypeOK
    <2>2. SuccessTrue'
      BY <1>1, <1>2, <1>7 DEF AsAsked, End, Exists, SuccessTrue
    <2> QED
      BY <1>1, <1>4, <1>7, <2>1, <2>2
         DEF AsAsked, End, IInv, Located, Repeating, Succeeded
  <1> QED
    BY <1>5, <1>6, <1>7

LEMMA PostInv == IInv /\ Post => IInv'
  <1> SUFFICES ASSUME IInv, Post PROVE IInv'
    OBVIOUS
  <1>1. /\ at \in {"delete", "create"} /\ Complete(request)
        /\ request \in Request
        /\ UNCHANGED <<volumes, touched, others, request, begun, again,
                       changed, ended>>
    BY DEF Post, resultVars, ghostVars, IInv, ProxmoxTypeOK
  <1>2. task' \in Task
    BY <1>1, NamesTyped DEF Post, Asked, Task, IInv, Located, Complete
  <1>3. Deleting(task') \/ (Creating(task') /\ Vacant)
    BY <1>1 DEF Post, Asked, Deleting, Creating, IInv, Located
  <1>4. task' # None
    BY <1>2, ProxmoxAssumption
  <1>5. ProxmoxTypeOK'
    BY <1>1, <1>2, <1>4 DEF Post, IInv, ProxmoxTypeOK
  <1> QED
    BY <1>1, <1>3, <1>5
       DEF Post, IInv, Located, Deleting, Creating, Vacant, Found, Repeating,
           Succeeded, SuccessTrue, OnlyAsked

LEMMA TaskDoneInv == IInv /\ TaskDone => IInv'
  <1> SUFFICES ASSUME IInv, TaskDone PROVE IInv'
    OBVIOUS
  <1>1. /\ at = "wait" /\ exit = "ok" /\ Complete(request)
        /\ request \in Request
        /\ UNCHANGED <<volumes, touched, request, begun, again>>
    BY DEF TaskDone, ghostVars, IInv, ProxmoxTypeOK
  <1>2. /\ Deleting(task) \/ (Creating(task) /\ Vacant)
        /\ task.name \in touched \/ volumes[task.name] = task.source
    BY <1>1 DEF IInv, Located
  <1>3. OnlyAsked' /\ Found'
    BY <1>1 DEF IInv, OnlyAsked, Found
  <1>4. CASE task.source = None /\ request.state = "present"
    <2>1. ProxmoxTypeOK'
      BY <1>1, <1>4 DEF TaskDone, resultVars, IInv, ProxmoxTypeOK
    <2>2. Vacant
      BY <1>1, <1>2, <1>4 DEF Deleting, Vacant
    <2> QED
      BY <1>1, <1>3, <1>4, <2>1, <2>2
         DEF TaskDone, resultVars, IInv, Located, Vacant, Repeating, Succeeded,
             SuccessTrue
  <1>5. CASE ~(task.source = None /\ request.state = "present")
    <2>1. ProxmoxTypeOK'
      BY <1>1, <1>5 DEF TaskDone, End, IInv, ProxmoxTypeOK
    <2>2. SuccessTrue'
      <3>1. CASE request.state = "absent"
        BY <1>1, <1>2, <1>5, <3>1
           DEF TaskDone, End, SuccessTrue, Deleting, Creating
      <3>2. CASE request.state = "present"
        BY <1>1, <1>2, <1>5, <3>2
           DEF TaskDone, End, SuccessTrue, Deleting, Creating
      <3> QED
        BY <1>1, <3>1, <3>2, NamesTyped
    <2> QED
      BY <1>1, <1>3, <1>5, <2>1, <2>2
         DEF TaskDone, End, IInv, Located, Repeating, Succeeded
  <1> QED
    BY <1>4, <1>5

LEMMA RunTaskInv == IInv /\ RunTask => IInv'
  <1> SUFFICES ASSUME IInv, RunTask PROVE IInv'
    OBVIOUS
  <1>1. /\ at = "wait" /\ task \in Task /\ exit = "none"
        /\ Complete(request) /\ request \in Request /\ ended = "none"
        /\ UNCHANGED <<at, task, others, touched, changed, ended, request,
                       begun, again>>
    BY DEF RunTask, resultVars, ghostVars, IInv, ProxmoxTypeOK, Located
  <1>2. Deleting(task) \/ (Creating(task) /\ Vacant)
    BY <1>1 DEF IInv, Located
  <1>3. task.name \in Name /\ task.source \in Source \cup {None}
    BY <1>1 DEF Task
  <1>4. Found' /\ Repeating' /\ Succeeded' /\ SuccessTrue'
    BY <1>1 DEF IInv, Found, Repeating, Succeeded, SuccessTrue
  <1>5. CASE /\ volumes' = [volumes EXCEPT ![task.name] = task.source]
             /\ exit' = "ok"
    <2>1. ProxmoxTypeOK'
      BY <1>1, <1>3, <1>5 DEF IInv, ProxmoxTypeOK
    <2>2. volumes'[task.name] = task.source
      BY <1>3, <1>5 DEF IInv, ProxmoxTypeOK
    <2>3. Located'
      BY <1>1, <1>2, <1>5, <2>2 DEF Located, Deleting, Creating, Vacant
    <2>4. task.name \notin touched => MayChange(task.name)
      BY <1>1, <1>2
         DEF MayChange, Deleting, Creating, Vacant, Misnamed, Complete
    <2>5. OnlyAsked'
      BY <1>1, <1>3, <1>5, <2>4
         DEF IInv, ProxmoxTypeOK, OnlyAsked, MayChange
    <2> QED
      BY <1>4, <2>1, <2>3, <2>5 DEF IInv
  <1>6. CASE exit' = "error" /\ UNCHANGED volumes
    <2>1. ProxmoxTypeOK'
      BY <1>1, <1>6 DEF IInv, ProxmoxTypeOK
    <2>2. Located' /\ OnlyAsked'
      BY <1>1, <1>6 DEF IInv, Located, Deleting, Creating, Vacant, OnlyAsked
    <2> QED
      BY <1>4, <2>1, <2>2 DEF IInv
  <1> QED
    BY <1>5, <1>6 DEF RunTask

(* Whoever else changes a volume has touched it.                           *)
LEMMA TouchInv ==
    ASSUME IInv, NEW n \in Name, NEW s \in Source \cup {None},
           volumes' = [volumes EXCEPT ![n] = s],
           touched' = touched \cup {n},
           others' \subseteq others,
           UNCHANGED <<at, task, exit, resultVars, ghostVars>>
    PROVE  IInv'
  <1>1. UNCHANGED <<changed, ended, request, begun, again>>
    BY DEF resultVars, ghostVars
  <1>2. \A m \in Name : m \in touched' \/ volumes'[m] = volumes[m]
    BY DEF IInv, ProxmoxTypeOK
  <1>3. touched \subseteq touched' /\ touched' # {}
    OBVIOUS
  <1>4. ProxmoxTypeOK'
    BY <1>1 DEF IInv, ProxmoxTypeOK
  <1>5. OnlyAsked'
    BY <1>1, <1>2, <1>3 DEF IInv, OnlyAsked
  <1>6. Found' /\ Repeating' /\ Succeeded'
    BY <1>1, <1>3 DEF IInv, Found, Repeating, Succeeded
  <1>7. Located'
    <2>1. at = "wait" => task.name \in Name
      BY DEF IInv, ProxmoxTypeOK, Task
    <2> QED
      BY <1>1, <1>2, <1>3, <2>1
         DEF IInv, Located, Deleting, Creating, Vacant
  <1>8. SuccessTrue'
    <2>1. ended = "ok" =>
             /\ VolName(request) \in Name
             /\ request.state = "present" => CreatedName(request) \in Name
             /\ request.state \in {"present", "absent"}
      BY NamesTyped DEF IInv, ProxmoxTypeOK, Succeeded
    <2> QED
      BY <1>1, <1>2, <1>3, <2>1 DEF IInv, SuccessTrue
  <1> QED
    BY <1>4, <1>5, <1>6, <1>7, <1>8 DEF IInv

LEMMA OthersInv ==
    ASSUME IInv, \/ \E t \in others : RunOther(t)
                 \/ \E n \in Name, s \in Source \cup {None} : OtherClient(n, s)
    PROVE  IInv'
  <1>1. CASE \E n \in Name, s \in Source \cup {None} : OtherClient(n, s)
    BY <1>1, TouchInv DEF OtherClient
  <1>2. ASSUME NEW t \in others, RunOther(t)
        PROVE  IInv'
    <2>1. t.name \in Name /\ t.source \in Source \cup {None}
      BY DEF IInv, ProxmoxTypeOK, Task
    <2>2. CASE /\ volumes' = [volumes EXCEPT ![t.name] = t.source]
               /\ touched' = touched \cup {t.name}
      BY <1>2, <2>1, <2>2, TouchInv DEF RunOther
    <2>3. CASE UNCHANGED <<volumes, touched>>
      BY <1>2, <2>3
         DEF RunOther, resultVars, ghostVars, IInv, ProxmoxTypeOK, Located,
             Deleting, Creating, Vacant, Found, Repeating, Succeeded,
             SuccessTrue, OnlyAsked
    <2> QED
      BY <1>2, <2>2, <2>3 DEF RunOther
  <1> QED
    BY <1>1, <1>2

LEMMA NextInv == IInv /\ [ProxmoxNext]_proxmoxVars => IInv'
  <1> SUFFICES ASSUME IInv, [ProxmoxNext]_proxmoxVars PROVE IInv'
    OBVIOUS
  <1>1. CASE UNCHANGED proxmoxVars
    BY <1>1 DEF proxmoxVars, resultVars, ghostVars, IInv, ProxmoxTypeOK,
                Located, Deleting, Creating, Vacant, Found, Repeating,
                Succeeded, SuccessTrue, OnlyAsked
  <1>2. CASE ProxmoxNext
    BY <1>2, CallInv, FailInv, ListInv, PostInv, TaskDoneInv, RunTaskInv,
       OthersInv DEF ProxmoxNext
  <1> QED
    BY <1>1, <1>2

LEMMA Invariance == ProxmoxSpec => []IInv
  BY InitInv, NextInv, PTL DEF ProxmoxSpec

(* Every variable of a call keeps its type, the task in hand included.     *)
THEOREM StorageTyped == ProxmoxSpec => []ProxmoxTypeOK
  <1>1. IInv => ProxmoxTypeOK
    BY DEF IInv
  <1> QED
    BY <1>1, Invariance, PTL

(* Success is about the volumes that nobody else has touched.              *)
THEOREM SuccessIsTrue == ProxmoxSpec => []SuccessTrue
  <1>1. IInv => SuccessTrue
    BY DEF IInv
  <1> QED
    BY <1>1, Invariance, PTL

(* Nothing but what was asked for changes, failures included.              *)
THEOREM OnlyWhatIsAsked == ProxmoxSpec => []OnlyAsked
  <1>1. IInv => OnlyAsked
    BY DEF IInv
  <1> QED
    BY <1>1, Invariance, PTL

(* A repeated call changes nothing, with the two exceptions that the       *)
(* property names.                                                         *)
THEOREM AgainNothing == ProxmoxSpec => []AgainUnchanged
  <1>1. IInv => AgainUnchanged
    BY DEF IInv, Repeating, AgainUnchanged
  <1> QED
    BY <1>1, Invariance, PTL
================================================================================
