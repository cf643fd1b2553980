------------------------------ MODULE ProxmoxStorage ---------------------------
(***************************************************************************)
(* Calls of proxmox_node_storage on one storage and content type: the      *)
(* volume is looked for, deleted, created, each by a task of the server    *)
(* that the call waits for and that goes on if the call does not.  The     *)
(* other clients of the server do as they like.                            *)
(***************************************************************************)
EXTENDS FiniteSets

CONSTANTS
    Name,       \* the names of volumes: a volume id is a name here
    Source,     \* what `source' may be
    IsUrl,      \* whether it has a scheme, or is a file on this host
    BaseName,   \* the last component of its path
    None

(* The tasks of the server: to delete a volume, or to create it.           *)
Task == [name : Name, source : Source \cup {None}]

ASSUME ProxmoxAssumption ==
    /\ None \notin Name \cup Source \cup Task
    /\ IsUrl \in [Source -> BOOLEAN]
    /\ BaseName \in [Source -> Name]

Request ==
    [state : {"present", "absent"}, name : Name \cup {None},
     source : Source \cup {None}, force : BOOLEAN]

VARIABLES
    volumes,    \* what each volume was created from, or None
    request,    \* the parameters of the last call
    at,         \* "idle", or the statement it is at: "list", "delete",
                \* "create", or "wait" in wait_task
    task,       \* the task that it waits for
    exit,       \* how that task ended, "none" while it runs
    others,     \* the tasks of former calls that nobody waits for
    changed, ended,     \* the result of the last call
    begun,      \* volumes as the last call found them ...
    touched,    \* ... and those that others have changed since
    again       \* the last call repeats one that succeeded

resultVars == <<changed, ended>>
ghostVars == <<request, begun, again>>
proxmoxVars ==
    <<volumes, at, task, exit, others, touched, resultVars, ghostVars>>

(* vol_name; and the filename of the download, or of the uploaded file.    *)
VolName(r) == IF r.name # None THEN r.name ELSE BaseName[r.source]

CreatedName(r) ==
    IF r.name # None /\ IsUrl[r.source] THEN r.name ELSE BaseName[r.source]

ProxmoxInit ==
    /\ volumes \in [Name -> {None} \cup Source]
    /\ request \in Request
    /\ at = "idle"
    /\ task = None
    /\ exit = "none"
    /\ others = {}
    /\ changed = FALSE
    /\ ended = "none"
    /\ begun = volumes
    /\ touched = {}
    /\ again = FALSE

Call(r) ==
    /\ at = "idle"
    /\ request' = r
    /\ at' = "list"
    /\ changed' = FALSE
    /\ ended' = "none"
    /\ begun' = volumes
    /\ touched' = {}
    /\ again' = (ended = "ok" /\ r = request /\ touched = {})
    /\ UNCHANGED <<volumes, task, exit, others>>

(* What was begun on the server goes on.                                   *)
End(result, change) ==
    /\ at' = "idle"
    /\ ended' = result
    /\ changed' = change
    /\ others' = IF task # None /\ exit = "none" THEN others \cup {task}
                                                ELSE others
    /\ task' = None
    /\ exit' = "none"

(* The source of a present resource, and the name of an absent one, are    *)
(* asked for when the call is under way.                                   *)
Complete(r) == IF r.state = "present" THEN r.source # None ELSE r.name # None

(* A request raises, the file to upload is not there, the wait times out   *)
(* or loses the server, or the module is killed.                           *)
Fail ==
    /\ at # "idle"
    /\ End("failed", FALSE)
    /\ UNCHANGED <<volumes, touched, ghostVars>>

Exists == volumes[VolName(request)] # None

(* Mutant: the name is not looked for *)
Mutant_CreatesAnyhow ==
    /\ at = "list"
    /\ Complete(request)
    /\ request.state = "present"
    /\ at' = "create"
    /\ UNCHANGED <<volumes, task, exit, others, touched, resultVars, ghostVars>>

(* Mutant: an existing volume is replaced, forced or not *)
Mutant_Replaces ==
    /\ at = "list"
    /\ Complete(request)
    /\ Exists
    /\ at' = "delete"
    /\ UNCHANGED <<volumes, task, exit, others, touched, resultVars, ghostVars>>

(* storage_exists, and what follows from it.                               *)
Replace ==
    /\ at = "list"
    /\ Complete(request)
    /\ Exists
    /\ request.state = "present" => request.force
    /\ at' = "delete"
    /\ UNCHANGED <<volumes, task, exit, others, touched, resultVars, ghostVars>>

(* Mutant: a source is not asked for if there is a name *)
Mutant_NameSuffices ==
    /\ at = "list"
    /\ request.name # None \/ request.source # None
    /\ request.state = "present"
    /\ ~Exists
    /\ at' = "create"
    /\ UNCHANGED <<volumes, task, exit, others, touched, resultVars, ghostVars>>

CreateNew ==
    /\ at = "list"
    /\ Complete(request)
    /\ request.state = "present"
    /\ ~Exists
    /\ at' = "create"
    /\ UNCHANGED <<volumes, task, exit, others, touched, resultVars, ghostVars>>

AsAsked ==
    /\ at = "list"
    /\ Complete(request)
    /\ IF request.state = "present" THEN Exists /\ ~request.force ELSE ~Exists
    /\ End("ok", FALSE)
    /\ UNCHANGED <<volumes, touched, ghostVars>>

Asked ==
    IF at = "delete"
      THEN [name |-> VolName(request), source |-> None]
      ELSE [name |-> CreatedName(request), source |-> request.source]

(* The server starts a task; its answer may be lost.                       *)
Post ==
    /\ at \in {"delete", "create"}
    /\ task' = Asked
    /\ exit' = "none"
    /\ at' = "wait"
    /\ UNCHANGED <<volumes, others, touched, resultVars, ghostVars>>

(* Mutant: the exit status of the task is not looked at *)
Mutant_AnyExit ==
    /\ at = "wait"
    /\ exit # "none"
    /\ IF task.source = None /\ request.state = "present"
         THEN /\ at' = "create"
              /\ task' = None
              /\ exit' = "none"
              /\ UNCHANGED <<others, resultVars>>
         ELSE End("ok", TRUE)
    /\ UNCHANGED <<volumes, touched, ghostVars>>

(* wait_task returns if the task ended well; if not, the call fails.       *)
TaskDone ==
    /\ at = "wait"
    /\ exit = "ok"
    /\ IF task.source = None /\ request.state = "present"
         THEN /\ at' = "create"
              /\ task' = None
              /\ exit' = "none"
              /\ UNCHANGED <<others, resultVars>>
         ELSE End("ok", TRUE)
    /\ UNCHANGED <<volumes, touched, ghostVars>>

(* The server: a task has its effect or none.  It may refuse to create a   *)
(* volume that exists, or replace it.                                      *)
RunTask ==
    /\ task # None
    /\ exit = "none"
    /\ \/ /\ volumes' = [volumes EXCEPT ![task.name] = task.source]
          /\ exit' = "ok"
       \/ exit' = "error" /\ UNCHANGED volumes
    /\ UNCHANGED <<at, task, others, touched, resultVars, ghostVars>>

RunOther(t) ==
    /\ t \in others
    /\ others' = others \ {t}
    /\ \/ /\ volumes' = [volumes EXCEPT ![t.name] = t.source]
          /\ touched' = touched \cup {t.name}
       \/ UNCHANGED <<volumes, touched>>
    /\ UNCHANGED <<at, task, exit, resultVars, ghostVars>>

(* Another client creates a volume, or deletes it.                         *)
OtherClient(n, s) ==
    /\ volumes' = [volumes EXCEPT ![n] = s]
    /\ touched' = touched \cup {n}
    /\ UNCHANGED <<at, task, exit, others, resultVars, ghostVars>>

ProxmoxNext ==
    \/ \E r \in Request : Call(r)
    \/ Replace \/ CreateNew \/ AsAsked \/ Post \/ TaskDone \/ Fail
    \/ RunTask
    \/ \E t \in others : RunOther(t)
    \/ \E n \in Name, s \in Source \cup {None} : OtherClient(n, s)

ProxmoxSpec == ProxmoxInit /\ [][ProxmoxNext]_proxmoxVars

-----------------------------------------------------------------------------

ProxmoxTypeOK ==
    /\ volumes \in [Name -> Source \cup {None}]
    /\ request \in Request
    /\ at \in {"idle", "list", "delete", "create", "wait"}
    /\ task \in Task \cup {None}
    /\ exit \in {"none", "ok", "error"}
    /\ others \subseteq Task
    /\ changed \in BOOLEAN
    /\ ended \in {"none", "ok", "failed"}
    /\ begun \in [Name -> Source \cup {None}]
    /\ touched \subseteq Name
    /\ again \in BOOLEAN
    /\ at \in {"delete", "create", "wait"} => Complete(request)
    /\ at = "wait" <=> task # None

(* A file is uploaded under its own name, whatever `name' says.            *)
Misnamed(r) ==
    /\ r.state = "present"
    /\ r.source # None
    /\ CreatedName(r) # VolName(r)

(* A success means what it says of the volumes that no other client, and   *)
(* no task left behind by an earlier call, has touched: the absent one is  *)
(* gone; the present one was there, or now comes from the source, which    *)
(* for a file is so under the file's own name only (node_storage.py:86).   *)
SuccessTrue ==
    ended = "ok" =>
        IF request.state = "absent"
          THEN volumes[VolName(request)] = None \/ VolName(request) \in touched
          ELSE IF changed
            THEN \/ volumes[CreatedName(request)] = request.source
                 \/ CreatedName(request) \in touched
            ELSE \/ volumes[VolName(request)] # None
                 \/ VolName(request) \in touched

(* At any time, failures included, only what was asked for has changed: no *)
(* other volume, and unless forced none that was there, but for a file     *)
(* that is uploaded over a volume of its own name although the call is     *)
(* about another (proxmox_node_storage.py:33-35, node_storage.py:86).      *)
OnlyAsked ==
    \A n \in Name : volumes[n] # begun[n] /\ n \notin touched =>
        /\ Complete(request)
        /\ \/ n = VolName(request)
           \/ Misnamed(request) /\ n = CreatedName(request)
        /\ request.state = "present" /\ begun[n] # None =>
              request.force \/ Misnamed(request)

(* A call that succeeds right after itself has nothing to change, unless   *)
(* it is forced, somebody else touched the volumes, or a file is to be     *)
(* present under another name, which it never is.                          *)
AgainUnchanged ==
    again /\ ended = "ok" /\ changed /\ touched = {} =>
        \/ request.state = "present" /\ request.force
        \/ Misnamed(request)
================================================================================
