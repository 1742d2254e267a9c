---------------------------- MODULE TemplateSave ----------------------------
(***************************************************************************)
(* Editing a template, saving it, and sending its image to the nodes.      *)
(*                                                                         *)
(* The template's domain runs at the controller on a difference disk.      *)
(* TemplateController._save_template, in a thread or a job of the          *)
(* scheduler, marks the template, stops it, closes its desktop groups,     *)
(* deletes their desktops, has every node fetch the difference disk and    *)
(* merge it into the node's own base image (ImageService.sync), does the   *)
(* same at the controller, starts a new difference disk, defines the       *)
(* desktops again and opens the groups.  copy_template, download_template, *)
(* retransmit, start, stop, reboot and reset work on the same row and the  *)
(* same files.  Nothing locks them against each other.                     *)
(*                                                                         *)
(* An image is the set of edits it holds; the edits are all that tells two *)
(* images apart.  A template has one disk here and a desktop group one     *)
(* desktop.  Left out: status "install", the copy's own row, disks added   *)
(* and removed (yzy_device_modify), free space, networks, task records     *)
(* other than those of the transfers.                                      *)
(***************************************************************************)
EXTENDS Naturals, FiniteSets

CONSTANTS
  Ops,         \* threads of the server that work on the template
  Nodes, Ctrl, \* compute nodes of the pool, one of them the controller
  Groups, Host,\* desktop groups of the template, the node of their desktop
  Users,       \* terminals
  Edits,       \* what an administrator may change in the template
  Jobs,        \* ids of scheduled saves
  MaxVersion,  \* bound on the version
  Answers,     \* Answers[n]: how a transfer to node n may end
  NetFound,    \* whether a copy finds its network at the node
  Deleted,     \* whether a node that answers deletes the desktop it is told to
  None, NoFile

ASSUME ConstantAssumption ==
  /\ Ctrl \in Nodes
  /\ Host \in [Groups -> Nodes]
  /\ MaxVersion \in Nat \ {0}
  /\ Answers \in [Nodes -> SUBSET {"ok", "down", "lost", "kept"}]
  /\ NetFound \subseteq BOOLEAN /\ Deleted \subseteq BOOLEAN
  /\ None \notin Jobs \cup Groups \cup Nodes
  /\ \A image0 \in SUBSET Edits : image0 # NoFile

VARIABLES
  status, version, \* the template's row
  dom,     \* whether its domain runs
  diff,    \* edits in its difference disk
  base,    \* base[n]: the base image in the files of node n
  left,    \* left[n]: the version under which n still has the difference disk
           \*   as it is now, fetched but not merged; 0 when it has none
  task,    \* task[n]: status of the last transfer to n, as recorded
  online,  \* nodes that answer
  open,    \* open[g]: active, or not in maintenance
  ins,     \* ins[g]: the domain of the group's desktop
  req,     \* req[u]: the group whose desktop u is opening
  jobs,    \* scheduled saves
  file,    \* the job named in the template's file under TEMPLATE_SCHEDULER_PATH
  op       \* the threads

vars == <<status, version, dom, diff, base, left, task, online, open, ins,
          req, jobs, file, op>>
image == <<dom, diff, base, left, task>>
desk == <<open, ins, req>>
sched == <<jobs, file>>

Statuses == {"inactive", "active", "error", "updating", "coping", "downloading"}
SavePcs == {"halt", "close", "delete", "sync", "merge", "recreate", "create"}
Pcs == SavePcs \cup {"idle", "power", "stop", "reset", "mark", "copy",
                     "download", "convert", "resend"}
IdleOp == [pc |-> "idle", pre |-> "inactive", seen |-> "inactive", new |-> 0,
           nodes |-> {}, groups |-> {}, reopen |-> {}]

RowOK == status \in Statuses /\ version \in 0..MaxVersion

\* The controller answers, and has its base image.
ImageOK ==
  /\ dom \in BOOLEAN /\ diff \in SUBSET Edits
  /\ base = [n \in Nodes |-> base[n]]
  /\ \A n \in Nodes : base[n] = NoFile \/ base[n] \subseteq Edits
  /\ left \in [Nodes -> 0..MaxVersion]
  /\ task \in [Nodes -> {"begin", "end", "error"}]
  /\ online \in SUBSET Nodes
  /\ Ctrl \in online /\ base[Ctrl] # NoFile

DeskOK ==
  /\ open \in [Groups -> BOOLEAN]
  /\ ins \in [Groups -> {"none", "off", "on"}]
  /\ req \in [Users -> Groups \cup {None}]

SchedOK == jobs \in SUBSET Jobs /\ file \in Jobs \cup {None}

OpRecords == [pc : Pcs, pre : Statuses, seen : Statuses, new : 0..MaxVersion,
              nodes : SUBSET Nodes, groups : SUBSET Groups, reopen : SUBSET Groups]
OpsOK == op \in [Ops -> OpRecords]

TypeOK == RowOK /\ ImageOK /\ DeskOK /\ SchedOK /\ OpsOK

Init ==
  /\ status = "inactive" /\ version = 1
  /\ dom = FALSE /\ diff = {}
  /\ base = [n \in Nodes |-> {}]
  /\ left = [n \in Nodes |-> 0]
  /\ task = [n \in Nodes |-> "end"]
  /\ online = Nodes
  /\ open \in [Groups -> BOOLEAN]
  /\ ins = [g \in Groups |-> "off"]
  /\ req = [u \in Users |-> None]
  /\ jobs = {} /\ file = None
  /\ op = [o \in Ops |-> IdleOp]

-----------------------------------------------------------------------------
Goes(o, pc) == op' = [op EXCEPT ![o].pc = pc]
Ends(o) == op' = [op EXCEPT ![o] = IdleOp]
Fresh == [n \in Nodes |-> 0]

\* check_need_resync: a node that answers and whose last transfer failed
NeedResync == \E n \in online : task[n] = "error"

\* create_instance needs the node and the base image there
Startable(g) == Host[g] \in online /\ base[Host[g]] # NoFile

(* start_template, reboot_template, edit_template: whatever the status is. *)
Start(o) ==
  /\ op[o].pc = "idle"
  /\ Goes(o, "power")
  /\ UNCHANGED <<status, version, image, online, desk, sched>>

\* The domain may run although the call failed.
PowerEnd(o) ==
  /\ op[o].pc = "power"
  /\ \/ status' = "active" /\ dom' = TRUE
     \/ status' = "error" /\ dom' \in {dom, TRUE}
  /\ left' = IF dom' THEN Fresh ELSE left
  /\ Ends(o)
  /\ UNCHANGED <<version, diff, base, task, online, desk, sched>>

Stop(o) ==
  /\ op[o].pc = "idle"
  /\ Goes(o, "stop")
  /\ UNCHANGED <<status, version, image, online, desk, sched>>

StopEnd(o) ==
  /\ op[o].pc = "stop"
  /\ \/ status' = "inactive" /\ dom' = FALSE
     \/ status' = status /\ dom' \in {dom, FALSE}
  /\ Ends(o)
  /\ UNCHANGED <<version, diff, base, left, task, online, desk, sched>>

Reset(o) ==
  /\ op[o].pc = "idle"
  /\ Goes(o, "reset")
  /\ UNCHANGED <<status, version, image, online, desk, sched>>

\* The difference disk is thrown away; also when only the answer is lost.
ResetEnd(o) ==
  /\ op[o].pc = "reset"
  /\ \/ status' \in {"inactive", status} /\ dom' = FALSE /\ diff' = {} /\ left' = Fresh
     \/ UNCHANGED <<status, dom, diff, left>>
  /\ Ends(o)
  /\ UNCHANGED <<version, base, task, online, desk, sched>>

-----------------------------------------------------------------------------
\* Mutant: a save is started whatever the last transfers ended with.
UpgradeAnyway(o) ==
  /\ op[o].pc = "idle" /\ version < MaxVersion
  /\ status \notin {"coping", "downloading"}
  /\ Goes(o, "mark")
  /\ UNCHANGED <<status, version, image, online, desk, sched>>

Upgrade(o) ==
  /\ op[o].pc = "idle" /\ version < MaxVersion
  /\ status \notin {"coping", "downloading"}
  /\ ~NeedResync
  /\ Goes(o, "mark")
  /\ UNCHANGED <<status, version, image, online, desk, sched>>

(* save_template_with_time: the job the file names is replaced.            *)
Schedule(j) ==
  /\ j \notin jobs
  /\ ~NeedResync
  /\ jobs' = (jobs \ {file}) \cup {j}
  /\ file' = j
  /\ UNCHANGED <<status, version, image, online, desk, op>>

\* The scheduler calls _save_template itself, without upgrade's checks.
JobFires(o, j) ==
  /\ op[o].pc = "idle" /\ version < MaxVersion
  /\ j \in jobs
  /\ jobs' = jobs \ {j}
  /\ Goes(o, "mark")
  /\ UNCHANGED <<status, version, image, online, desk, file>>

\* add_scheduler_task: a server that starts again knows the jobs of the files.
Restart ==
  /\ \A o \in Ops : op[o].pc = "idle"
  /\ jobs' = {file} \ {None}
  /\ UNCHANGED <<status, version, image, online, desk, file, op>>

Mark(o) ==
  /\ op[o].pc = "mark"
  /\ status' = "updating"
  /\ op' = [op EXCEPT ![o].pc = "halt", ![o].pre = status]
  /\ UNCHANGED <<version, image, online, desk, sched>>

\* Mutant: the status is not put back.
HaltForgets(o) ==
  /\ op[o].pc = "halt"
  /\ \/ dom' = FALSE /\ Goes(o, "close")
     \/ dom' \in {dom, FALSE} /\ Ends(o)
  /\ UNCHANGED <<status, version, diff, base, left, task, online, desk, sched>>

Halt(o) ==
  /\ op[o].pc = "halt"
  /\ \/ dom' = FALSE /\ Goes(o, "close") /\ UNCHANGED status
     \/ dom' \in {dom, FALSE} /\ status' = op[o].pre /\ Ends(o)
  /\ UNCHANGED <<version, diff, base, left, task, online, desk, sched>>

\* Mutant: the groups stay open.
CloseNone(o) ==
  /\ op[o].pc = "close"
  /\ file' = None
  /\ op' = [op EXCEPT ![o].pc = "delete", ![o].groups = Groups,
                      ![o].reopen = {g \in Groups : open[g]}]
  /\ UNCHANGED <<status, version, image, online, desk, jobs>>

(* The file of the scheduled save is removed, by any save; the groups that are
   open are remembered and all are closed.                                   *)
CloseGroups(o) ==
  /\ op[o].pc = "close"
  /\ file' = None
  /\ open' = [g \in Groups |-> FALSE]
  /\ op' = [op EXCEPT ![o].pc = "delete", ![o].groups = Groups,
                      ![o].reopen = {g \in Groups : open[g]}]
  /\ UNCHANGED <<status, version, image, online, ins, req, jobs>>

\* delete_instance_only: a failure is counted, and the count is not looked at.
DeleteDesktop(o, g) ==
  /\ op[o].pc = "delete" /\ g \in op[o].groups
  /\ \E deleted \in Deleted :
       ins' = IF deleted /\ Host[g] \in online THEN [ins EXCEPT ![g] = "none"] ELSE ins
  /\ op' = [op EXCEPT ![o].groups = @ \ {g}]
  /\ UNCHANGED <<status, version, image, online, open, req, sched>>

\* Any exception on the way to the transfers, or after them.
SaveBreaks(o) ==
  /\ op[o].pc \in {"delete", "create"}
  /\ status' = "error"
  /\ Ends(o)
  /\ UNCHANGED <<version, image, online, desk, sched>>

BeginTransfers(o) ==
  /\ op[o].pc = "delete" /\ op[o].groups = {} /\ version < MaxVersion
  /\ op' = [op EXCEPT ![o].pc = "sync", ![o].nodes = Nodes \ {Ctrl},
                      ![o].new = version + 1]
  /\ task' = [n \in Nodes |-> IF n = Ctrl THEN task[n] ELSE "begin"]
  /\ UNCHANGED <<status, version, dom, diff, base, left, online, desk, sched>>

-----------------------------------------------------------------------------
Endings(n) == IF n \in online THEN Answers[n] ELSE {"down"}

(* ImageService.sync at node n for version v.  A missing base image is fetched
   first.  A difference disk that is there under this version and has the right
   checksum counts as done, merged or not.  "kept": fetched, but qemu-img failed
   to merge it; "lost": done, but the answer came too late.                   *)
Transfer(n, v, how) ==
  LET done == left[n] = v
      file0 == IF base[n] = NoFile THEN base[Ctrl] ELSE base[n] IN
  /\ how = "kept" => ~done
  /\ task' = [task EXCEPT ![n] = IF how = "ok" THEN "end" ELSE "error"]
  /\ base' = [base EXCEPT ![n] =
       IF how = "down" THEN @ ELSE IF how = "kept" \/ done THEN file0 ELSE file0 \cup diff]
  /\ left' = [left EXCEPT ![n] =
       IF how = "down" \/ done THEN @ ELSE IF how = "kept" THEN v ELSE 0]

TransferTo(o, n) ==
  /\ op[o].pc = "sync" /\ n \in op[o].nodes
  /\ \E how \in Endings(n) : Transfer(n, op[o].new, how)
  /\ op' = [op EXCEPT ![o].nodes = @ \ {n}]
  /\ UNCHANGED <<status, version, dom, diff, online, desk, sched>>

BeginMerge(o) ==
  /\ op[o].pc = "sync" /\ op[o].nodes = {}
  /\ task' = [task EXCEPT ![Ctrl] = "begin"]
  /\ Goes(o, "merge")
  /\ UNCHANGED <<status, version, dom, diff, base, left, online, desk, sched>>

\* Mutant: a failure at the controller is treated like one at a node.
MergeGoesOn(o) ==
  /\ op[o].pc = "merge"
  /\ \E how \in Endings(Ctrl) : Transfer(Ctrl, op[o].new, how)
  /\ Goes(o, "recreate")
  /\ UNCHANGED <<status, version, dom, diff, online, desk, sched>>

(* A failure at the controller ends the save: the groups stay closed.      *)
Merge(o) ==
  /\ op[o].pc = "merge"
  /\ \E how \in Endings(Ctrl) :
       /\ Transfer(Ctrl, op[o].new, how)
       /\ IF how = "ok" THEN Goes(o, "recreate") /\ UNCHANGED status
                        ELSE Ends(o) /\ status' = "error"
  /\ UNCHANGED <<version, dom, diff, online, desk, sched>>

\* recreate_disk
Recreate(o) ==
  /\ op[o].pc = "recreate"
  /\ \/ /\ diff' = {} /\ left' = Fresh
        /\ op' = [op EXCEPT ![o].pc = "create", ![o].groups = Groups]
        /\ UNCHANGED status
     \/ /\ diff' \in {diff, {}}
        /\ left' = IF diff' = diff THEN left ELSE Fresh
        /\ status' = "error"
        /\ Ends(o)
  /\ UNCHANGED <<version, dom, base, task, online, desk, sched>>

\* Mutant: the desktops are defined, the groups stay closed.
CreateOnly(o, g) ==
  /\ op[o].pc = "create" /\ g \in op[o].groups
  /\ \/ UNCHANGED ins
     \/ Startable(g) /\ ins[g] = "none" /\ ins' = [ins EXCEPT ![g] = "off"]
  /\ op' = [op EXCEPT ![o].groups = @ \ {g}]
  /\ UNCHANGED <<status, version, image, online, open, req, sched>>

\* create_instance without power, and the group is opened if it was open.
CreateDesktop(o, g) ==
  /\ op[o].pc = "create" /\ g \in op[o].groups
  /\ \/ UNCHANGED ins
     \/ Startable(g) /\ ins[g] = "none" /\ ins' = [ins EXCEPT ![g] = "off"]
  /\ open' = [open EXCEPT ![g] = @ \/ g \in op[o].reopen]
  /\ op' = [op EXCEPT ![o].groups = @ \ {g}]
  /\ UNCHANGED <<status, version, image, online, req, sched>>

SaveEnd(o) ==
  /\ op[o].pc = "create" /\ op[o].groups = {}
  /\ version' = op[o].new /\ status' = "inactive"
  /\ Ends(o)
  /\ UNCHANGED <<image, online, desk, sched>>

-----------------------------------------------------------------------------
(* copy_template, whatever the status is; the thread that copies puts the status
   of before back, over whatever it is by then.  It does not when the network
   is not found at the node.                                                 *)
Copy(o) ==
  /\ op[o].pc = "idle"
  /\ ~NeedResync
  /\ status' = "coping"
  /\ op' = [op EXCEPT ![o].pc = "copy", ![o].pre = status]
  /\ UNCHANGED <<version, image, online, desk, sched>>

CopyEnd(o) ==
  /\ op[o].pc = "copy"
  /\ \E found \in NetFound : status' = IF found THEN op[o].pre ELSE status
  /\ Ends(o)
  /\ UNCHANGED <<version, image, online, desk, sched>>

Download(o) ==
  /\ op[o].pc = "idle"
  /\ status # "downloading"
  /\ status' = "downloading"
  /\ op' = [op EXCEPT ![o].pc = "download", ![o].pre = status]
  /\ UNCHANGED <<version, image, online, desk, sched>>

DownloadLoad(o) ==
  /\ op[o].pc = "download"
  /\ op' = [op EXCEPT ![o].pc = "convert", ![o].seen = status]
  /\ UNCHANGED <<status, version, image, online, desk, sched>>

\* Writing the value that was read is no update.
DownloadEnd(o) ==
  /\ op[o].pc = "convert"
  /\ status' = IF op[o].pre = op[o].seen THEN status ELSE op[o].pre
  /\ Ends(o)
  /\ UNCHANGED <<version, image, online, desk, sched>>

\* retransmit: the old records of the transfers to n are deleted.
Retransmit(o, n) ==
  /\ op[o].pc = "idle"
  /\ task' = [task EXCEPT ![n] = "begin"]
  /\ op' = [op EXCEPT ![o].pc = "resend", ![o].nodes = {n}]
  /\ UNCHANGED <<status, version, dom, diff, base, left, online, desk, sched>>

\* Mutant: the file is fetched and emptied although it is the controller's own.
RetransmitBlindly(o, n) ==
  /\ op[o].pc = "resend" /\ n \in op[o].nodes
  /\ \/ /\ n \in online
        /\ task' = [task EXCEPT ![n] = "end"]
        /\ base' = [base EXCEPT ![n] = base[Ctrl]]
     \/ /\ task' = [task EXCEPT ![n] = "error"]
        /\ \/ UNCHANGED base
           \/ n \in online /\ \E f \in {NoFile, base[Ctrl]} : base' = [base EXCEPT ![n] = f]
  /\ Ends(o)
  /\ UNCHANGED <<status, version, dom, diff, left, online, desk, sched>>

(* The base image of the controller replaces that of n, unless they are the same.
   A download that fails has emptied and removed the file.                    *)
RetransmitEnd(o, n) ==
  /\ op[o].pc = "resend" /\ n \in op[o].nodes
  /\ \/ /\ n \in online
        /\ task' = [task EXCEPT ![n] = "end"]
        /\ base' = [base EXCEPT ![n] = base[Ctrl]]
     \/ /\ task' = [task EXCEPT ![n] = "error"]
        /\ \/ UNCHANGED base
           \/ /\ n \in online /\ base[n] # base[Ctrl]
              /\ \E f \in {NoFile, base[Ctrl]} : base' = [base EXCEPT ![n] = f]
  /\ Ends(o)
  /\ UNCHANGED <<status, version, dom, diff, left, online, desk, sched>>

-----------------------------------------------------------------------------
\* An administrator works in the template.
Edit(e) ==
  /\ dom /\ e \notin diff \cup base[Ctrl]
  /\ diff' = diff \cup {e}
  /\ UNCHANGED <<status, version, dom, base, left, task, online, desk, sched, op>>

TemplateOff ==
  /\ dom /\ dom' = FALSE
  /\ UNCHANGED <<status, version, diff, base, left, task, online, desk, sched, op>>

\* enter_maintenance, exit_maintenance; active_desktop, inactive_desktop
Toggle(g) ==
  /\ open' = [open EXCEPT ![g] = ~@]
  /\ UNCHANGED <<status, version, image, online, ins, req, sched, op>>

(* person_instance looks at maintenance once, and goes on to create_instance; a
   terminal asks for an education desktop of a list of active groups.         *)
Check(u, g) ==
  /\ req[u] = None /\ open[g]
  /\ req' = [req EXCEPT ![u] = g]
  /\ UNCHANGED <<status, version, image, online, open, ins, sched, op>>

Boot(u) ==
  /\ req[u] # None
  /\ LET g == req[u] IN
     \/ UNCHANGED ins
     \/ Startable(g) /\ ins' = [ins EXCEPT ![g] = "on"]
  /\ req' = [req EXCEPT ![u] = None]
  /\ UNCHANGED <<status, version, image, online, open, sched, op>>

GuestOff(g) ==
  /\ ins[g] = "on"
  /\ ins' = [ins EXCEPT ![g] = "off"]
  /\ UNCHANGED <<status, version, image, online, open, req, sched, op>>

NodeDown(n) ==
  /\ n \in online \ {Ctrl}
  /\ online' = online \ {n}
  /\ UNCHANGED <<status, version, image, desk, sched, op>>

NodeUp(n) ==
  /\ n \in Nodes \ online
  /\ online' = online \cup {n}
  /\ UNCHANGED <<status, version, image, desk, sched, op>>

-----------------------------------------------------------------------------
Step(o) ==
  \/ PowerEnd(o) \/ StopEnd(o) \/ ResetEnd(o)
  \/ Mark(o) \/ Halt(o) \/ CloseGroups(o) \/ SaveBreaks(o)
  \/ BeginTransfers(o) \/ BeginMerge(o) \/ Merge(o) \/ Recreate(o) \/ SaveEnd(o)
  \/ \E g \in Groups : DeleteDesktop(o, g) \/ CreateDesktop(o, g)
  \/ \E n \in Nodes : TransferTo(o, n) \/ RetransmitEnd(o, n)
  \/ CopyEnd(o) \/ DownloadLoad(o) \/ DownloadEnd(o)

Begin(o) ==
  \/ Start(o) \/ Stop(o) \/ Reset(o) \/ Upgrade(o) \/ Copy(o) \/ Download(o)
  \/ \E n \in Nodes : Retransmit(o, n)

Environment ==
  \/ \E e \in Edits : Edit(e)
  \/ TemplateOff
  \/ \E u \in Users : Boot(u) \/ \E g \in Groups : Check(u, g)
  \/ \E g \in Groups : GuestOff(g)
  \/ \E n \in Nodes : NodeDown(n)
  \/ \E j \in Jobs : Schedule(j)
  \/ Restart

Next ==
  \/ \E o \in Ops : Step(o) \/ Begin(o) \/ \E j \in Jobs : JobFires(o, j)
  \/ Environment
  \/ \E g \in Groups : Toggle(g)
  \/ \E n \in Nodes : NodeUp(n)

Spec == Init /\ [][Next]_vars

(* What the code leaves to its users: one operation on the template at a time, no
   group switched and no node coming back during one, and no desktop still being
   opened when the desktops are deleted.                                      *)
Quiet == \A o \in Ops : op[o].pc = "idle"
Drained(o) == op[o].pc = "delete" => \A u \in Users : req[u] = None
CarefulStep(o) == Step(o) /\ Drained(o)

CarefulNext(JobMayFire) ==
  \/ \E o \in Ops : CarefulStep(o)
  \/ Environment
  \/ /\ Quiet
     /\ \/ \E o \in Ops : Begin(o) \/ \E j \in Jobs : JobMayFire /\ JobFires(o, j)
        \/ \E g \in Groups : Toggle(g)
        \/ \E n \in Nodes : NodeUp(n)

\* ... who also sees to it that a scheduled save finds no failed transfer
NextCareful == CarefulNext(~NeedResync)
SpecCareful == Init /\ [][NextCareful]_vars
FairCareful ==
  SpecCareful /\ \A o \in Ops : WF_vars(CarefulStep(o)) /\ \A u \in Users : WF_vars(Boot(u))

\* ... who schedules a save and leaves.
SpecScheduled == Init /\ [][CarefulNext(TRUE)]_vars

-----------------------------------------------------------------------------
(* The status of the template tells what is being done with it: upgrade and
   download_template refuse on account of it, so a status that outlives its
   operation blocks the template.                                            *)
BusyIsBusy ==
  /\ status = "updating" => \E o \in Ops : op[o].pc \in SavePcs
  /\ status = "coping" => \E o \in Ops : op[o].pc = "copy"
  /\ status = "downloading" => \E o \in Ops : op[o].pc \in {"download", "convert"}

(* check_need_resync: a node whose last transfer is recorded as successful has
   every edit the controller's image has, whichever transfers failed before, lost
   their answer or were repeated.                                            *)
SyncedMissesNothing ==
  \A n \in Nodes : task[n] = "end" => base[n] # NoFile /\ base[Ctrl] \subseteq base[n]

(* _save_template removes the difference disk: by then its edits are in the
   controller's image.  Only reset_template throws edits away.               *)
EditsKept ==
  [][(\A o \in Ops : op[o].pc = "reset" => op'[o].pc = "reset")
       => diff \cup base[Ctrl] \subseteq diff' \cup base'[Ctrl]]_vars

(* The desktops are deleted before the images are merged: during a save no base
   image changes under a desktop that runs.                                  *)
NoMergeUnderDesktop ==
  [][\A g \in Groups : ins[g] = "on" /\ status = "updating"
       => base'[Host[g]] = base[Host[g]]]_vars

(* A group that a save has closed is opened again, or the template ends in error. *)
GroupsReopen ==
  \A o \in Ops, g \in Groups :
    g \in op[o].reopen ~> open[g] \/ status = "error"
=============================================================================
