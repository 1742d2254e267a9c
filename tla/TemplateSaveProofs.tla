------------------------ MODULE TemplateSaveProofs ------------------------
(***************************************************************************)
(* Proofs about TemplateSave, for any number of threads, nodes, groups,    *)
(* terminals and edits.                                                    *)
(*                                                                         *)
(* Type correctness holds of Spec, where operations overlap.  The rest     *)
(* holds of SpecCareful under Sound: one operation at a time, a transfer   *)
(* that is done or not done, copies that find their network, nodes that    *)
(* delete what they are told to.  The inductive invariant Inv ties the     *)
(* status to the thread at work, and says for each stage of a save what    *)
(* the images have in common.                                              *)
(***************************************************************************)
EXTENDS TemplateSave, TLAPS

LEMMA IdleTyped == IdleOp \in OpRecords
BY ConstantAssumption DEF IdleOp, OpRecords, Pcs, Statuses

LEMMA EndsTyped ==
  ASSUME OpsOK, NEW o \in Ops, Ends(o)
  PROVE  OpsOK'
BY IdleTyped DEF OpsOK, Ends

LEMMA GoesTyped ==
  ASSUME OpsOK, NEW o \in Ops, NEW pc \in Pcs, Goes(o, pc)
  PROVE  OpsOK'
BY DEF OpsOK, OpRecords, Goes

\* A transfer leaves an image or no file at every node, and at the controller an image.
LEMMA TransferBase ==
  ASSUME ImageOK, NEW n \in Nodes, NEW v, NEW how, Transfer(n, v, how)
  PROVE  /\ base' = [m \in Nodes |-> base'[m]]
         /\ \A m \in Nodes : base'[m] = NoFile \/ base'[m] \subseteq Edits
         /\ base'[Ctrl] # NoFile
<1> DEFINE file0 == IF base[n] = NoFile THEN base[Ctrl] ELSE base[n]
<1>1. file0 \in SUBSET Edits /\ file0 \cup diff \in SUBSET Edits
  BY ConstantAssumption DEF ImageOK
<1>2. PICK f \in {base[n], file0, file0 \cup diff} : base' = [base EXCEPT ![n] = f]
  BY DEF Transfer
<1>3. file0 # NoFile /\ file0 \cup diff # NoFile
  BY <1>1, ConstantAssumption
<1>4. CASE f = base[n]
  BY <1>2, <1>4, ConstantAssumption DEF ImageOK
<1>5. CASE f \in {file0, file0 \cup diff}
  <2>1. f \subseteq Edits /\ f # NoFile
    BY <1>1, <1>3, <1>5
  <2> HIDE DEF file0
  <2> QED BY <1>2, <2>1, ConstantAssumption DEF ImageOK
<1> QED BY <1>2, <1>4, <1>5

-----------------------------------------------------------------------------
\* The operations of a thread keep the types.
LEMMA ThreadTypes ==
  ASSUME TypeOK, NEW o \in Ops, Step(o) \/ Begin(o) \/ \E j \in Jobs : JobFires(o, j)
  PROVE  TypeOK'
<1> USE DEF TypeOK
<1>1. CASE PowerEnd(o)
  <2> USE <1>1 DEF PowerEnd, image, desk, sched
  <2>1. RowOK'
    BY ConstantAssumption DEF RowOK, Statuses, OpsOK, OpRecords
  <2>2. ImageOK'
    <3>1. dom' \in BOOLEAN /\ diff' \in SUBSET Edits
      BY ConstantAssumption DEF ImageOK
    <3>2. base' = [m \in Nodes |-> base'[m]] /\ (\A m \in Nodes : base'[m] = NoFile \/ base'[m] \subseteq Edits) /\ base'[Ctrl] # NoFile
      BY ConstantAssumption DEF ImageOK
    <3>3. left' \in [Nodes -> 0..MaxVersion]
      BY ConstantAssumption DEF ImageOK, Fresh, OpsOK, OpRecords
    <3>4. task' \in [Nodes -> {"begin", "end", "error"}]
      BY ConstantAssumption DEF ImageOK
    <3>5. online' \in SUBSET Nodes /\ Ctrl \in online'
      BY ConstantAssumption DEF ImageOK
    <3> QED BY <3>1, <3>2, <3>3, <3>4, <3>5 DEF ImageOK
  <2>3. OpsOK'
    BY EndsTyped
  <2>4. DeskOK' /\ SchedOK'
    BY DEF DeskOK, SchedOK
  <2> QED
    BY <2>1, <2>2, <2>3, <2>4
<1>2. CASE StopEnd(o)
  <2> USE <1>2 DEF StopEnd, image, desk, sched
  <2>1. RowOK'
    BY ConstantAssumption DEF RowOK, Statuses, OpsOK, OpRecords
  <2>2. ImageOK'
    <3>1. dom' \in BOOLEAN /\ diff' \in SUBSET Edits
      BY ConstantAssumption DEF ImageOK
    <3>2. base' = [m \in Nodes |-> base'[m]] /\ (\A m \in Nodes : base'[m] = NoFile \/ base'[m] \subseteq Edits) /\ base'[Ctrl] # NoFile
      BY ConstantAssumption DEF ImageOK
    <3>3. left' \in [Nodes -> 0..MaxVersion]
      BY ConstantAssumption DEF ImageOK, Fresh, OpsOK, OpRecords
    <3>4. task' \in [Nodes -> {"begin", "end", "error"}]
      BY ConstantAssumption DEF ImageOK
    <3>5. online' \in SUBSET Nodes /\ Ctrl \in online'
      BY ConstantAssumption DEF ImageOK
    <3> QED BY <3>1, <3>2, <3>3, <3>4, <3>5 DEF ImageOK
  <2>3. OpsOK'
    BY EndsTyped
  <2>4. DeskOK' /\ SchedOK'
    BY DEF DeskOK, SchedOK
  <2> QED
    BY <2>1, <2>2, <2>3, <2>4
<1>3. CASE ResetEnd(o)
  <2> USE <1>3 DEF ResetEnd, image, desk, sched
  <2>1. RowOK'
    BY ConstantAssumption DEF RowOK, Statuses, OpsOK, OpRecords
  <2>2. ImageOK'
    <3>1. dom' \in BOOLEAN /\ diff' \in SUBSET Edits
      BY ConstantAssumption DEF ImageOK
    <3>2. base' = [m \in Nodes |-> base'[m]] /\ (\A m \in Nodes : base'[m] = NoFile \/ base'[m] \subseteq Edits) /\ base'[Ctrl] # NoFile
      BY ConstantAssumption DEF ImageOK
    <3>3. left' \in [Nodes -> 0..MaxVersion]
      BY ConstantAssumption DEF ImageOK, Fresh, OpsOK, OpRecords
    <3>4. task' \in [Nodes -> {"begin", "end", "error"}]
      BY ConstantAssumption DEF ImageOK
    <3>5. online' \in SUBSET Nodes /\ Ctrl \in online'
      BY ConstantAssumption DEF ImageOK
    <3> QED BY <3>1, <3>2, <3>3, <3>4, <3>5 DEF ImageOK
  <2>3. OpsOK'
    BY EndsTyped
  <2>4. DeskOK' /\ SchedOK'
    BY DEF DeskOK, SchedOK
  <2> QED
    BY <2>1, <2>2, <2>3, <2>4
<1>4. CASE Mark(o)
  <2> USE <1>4 DEF Mark, image, desk, sched
  <2>1. RowOK'
    BY ConstantAssumption DEF RowOK, Statuses, OpsOK, OpRecords
  <2>2. OpsOK'
    <3>1. "halt" \in Pcs /\ status \in Statuses
      BY ConstantAssumption DEF RowOK, Pcs, SavePcs
    <3> QED BY <3>1, IdleTyped DEF OpsOK, OpRecords, Goes, Ends
  <2>3. ImageOK' /\ DeskOK' /\ SchedOK'
    BY DEF ImageOK, DeskOK, SchedOK
  <2> QED
    BY <2>1, <2>2, <2>3
<1>5. CASE Halt(o)
  <2> USE <1>5 DEF Halt, image, desk, sched
  <2>1. RowOK'
    BY ConstantAssumption DEF RowOK, Statuses, OpsOK, OpRecords
  <2>2. ImageOK'
    BY ConstantAssumption DEF ImageOK, Fresh, OpsOK, OpRecords
  <2>3. OpsOK'
    <3>1. Goes(o, "close") \/ Ends(o)
      OBVIOUS
    <3> QED BY <3>1, GoesTyped, EndsTyped DEF Pcs, SavePcs
  <2>4. DeskOK' /\ SchedOK'
    BY DEF DeskOK, SchedOK
  <2> QED
    BY <2>1, <2>2, <2>3, <2>4
<1>6. CASE CloseGroups(o)
  <2> USE <1>6 DEF CloseGroups, image, desk, sched
  <2>1. DeskOK'
    BY ConstantAssumption DEF DeskOK, OpsOK, OpRecords
  <2>2. SchedOK'
    BY ConstantAssumption DEF SchedOK
  <2>3. OpsOK'
    <3>1. "delete" \in Pcs
      BY ConstantAssumption DEF Pcs, SavePcs
    <3> QED BY ZenonT(60), <3>1, IdleTyped DEF OpsOK, OpRecords, Goes, Ends
  <2>4. RowOK' /\ ImageOK'
    BY DEF RowOK, ImageOK
  <2> QED
    BY <2>1, <2>2, <2>3, <2>4
<1>7. CASE SaveBreaks(o)
  <2> USE <1>7 DEF SaveBreaks, image, desk, sched
  <2>1. RowOK'
    BY ConstantAssumption DEF RowOK, Statuses, OpsOK, OpRecords
  <2>2. OpsOK'
    BY EndsTyped
  <2>3. ImageOK' /\ DeskOK' /\ SchedOK'
    BY DEF ImageOK, DeskOK, SchedOK
  <2> QED
    BY <2>1, <2>2, <2>3
<1>8. CASE BeginTransfers(o)
  <2> USE <1>8 DEF BeginTransfers, image, desk, sched
  <2>1. ImageOK'
    BY ConstantAssumption DEF ImageOK, Fresh, OpsOK, OpRecords
  <2>2. OpsOK'
    <3>1. "sync" \in Pcs /\ version + 1 \in 0..MaxVersion
      BY ConstantAssumption DEF Pcs, SavePcs, RowOK
    <3> QED BY <3>1, IdleTyped DEF OpsOK, OpRecords, Goes, Ends
  <2>3. RowOK' /\ DeskOK' /\ SchedOK'
    BY DEF RowOK, DeskOK, SchedOK
  <2> QED
    BY <2>1, <2>2, <2>3
<1>9. CASE BeginMerge(o)
  <2> USE <1>9 DEF BeginMerge, image, desk, sched
  <2>1. ImageOK'
    BY ConstantAssumption DEF ImageOK, Fresh, OpsOK, OpRecords
  <2>2. OpsOK'
    BY GoesTyped DEF Pcs, SavePcs
  <2>3. RowOK' /\ DeskOK' /\ SchedOK'
    BY DEF RowOK, DeskOK, SchedOK
  <2> QED
    BY <2>1, <2>2, <2>3
<1>10. CASE Merge(o)
  <2> USE <1>10 DEF Merge, image, desk, sched
  <2>1. RowOK'
    BY ConstantAssumption DEF RowOK, Statuses, OpsOK, OpRecords, Transfer, Endings
  <2>2. ImageOK'
    <3>1. dom' \in BOOLEAN /\ diff' \in SUBSET Edits
      BY ConstantAssumption DEF ImageOK
    <3>2. base' = [m \in Nodes |-> base'[m]] /\ (\A m \in Nodes : base'[m] = NoFile \/ base'[m] \subseteq Edits) /\ base'[Ctrl] # NoFile
      BY TransferBase, ConstantAssumption
    <3>3. left' \in [Nodes -> 0..MaxVersion]
      BY ConstantAssumption DEF ImageOK, Transfer, Endings, Fresh, OpsOK, OpRecords
    <3>4. task' \in [Nodes -> {"begin", "end", "error"}]
      BY ConstantAssumption DEF ImageOK, Transfer, Endings
    <3>5. online' \in SUBSET Nodes /\ Ctrl \in online'
      BY ConstantAssumption DEF ImageOK
    <3> QED BY <3>1, <3>2, <3>3, <3>4, <3>5 DEF ImageOK
  <2>3. OpsOK'
    <3>1. Goes(o, "recreate") \/ Ends(o)
      OBVIOUS
    <3> QED BY <3>1, GoesTyped, EndsTyped DEF Pcs, SavePcs
  <2>4. DeskOK' /\ SchedOK'
    BY DEF DeskOK, SchedOK
  <2> QED
    BY <2>1, <2>2, <2>3, <2>4
<1>11. CASE Recreate(o)
  <2> USE <1>11 DEF Recreate, image, desk, sched
  <2>1. RowOK'
    BY ConstantAssumption DEF RowOK, Statuses, OpsOK, OpRecords
  <2>2. ImageOK'
    BY ConstantAssumption DEF ImageOK, Fresh, OpsOK, OpRecords
  <2>3. OpsOK'
    <3>1. "create" \in Pcs
      BY ConstantAssumption DEF Pcs, SavePcs
    <3> QED BY <3>1, IdleTyped DEF OpsOK, OpRecords, Goes, Ends
  <2>4. DeskOK' /\ SchedOK'
    BY DEF DeskOK, SchedOK
  <2> QED
    BY <2>1, <2>2, <2>3, <2>4
<1>12. CASE SaveEnd(o)
  <2> USE <1>12 DEF SaveEnd, image, desk, sched
  <2>1. RowOK'
    BY ConstantAssumption DEF RowOK, Statuses, OpsOK, OpRecords
  <2>2. OpsOK'
    BY EndsTyped
  <2>3. ImageOK' /\ DeskOK' /\ SchedOK'
    BY DEF ImageOK, DeskOK, SchedOK
  <2> QED
    BY <2>1, <2>2, <2>3
<1>13. CASE CopyEnd(o)
  <2> USE <1>13 DEF CopyEnd, image, desk, sched
  <2>1. RowOK'
    BY ConstantAssumption DEF RowOK, Statuses, OpsOK, OpRecords
  <2>2. OpsOK'
    BY EndsTyped
  <2>3. ImageOK' /\ DeskOK' /\ SchedOK'
    BY DEF ImageOK, DeskOK, SchedOK
  <2> QED
    BY <2>1, <2>2, <2>3
<1>14. CASE DownloadLoad(o)
  <2> USE <1>14 DEF DownloadLoad, image, desk, sched
  <2>1. RowOK'
    BY ConstantAssumption DEF RowOK, Statuses, OpsOK, OpRecords
  <2>2. OpsOK'
    <3>1. "convert" \in Pcs /\ status \in Statuses
      BY ConstantAssumption DEF RowOK, Pcs
    <3> QED BY <3>1, IdleTyped DEF OpsOK, OpRecords, Goes, Ends
  <2>3. ImageOK' /\ DeskOK' /\ SchedOK'
    BY DEF ImageOK, DeskOK, SchedOK
  <2> QED
    BY <2>1, <2>2, <2>3
<1>15. CASE DownloadEnd(o)
  <2> USE <1>15 DEF DownloadEnd, image, desk, sched
  <2>1. RowOK'
    BY ConstantAssumption DEF RowOK, Statuses, OpsOK, OpRecords
  <2>2. OpsOK'
    BY EndsTyped
  <2>3. ImageOK' /\ DeskOK' /\ SchedOK'
    BY DEF ImageOK, DeskOK, SchedOK
  <2> QED
    BY <2>1, <2>2, <2>3
<1>16. CASE Start(o)
  <2> USE <1>16 DEF Start, image, desk, sched
  <2>1. OpsOK'
    BY GoesTyped DEF Pcs, SavePcs
  <2>2. RowOK' /\ ImageOK' /\ DeskOK' /\ SchedOK'
    BY DEF RowOK, ImageOK, DeskOK, SchedOK
  <2> QED
    BY <2>1, <2>2
<1>17. CASE Stop(o)
  <2> USE <1>17 DEF Stop, image, desk, sched
  <2>1. OpsOK'
    BY GoesTyped DEF Pcs, SavePcs
  <2>2. RowOK' /\ ImageOK' /\ DeskOK' /\ SchedOK'
    BY DEF RowOK, ImageOK, DeskOK, SchedOK
  <2> QED
    BY <2>1, <2>2
<1>18. CASE Reset(o)
  <2> USE <1>18 DEF Reset, image, desk, sched
  <2>1. OpsOK'
    BY GoesTyped DEF Pcs, SavePcs
  <2>2. RowOK' /\ ImageOK' /\ DeskOK' /\ SchedOK'
    BY DEF RowOK, ImageOK, DeskOK, SchedOK
  <2> QED
    BY <2>1, <2>2
<1>19. CASE Upgrade(o)
  <2> USE <1>19 DEF Upgrade, image, desk, sched
  <2>1. OpsOK'
    BY GoesTyped DEF Pcs, SavePcs
  <2>2. RowOK' /\ ImageOK' /\ DeskOK' /\ SchedOK'
    BY DEF RowOK, ImageOK, DeskOK, SchedOK
  <2> QED
    BY <2>1, <2>2
<1>20. CASE Copy(o)
  <2> USE <1>20 DEF Copy, image, desk, sched
  <2>1. RowOK'
    BY ConstantAssumption DEF RowOK, Statuses, OpsOK, OpRecords
  <2>2. OpsOK'
    <3>1. "copy" \in Pcs /\ status \in Statuses
      BY ConstantAssumption DEF RowOK, Pcs
    <3> QED BY <3>1, IdleTyped DEF OpsOK, OpRecords, Goes, Ends
  <2>3. ImageOK' /\ DeskOK' /\ SchedOK'
    BY DEF ImageOK, DeskOK, SchedOK
  <2> QED
    BY <2>1, <2>2, <2>3
<1>21. CASE Download(o)
  <2> USE <1>21 DEF Download, image, desk, sched
  <2>1. RowOK'
    BY ConstantAssumption DEF RowOK, Statuses, OpsOK, OpRecords
  <2>2. OpsOK'
    <3>1. "download" \in Pcs /\ status \in Statuses
      BY ConstantAssumption DEF RowOK, Pcs
    <3> QED BY <3>1, IdleTyped DEF OpsOK, OpRecords, Goes, Ends
  <2>3. ImageOK' /\ DeskOK' /\ SchedOK'
    BY DEF ImageOK, DeskOK, SchedOK
  <2> QED
    BY <2>1, <2>2, <2>3
<1>22. ASSUME NEW g \in Groups, DeleteDesktop(o, g) PROVE TypeOK'
  <2> USE <1>22 DEF DeleteDesktop, image, desk, sched
  <2>1. DeskOK'
    BY ConstantAssumption DEF DeskOK, OpsOK, OpRecords
  <2>2. OpsOK'
    BY DEF OpsOK, OpRecords
  <2>3. RowOK' /\ ImageOK' /\ SchedOK'
    BY DEF RowOK, ImageOK, SchedOK
  <2> QED
    BY <2>1, <2>2, <2>3
<1>23. ASSUME NEW g \in Groups, CreateDesktop(o, g) PROVE TypeOK'
  <2> USE <1>23 DEF CreateDesktop, image, desk, sched
  <2>1. DeskOK'
    BY ConstantAssumption DEF DeskOK, OpsOK, OpRecords
  <2>2. OpsOK'
    BY DEF OpsOK, OpRecords
  <2>3. RowOK' /\ ImageOK' /\ SchedOK'
    BY DEF RowOK, ImageOK, SchedOK
  <2> QED
    BY <2>1, <2>2, <2>3
<1>24. ASSUME NEW n \in Nodes, TransferTo(o, n) PROVE TypeOK'
  <2> USE <1>24 DEF TransferTo, image, desk, sched
  <2>1. ImageOK'
    <3>1. dom' \in BOOLEAN /\ diff' \in SUBSET Edits
      BY ConstantAssumption DEF ImageOK
    <3>2. base' = [m \in Nodes |-> base'[m]] /\ (\A m \in Nodes : base'[m] = NoFile \/ base'[m] \subseteq Edits) /\ base'[Ctrl] # NoFile
      BY TransferBase, ConstantAssumption
    <3>3. left' \in [Nodes -> 0..MaxVersion]
      BY ConstantAssumption DEF ImageOK, Transfer, Endings, Fresh, OpsOK, OpRecords
    <3>4. task' \in [Nodes -> {"begin", "end", "error"}]
      BY ConstantAssumption DEF ImageOK, Transfer, Endings
    <3>5. online' \in SUBSET Nodes /\ Ctrl \in online'
      BY ConstantAssumption DEF ImageOK
    <3> QED BY <3>1, <3>2, <3>3, <3>4, <3>5 DEF ImageOK
  <2>2. OpsOK'
    BY DEF OpsOK, OpRecords
  <2>3. RowOK' /\ DeskOK' /\ SchedOK'
    BY DEF RowOK, DeskOK, SchedOK
  <2> QED
    BY <2>1, <2>2, <2>3
<1>25. ASSUME NEW n \in Nodes, RetransmitEnd(o, n) PROVE TypeOK'
  <2> USE <1>25 DEF RetransmitEnd, image, desk, sched
  <2>1. ImageOK'
    BY ConstantAssumption DEF ImageOK, Fresh, OpsOK, OpRecords
  <2>2. OpsOK'
    BY EndsTyped
  <2>3. RowOK' /\ DeskOK' /\ SchedOK'
    BY DEF RowOK, DeskOK, SchedOK
  <2> QED
    BY <2>1, <2>2, <2>3
<1>26. ASSUME NEW n \in Nodes, Retransmit(o, n) PROVE TypeOK'
  <2> USE <1>26 DEF Retransmit, image, desk, sched
  <2>1. ImageOK'
    BY ConstantAssumption DEF ImageOK, Fresh, OpsOK, OpRecords
  <2>2. OpsOK'
    <3>1. "resend" \in Pcs
      BY ConstantAssumption DEF Pcs
    <3> QED BY <3>1, IdleTyped DEF OpsOK, OpRecords, Goes, Ends
  <2>3. RowOK' /\ DeskOK' /\ SchedOK'
    BY DEF RowOK, DeskOK, SchedOK
  <2> QED
    BY <2>1, <2>2, <2>3
<1>27. ASSUME NEW j \in Jobs, JobFires(o, j) PROVE TypeOK'
  <2> USE <1>27 DEF JobFires, image, desk, sched
  <2>1. SchedOK'
    BY ConstantAssumption DEF SchedOK
  <2>2. OpsOK'
    BY GoesTyped DEF Pcs, SavePcs
  <2>3. RowOK' /\ ImageOK' /\ DeskOK'
    BY DEF RowOK, ImageOK, DeskOK
  <2> QED
    BY <2>1, <2>2, <2>3
<1>28. QED
  BY <1>1, <1>2, <1>3, <1>4, <1>5, <1>6, <1>7, <1>8, <1>9, <1>10, <1>11, <1>12, <1>13, <1>14, <1>15, <1>16, <1>17, <1>18, <1>19, <1>20, <1>21, <1>22, <1>23, <1>24, <1>25, <1>26, <1>27 DEF Step, Begin

\* So do administrators, terminals, nodes and the scheduler.
LEMMA OtherTypes ==
  ASSUME TypeOK, Environment \/ (\E g \in Groups : Toggle(g)) \/ (\E n \in Nodes : NodeUp(n))
  PROVE  TypeOK'
<1> USE DEF TypeOK
<1>1. ASSUME NEW e \in Edits, Edit(e) PROVE TypeOK'
  <2> USE <1>1 DEF Edit, image, desk, sched
  <2>1. ImageOK'
    BY ConstantAssumption DEF ImageOK, Fresh, OpsOK, OpRecords
  <2>2. RowOK' /\ DeskOK' /\ SchedOK' /\ OpsOK'
    BY DEF RowOK, DeskOK, SchedOK, OpsOK
  <2> QED
    BY <2>1, <2>2
<1>2. CASE TemplateOff
  <2> USE <1>2 DEF TemplateOff, image, desk, sched
  <2>1. ImageOK'
    BY ConstantAssumption DEF ImageOK, Fresh, OpsOK, OpRecords
  <2>2. RowOK' /\ DeskOK' /\ SchedOK' /\ OpsOK'
    BY DEF RowOK, DeskOK, SchedOK, OpsOK
  <2> QED
    BY <2>1, <2>2
<1>3. ASSUME NEW u \in Users, Boot(u) PROVE TypeOK'
  <2> USE <1>3 DEF Boot, image, desk, sched
  <2>1. DeskOK'
    BY ConstantAssumption DEF DeskOK, OpsOK, OpRecords
  <2>2. RowOK' /\ ImageOK' /\ SchedOK' /\ OpsOK'
    BY DEF RowOK, ImageOK, SchedOK, OpsOK
  <2> QED
    BY <2>1, <2>2
<1>4. ASSUME NEW u \in Users, NEW g \in Groups, Check(u, g) PROVE TypeOK'
  <2> USE <1>4 DEF Check, image, desk, sched
  <2>1. DeskOK'
    BY ConstantAssumption DEF DeskOK, OpsOK, OpRecords
  <2>2. RowOK' /\ ImageOK' /\ SchedOK' /\ OpsOK'
    BY DEF RowOK, ImageOK, SchedOK, OpsOK
  <2> QED
    BY <2>1, <2>2
<1>5. ASSUME NEW g \in Groups, GuestOff(g) PROVE TypeOK'
  <2> USE <1>5 DEF GuestOff, image, desk, sched
  <2>1. DeskOK'
    BY ConstantAssumption DEF DeskOK, OpsOK, OpRecords
  <2>2. RowOK' /\ ImageOK' /\ SchedOK' /\ OpsOK'
    BY DEF RowOK, ImageOK, SchedOK, OpsOK
  <2> QED
    BY <2>1, <2>2
<1>6. ASSUME NEW n \in Nodes, NodeDown(n) PROVE TypeOK'
  <2> USE <1>6 DEF NodeDown, image, desk, sched
  <2>1. ImageOK'
    BY ConstantAssumption DEF ImageOK, Fresh, OpsOK, OpRecords
  <2>2. RowOK' /\ DeskOK' /\ SchedOK' /\ OpsOK'
    BY DEF RowOK, DeskOK, SchedOK, OpsOK
  <2> QED
    BY <2>1, <2>2
<1>7. ASSUME NEW j \in Jobs, Schedule(j) PROVE TypeOK'
  <2> USE <1>7 DEF Schedule, image, desk, sched
  <2>1. SchedOK'
    BY ConstantAssumption DEF SchedOK
  <2>2. RowOK' /\ ImageOK' /\ DeskOK' /\ OpsOK'
    BY DEF RowOK, ImageOK, DeskOK, OpsOK
  <2> QED
    BY <2>1, <2>2
<1>8. CASE Restart
  <2> USE <1>8 DEF Restart, image, desk, sched
  <2>1. SchedOK'
    BY ConstantAssumption DEF SchedOK
  <2>2. RowOK' /\ ImageOK' /\ DeskOK' /\ OpsOK'
    BY DEF RowOK, ImageOK, DeskOK, OpsOK
  <2> QED
    BY <2>1, <2>2
<1>9. ASSUME NEW g \in Groups, Toggle(g) PROVE TypeOK'
  <2> USE <1>9 DEF Toggle, image, desk, sched
  <2>1. DeskOK'
    BY ConstantAssumption DEF DeskOK, OpsOK, OpRecords
  <2>2. RowOK' /\ ImageOK' /\ SchedOK' /\ OpsOK'
    BY DEF RowOK, ImageOK, SchedOK, OpsOK
  <2> QED
    BY <2>1, <2>2
<1>10. ASSUME NEW n \in Nodes, NodeUp(n) PROVE TypeOK'
  <2> USE <1>10 DEF NodeUp, image, desk, sched
  <2>1. ImageOK'
    BY ConstantAssumption DEF ImageOK, Fresh, OpsOK, OpRecords
  <2>2. RowOK' /\ DeskOK' /\ SchedOK' /\ OpsOK'
    BY DEF RowOK, DeskOK, SchedOK, OpsOK
  <2> QED
    BY <2>1, <2>2
<1>11. QED
  BY <1>1, <1>2, <1>3, <1>4, <1>5, <1>6, <1>7, <1>8, <1>9, <1>10 DEF Environment
LEMMA TypesInit == Init => TypeOK
<1> SUFFICES ASSUME Init PROVE TypeOK
  OBVIOUS
<1>1. RowOK /\ OpsOK
  BY ConstantAssumption, IdleTyped DEF Init, RowOK, OpsOK, Statuses
<1>2. ImageOK
  <2>1. {} # NoFile
    BY ConstantAssumption
  <2>2. base = [n \in Nodes |-> base[n]] /\ \A n \in Nodes : base[n] = {}
    BY DEF Init
  <2>3. left \in [Nodes -> 0..MaxVersion] /\ task \in [Nodes -> {"begin", "end", "error"}]
    BY ConstantAssumption DEF Init
  <2> QED BY <2>1, <2>2, <2>3, ConstantAssumption DEF Init, ImageOK
<1>3. DeskOK /\ SchedOK
  BY DEF Init, DeskOK, SchedOK
<1> QED BY <1>1, <1>2, <1>3 DEF TypeOK

LEMMA TypesStep == TypeOK /\ [Next]_vars => TypeOK'
<1> SUFFICES ASSUME TypeOK, [Next]_vars PROVE TypeOK'
  OBVIOUS
<1>1. CASE UNCHANGED vars
  BY <1>1 DEF vars, TypeOK, RowOK, ImageOK, DeskOK, SchedOK, OpsOK
<1>2. CASE Next
  BY <1>2, ThreadTypes, OtherTypes DEF Next
<1> QED BY <1>1, <1>2

(* The types, the controller's file and its answers, for any number of threads at a
   time and whatever the transfers end with.                                   *)
THEOREM Types == Spec => []TypeOK
BY TypesInit, TypesStep, PTL DEF Spec

-----------------------------------------------------------------------------
(* The inductive invariant of the careful use.  It assumes that a fetched difference
   disk is merged, that a copy finds its network, and that a desktop is deleted when
   its node is told to delete it.                                              *)
Sound ==
  /\ \A n \in Nodes : "kept" \notin Answers[n]
  /\ FALSE \notin NetFound
  /\ FALSE \notin Deleted

Busy == {"updating", "coping", "downloading"}

OneAtATime ==
  \A o, q \in Ops : op[o].pc # "idle" /\ op[q].pc # "idle" => o = q

\* A thread remembers a status that was no one's, and finds its own.
StatusInv ==
  /\ BusyIsBusy
  /\ \A o \in Ops :
       /\ op[o].pc \in {"halt", "copy", "download", "convert"} => op[o].pre \notin Busy
       /\ op[o].pc = "download" => status = "downloading"
       /\ op[o].pc = "convert" => op[o].seen = "downloading"

\* A transfer that is not finished belongs to a thread.
Owned(n) ==
  \E o \in Ops : \/ op[o].pc \in {"sync", "resend"} /\ n \in op[o].nodes
                 \/ op[o].pc = "merge" /\ n = Ctrl

(* While it saves, the difference disk is still, the nodes that answer had
   everything when it began, and those that are done have the difference.      *)
SaveInv(o) ==
  /\ op[o].pc \in {"close", "delete", "sync", "merge", "recreate"} => ~dom
  /\ op[o].pc \in {"mark", "halt", "close", "delete"}
       => \A n \in online : task[n] = "end"
  /\ op[o].pc \in {"sync", "merge"} =>
       /\ op[o].new > 0
       /\ \A n \in Nodes \ {Ctrl} : task[n] = "end" => base[n] # NoFile /\ diff \subseteq base[n]
  /\ op[o].pc = "sync" => \A n \in op[o].nodes :
       n # Ctrl /\ (n \in online => base[n] = NoFile \/ base[Ctrl] \subseteq base[n])
  /\ op[o].pc = "recreate" => diff \subseteq base[Ctrl]
  /\ op[o].pc = "resend" => \A n, m \in op[o].nodes : n = m

TransferInv ==
  /\ left = Fresh
  /\ \A n \in Nodes : task[n] = "begin" => Owned(n)
  /\ SyncedMissesNothing
  /\ \A o \in Ops : SaveInv(o)

(* From the time the groups are closed nobody begins to open a desktop, and from
   the first deletion nobody is still opening one.                             *)
ClosedInv(o) ==
  /\ op[o].pc \in {"delete", "sync", "merge"} => \A g \in Groups :
       /\ ~open[g]
       /\ Host[g] \in online => (op[o].pc = "delete" /\ g \in op[o].groups) \/ ins[g] = "none"
  /\ op[o].pc = "delete" => (\A u \in Users : req[u] = None) \/ op[o].groups = Groups
  /\ op[o].pc \in {"sync", "merge"} => \A u \in Users : req[u] = None

Inv == TypeOK /\ OneAtATime /\ StatusInv /\ TransferInv /\ \A o \in Ops : ClosedInv(o)


\* What a node has when the difference disk is merged into its image
Fetched(n) == (IF base[n] = NoFile THEN base[Ctrl] ELSE base[n]) \cup diff

LEMMA FetchedHas ==
  ASSUME TypeOK, NEW n \in Nodes
  PROVE  /\ Fetched(n) # NoFile /\ diff \subseteq Fetched(n)
         /\ base[n] = NoFile \/ base[Ctrl] \subseteq base[n] => base[Ctrl] \subseteq Fetched(n)
         /\ Fetched(Ctrl) = base[Ctrl] \cup diff
<1>1. Fetched(n) \in SUBSET Edits
  BY ConstantAssumption DEF Fetched, TypeOK, ImageOK
<1> QED BY <1>1, ConstantAssumption DEF Fetched, TypeOK, ImageOK

LEMMA TransferEnd ==
  ASSUME Sound, TypeOK, left = Fresh, NEW n \in Nodes, NEW v \in 0..MaxVersion, v > 0,
         NEW how \in Endings(n), Transfer(n, v, how)
  PROVE  /\ left' = Fresh
         /\ \A m \in Nodes \ {n} : base'[m] = base[m] /\ task'[m] = task[m]
         /\ \/ how = "ok" /\ task'[n] = "end" /\ n \in online /\ base'[n] = Fetched(n)
            \/ how # "ok" /\ task'[n] = "error" /\ base'[n] \in {base[n], Fetched(n)}
<1>1. left[n] # v /\ how # "kept"
  BY DEF Fresh, Sound, Endings
<1>2. left' = left
  BY <1>1 DEF Transfer, Fresh, TypeOK, ImageOK
<1>3. base' = [base EXCEPT ![n] = IF how = "down" THEN base[n] ELSE Fetched(n)]
  BY <1>1 DEF Transfer, Fetched
<1>4. how = "ok" => n \in online
  BY DEF Endings
<1> QED
  BY <1>1, <1>2, <1>3, <1>4 DEF Transfer, TypeOK, ImageOK

\* A thread that does nothing is bound by nothing.
LEMMA IdleSave ==
  ASSUME NEW q \in Ops, op'[q].pc = "idle"
  PROVE  SaveInv(q)'
BY DEF SaveInv

\* The steps of an operation under way
LEMMA StepInv ==
  ASSUME Sound, Inv, TypeOK', NEW o \in Ops, Step(o), Drained(o)
  PROVE  Inv'
<1> USE ConstantAssumption DEF Inv
<1>1. CASE PowerEnd(o)
  <2> USE <1>1 DEF PowerEnd, image, desk, sched
  <2>1. op'[o].pc = "idle"
    BY DEF TypeOK, OpsOK, OpRecords, Goes, Ends, IdleOp
  <2>2. \A q \in Ops \ {o} : op'[q] = op[q] /\ op[q].pc = "idle"
    BY DEF TypeOK, OpsOK, OneAtATime, Goes, Ends, Quiet
  <2>3. OneAtATime'
    BY <2>2 DEF OneAtATime
  <2>4. StatusInv'
    BY <2>1, <2>2 DEF StatusInv, BusyIsBusy, Busy, SavePcs, Quiet
  <2>5. TransferInv'
    BY <2>1, <2>2 DEF TransferInv, SaveInv, Owned, SyncedMissesNothing, Fresh, TypeOK, ImageOK
  <2>6. \A q \in Ops : ClosedInv(q)'
    BY <2>1, <2>2 DEF ClosedInv
  <2> QED
    BY <2>3, <2>4, <2>5, <2>6 DEF Inv
<1>2. CASE StopEnd(o)
  <2> USE <1>2 DEF StopEnd, image, desk, sched
  <2>1. op'[o].pc = "idle"
    BY DEF TypeOK, OpsOK, OpRecords, Goes, Ends, IdleOp
  <2>2. \A q \in Ops \ {o} : op'[q] = op[q] /\ op[q].pc = "idle"
    BY DEF TypeOK, OpsOK, OneAtATime, Goes, Ends, Quiet
  <2>3. OneAtATime'
    BY <2>2 DEF OneAtATime
  <2>4. StatusInv'
    BY <2>1, <2>2 DEF StatusInv, BusyIsBusy, Busy, SavePcs, Quiet
  <2>5. TransferInv'
    BY <2>1, <2>2 DEF TransferInv, SaveInv, Owned, SyncedMissesNothing, Fresh, TypeOK, ImageOK
  <2>6. \A q \in Ops : ClosedInv(q)'
    BY <2>1, <2>2 DEF ClosedInv
  <2> QED
    BY <2>3, <2>4, <2>5, <2>6 DEF Inv
<1>3. CASE ResetEnd(o)
  <2> USE <1>3 DEF ResetEnd, image, desk, sched
  <2>1. op'[o].pc = "idle"
    BY DEF TypeOK, OpsOK, OpRecords, Goes, Ends, IdleOp
  <2>2. \A q \in Ops \ {o} : op'[q] = op[q] /\ op[q].pc = "idle"
    BY DEF TypeOK, OpsOK, OneAtATime, Goes, Ends, Quiet
  <2>3. OneAtATime'
    BY <2>2 DEF OneAtATime
  <2>4. StatusInv'
    BY <2>1, <2>2 DEF StatusInv, BusyIsBusy, Busy, SavePcs, Quiet
  <2>5. TransferInv'
    BY <2>1, <2>2 DEF TransferInv, SaveInv, Owned, SyncedMissesNothing, Fresh, TypeOK, ImageOK
  <2>6. \A q \in Ops : ClosedInv(q)'
    BY <2>1, <2>2 DEF ClosedInv
  <2> QED
    BY <2>3, <2>4, <2>5, <2>6 DEF Inv
<1>4. CASE Mark(o)
  <2> USE <1>4 DEF Mark, image, desk, sched
  <2>1. op'[o].pc = "halt" /\ op'[o].pre = status
    BY DEF TypeOK, OpsOK, OpRecords, Goes, Ends, IdleOp
  <2>2. \A q \in Ops \ {o} : op'[q] = op[q] /\ op[q].pc = "idle"
    BY DEF TypeOK, OpsOK, OneAtATime, Goes, Ends, Quiet
  <2>3. OneAtATime'
    BY <2>2 DEF OneAtATime
  <2>4. StatusInv'
    BY <2>1, <2>2 DEF StatusInv, BusyIsBusy, Busy, SavePcs, Quiet
  <2>5. TransferInv'
    BY <2>1, <2>2 DEF TransferInv, SaveInv, Owned, SyncedMissesNothing, Fresh, TypeOK, ImageOK
  <2>6. \A q \in Ops : ClosedInv(q)'
    BY <2>1, <2>2 DEF ClosedInv
  <2> QED
    BY <2>3, <2>4, <2>5, <2>6 DEF Inv
<1>5. CASE Halt(o)
  <2> USE <1>5 DEF Halt, image, desk, sched
  <2>1. \/ op'[o].pc = "close" /\ dom' = FALSE /\ UNCHANGED status
        \/ op'[o].pc = "idle" /\ status' = op[o].pre
    <3>1. CASE Goes(o, "close") /\ dom' = FALSE /\ UNCHANGED status
      BY <3>1 DEF TypeOK, OpsOK, OpRecords, Goes
    <3>2. CASE Ends(o) /\ status' = op[o].pre
      BY <3>2 DEF TypeOK, OpsOK, Ends, IdleOp
    <3> QED BY <3>1, <3>2
  <2>2. \A q \in Ops \ {o} : op'[q] = op[q] /\ op[q].pc = "idle"
    BY DEF TypeOK, OpsOK, OneAtATime, Goes, Ends, Quiet
  <2>3. OneAtATime'
    BY <2>2 DEF OneAtATime
  <2>4. StatusInv'
    BY <2>1, <2>2 DEF StatusInv, BusyIsBusy, Busy, SavePcs, Quiet
  <2>5. TransferInv'
    BY <2>1, <2>2 DEF TransferInv, SaveInv, Owned, SyncedMissesNothing, Fresh, TypeOK, ImageOK
  <2>6. \A q \in Ops : ClosedInv(q)'
    BY <2>1, <2>2 DEF ClosedInv
  <2> QED
    BY <2>3, <2>4, <2>5, <2>6 DEF Inv
<1>6. CASE CloseGroups(o)
  <2> USE <1>6 DEF CloseGroups, image, desk, sched
  <2>1. op'[o].pc = "delete" /\ op'[o].groups = Groups
    BY DEF TypeOK, OpsOK, OpRecords, Goes, Ends, IdleOp
  <2>2. \A q \in Ops \ {o} : op'[q] = op[q] /\ op[q].pc = "idle"
    BY DEF TypeOK, OpsOK, OneAtATime, Goes, Ends, Quiet
  <2>3. OneAtATime'
    BY <2>2 DEF OneAtATime
  <2>4. StatusInv'
    BY <2>1, <2>2 DEF StatusInv, BusyIsBusy, Busy, SavePcs, Quiet
  <2>5. TransferInv'
    BY <2>1, <2>2 DEF TransferInv, SaveInv, Owned, SyncedMissesNothing, Fresh, TypeOK, ImageOK
  <2>6. \A q \in Ops : ClosedInv(q)'
    BY <2>1, <2>2 DEF ClosedInv
  <2> QED
    BY <2>3, <2>4, <2>5, <2>6 DEF Inv
<1>7. CASE SaveBreaks(o)
  <2> USE <1>7 DEF SaveBreaks, image, desk, sched
  <2>1. op'[o].pc = "idle"
    BY DEF TypeOK, OpsOK, OpRecords, Goes, Ends, IdleOp
  <2>2. \A q \in Ops \ {o} : op'[q] = op[q] /\ op[q].pc = "idle"
    BY DEF TypeOK, OpsOK, OneAtATime, Goes, Ends, Quiet
  <2>3. OneAtATime'
    BY <2>2 DEF OneAtATime
  <2>4. StatusInv'
    BY <2>1, <2>2 DEF StatusInv, BusyIsBusy, Busy, SavePcs, Quiet
  <2>5. TransferInv'
    BY <2>1, <2>2 DEF TransferInv, SaveInv, Owned, SyncedMissesNothing, Fresh, TypeOK, ImageOK
  <2>6. \A q \in Ops : ClosedInv(q)'
    BY <2>1, <2>2 DEF ClosedInv
  <2> QED
    BY <2>3, <2>4, <2>5, <2>6 DEF Inv
<1>8. CASE BeginTransfers(o)
  <2> USE <1>8 DEF BeginTransfers, image, desk, sched
  <2>1. op'[o].pc = "sync" /\ op'[o].nodes = Nodes \ {Ctrl} /\ op'[o].new = version + 1
    BY DEF TypeOK, OpsOK, OpRecords, Goes, Ends, IdleOp
  <2>2. \A q \in Ops \ {o} : op'[q] = op[q] /\ op[q].pc = "idle"
    BY DEF TypeOK, OpsOK, OneAtATime, Goes, Ends, Quiet
  <2>3. OneAtATime'
    BY <2>2 DEF OneAtATime
  <2>4. StatusInv'
    BY <2>1, <2>2 DEF StatusInv, BusyIsBusy, Busy, SavePcs, Quiet
  <2>5. TransferInv'
    <3>1. left' = Fresh
      BY DEF TransferInv
    <3>2. \A m \in Nodes : task'[m] = "begin" => Owned(m)'
      BY <2>1, <2>2 DEF TransferInv, Owned, TypeOK, ImageOK
    <3>3. SyncedMissesNothing'
      BY DEF TransferInv, SyncedMissesNothing, TypeOK, ImageOK
    <3>4. \A q \in Ops : SaveInv(q)'
      <4>1. op'[o].new > 0
        BY <2>1 DEF TypeOK, RowOK
      <4>2. \A n \in Nodes \ {Ctrl} : task'[n] = "begin"
        BY DEF TypeOK, ImageOK
      <4>3. \A n \in op'[o].nodes : n # Ctrl /\ (n \in online => base[Ctrl] \subseteq base[n])
        BY <2>1 DEF TransferInv, SaveInv, SyncedMissesNothing
      <4>4. SaveInv(o)'
        BY <2>1, <4>1, <4>2, <4>3 DEF TransferInv, SaveInv
      <4>5. \A q \in Ops \ {o} : SaveInv(q)'
        BY <2>2, IdleSave
      <4> QED BY <4>4, <4>5
    <3> QED BY <3>1, <3>2, <3>3, <3>4 DEF TransferInv
  <2>6. \A q \in Ops : ClosedInv(q)'
    BY <2>1, <2>2, Drained(o) DEF ClosedInv, Drained, TypeOK, DeskOK
  <2> QED
    BY <2>3, <2>4, <2>5, <2>6 DEF Inv
<1>9. CASE BeginMerge(o)
  <2> USE <1>9 DEF BeginMerge, image, desk, sched
  <2>1. op'[o].pc = "merge" /\ op'[o].new = op[o].new
    BY DEF TypeOK, OpsOK, OpRecords, Goes, Ends, IdleOp
  <2>2. \A q \in Ops \ {o} : op'[q] = op[q] /\ op[q].pc = "idle"
    BY DEF TypeOK, OpsOK, OneAtATime, Goes, Ends, Quiet
  <2>3. OneAtATime'
    BY <2>2 DEF OneAtATime
  <2>4. StatusInv'
    BY <2>1, <2>2 DEF StatusInv, BusyIsBusy, Busy, SavePcs, Quiet
  <2>5. TransferInv'
    BY <2>1, <2>2 DEF TransferInv, SaveInv, Owned, SyncedMissesNothing, Fresh, TypeOK, ImageOK
  <2>6. \A q \in Ops : ClosedInv(q)'
    BY <2>1, <2>2 DEF ClosedInv
  <2> QED
    BY <2>3, <2>4, <2>5, <2>6 DEF Inv
<1>10. CASE Merge(o)
  <2> USE <1>10 DEF Merge, image, desk, sched
  <2>1. \/ op'[o].pc = "recreate" /\ UNCHANGED status
        \/ op'[o].pc = "idle" /\ status' = "error"
    BY DEF TypeOK, OpsOK, OpRecords, Goes, Ends, IdleOp
  <2>2. \A q \in Ops \ {o} : op'[q] = op[q] /\ op[q].pc = "idle"
    BY DEF TypeOK, OpsOK, OneAtATime, Goes, Ends, Quiet
  <2>3. OneAtATime'
    BY <2>2 DEF OneAtATime
  <2>4. StatusInv'
    BY <2>1, <2>2 DEF StatusInv, BusyIsBusy, Busy, SavePcs, Quiet
  <2>0. /\ left' = Fresh
        /\ \A m \in Nodes \ {Ctrl} : base'[m] = base[m] /\ task'[m] = task[m]
        /\ \/ task'[Ctrl] = "end" /\ base'[Ctrl] = Fetched(Ctrl)
           \/ task'[Ctrl] = "error" /\ base'[Ctrl] \in {base[Ctrl], Fetched(Ctrl)} /\ op'[o].pc = "idle"
    <3>1. PICK how \in Endings(Ctrl) :
            /\ Transfer(Ctrl, op[o].new, how)
            /\ how # "ok" => op'[o].pc = "idle"
      BY DEF TypeOK, OpsOK, Ends, IdleOp
    <3>2. op[o].new \in 0..MaxVersion /\ op[o].new > 0 /\ left = Fresh
      BY DEF TypeOK, OpsOK, OpRecords, TransferInv, SaveInv
    <3> QED BY <3>1, <3>2, TransferEnd
  <2>5. TransferInv'
    <3>1. left' = Fresh
      BY <2>0
    <3>2. \A m \in Nodes : task'[m] = "begin" => Owned(m)'
      BY <2>0, <2>1, <2>2 DEF TransferInv, Owned, TypeOK, ImageOK
    <3>3. SyncedMissesNothing'
      BY <2>0, FetchedHas DEF TransferInv, SaveInv, SyncedMissesNothing, TypeOK, ImageOK
    <3>4. \A q \in Ops : SaveInv(q)'
      BY <2>0, <2>1, <2>2, FetchedHas DEF TransferInv, SaveInv, TypeOK, ImageOK
    <3> QED BY <3>1, <3>2, <3>3, <3>4 DEF TransferInv
  <2>6. \A q \in Ops : ClosedInv(q)'
    BY <2>1, <2>2 DEF ClosedInv
  <2> QED
    BY <2>3, <2>4, <2>5, <2>6 DEF Inv
<1>11. CASE Recreate(o)
  <2> USE <1>11 DEF Recreate, image, desk, sched
  <2>1. \/ op'[o].pc = "create" /\ UNCHANGED status
        \/ op'[o].pc = "idle" /\ status' = "error"
    BY DEF TypeOK, OpsOK, OpRecords, Goes, Ends, IdleOp
  <2>2. \A q \in Ops \ {o} : op'[q] = op[q] /\ op[q].pc = "idle"
    BY DEF TypeOK, OpsOK, OneAtATime, Goes, Ends, Quiet
  <2>3. OneAtATime'
    BY <2>2 DEF OneAtATime
  <2>4. StatusInv'
    BY <2>1, <2>2 DEF StatusInv, BusyIsBusy, Busy, SavePcs, Quiet
  <2>5. TransferInv'
    BY <2>1, <2>2 DEF TransferInv, SaveInv, Owned, SyncedMissesNothing, Fresh, TypeOK, ImageOK
  <2>6. \A q \in Ops : ClosedInv(q)'
    BY <2>1, <2>2 DEF ClosedInv
  <2> QED
    BY <2>3, <2>4, <2>5, <2>6 DEF Inv
<1>12. CASE SaveEnd(o)
  <2> USE <1>12 DEF SaveEnd, image, desk, sched
  <2>1. op'[o].pc = "idle"
    BY DEF TypeOK, OpsOK, OpRecords, Goes, Ends, IdleOp
  <2>2. \A q \in Ops \ {o} : op'[q] = op[q] /\ op[q].pc = "idle"
    BY DEF TypeOK, OpsOK, OneAtATime, Goes, Ends, Quiet
  <2>3. OneAtATime'
    BY <2>2 DEF OneAtATime
  <2>4. StatusInv'
    BY <2>1, <2>2 DEF StatusInv, BusyIsBusy, Busy, SavePcs, Quiet
  <2>5. TransferInv'
    BY <2>1, <2>2 DEF TransferInv, SaveInv, Owned, SyncedMissesNothing, Fresh, TypeOK, ImageOK
  <2>6. \A q \in Ops : ClosedInv(q)'
    BY <2>1, <2>2 DEF ClosedInv
  <2> QED
    BY <2>3, <2>4, <2>5, <2>6 DEF Inv
<1>13. CASE CopyEnd(o)
  <2> USE <1>13 DEF CopyEnd, image, desk, sched
  <2>1. op'[o].pc = "idle"
    BY DEF TypeOK, OpsOK, OpRecords, Goes, Ends, IdleOp
  <2>2. \A q \in Ops \ {o} : op'[q] = op[q] /\ op[q].pc = "idle"
    BY DEF TypeOK, OpsOK, OneAtATime, Goes, Ends, Quiet
  <2>3. OneAtATime'
    BY <2>2 DEF OneAtATime
  <2>4. StatusInv'
    BY <2>1, <2>2 DEF Sound, StatusInv, BusyIsBusy, Busy, SavePcs, Quiet
  <2>5. TransferInv'
    BY <2>1, <2>2 DEF TransferInv, SaveInv, Owned, SyncedMissesNothing, Fresh, TypeOK, ImageOK
  <2>6. \A q \in Ops : ClosedInv(q)'
    BY <2>1, <2>2 DEF ClosedInv
  <2> QED
    BY <2>3, <2>4, <2>5, <2>6 DEF Inv
<1>14. CASE DownloadLoad(o)
  <2> USE <1>14 DEF DownloadLoad, image, desk, sched
  <2>1. op'[o].pc = "convert" /\ op'[o].pre = op[o].pre /\ op'[o].seen = status
    BY DEF TypeOK, OpsOK, OpRecords, Goes, Ends, IdleOp
  <2>2. \A q \in Ops \ {o} : op'[q] = op[q] /\ op[q].pc = "idle"
    BY DEF TypeOK, OpsOK, OneAtATime, Goes, Ends, Quiet
  <2>3. OneAtATime'
    BY <2>2 DEF OneAtATime
  <2>4. StatusInv'
    BY <2>1, <2>2 DEF StatusInv, BusyIsBusy, Busy, SavePcs, Quiet
  <2>5. TransferInv'
    BY <2>1, <2>2 DEF TransferInv, SaveInv, Owned, SyncedMissesNothing, Fresh, TypeOK, ImageOK
  <2>6. \A q \in Ops : ClosedInv(q)'
    BY <2>1, <2>2 DEF ClosedInv
  <2> QED
    BY <2>3, <2>4, <2>5, <2>6 DEF Inv
<1>15. CASE DownloadEnd(o)
  <2> USE <1>15 DEF DownloadEnd, image, desk, sched
  <2>1. op'[o].pc = "idle"
    BY DEF TypeOK, OpsOK, OpRecords, Goes, Ends, IdleOp
  <2>2. \A q \in Ops \ {o} : op'[q] = op[q] /\ op[q].pc = "idle"
    BY DEF TypeOK, OpsOK, OneAtATime, Goes, Ends, Quiet
  <2>3. OneAtATime'
    BY <2>2 DEF OneAtATime
  <2>4. StatusInv'
    BY <2>1, <2>2 DEF StatusInv, BusyIsBusy, Busy, SavePcs, Quiet
  <2>5. TransferInv'
    BY <2>1, <2>2 DEF TransferInv, SaveInv, Owned, SyncedMissesNothing, Fresh, TypeOK, ImageOK
  <2>6. \A q \in Ops : ClosedInv(q)'
    BY <2>1, <2>2 DEF ClosedInv
  <2> QED
    BY <2>3, <2>4, <2>5, <2>6 DEF Inv
<1>16. ASSUME NEW g \in Groups, DeleteDesktop(o, g) PROVE Inv'
  <2> USE <1>16 DEF DeleteDesktop, image, desk, sched
  <2>1. op'[o].pc = "delete" /\ op'[o].groups = op[o].groups \ {g}
    BY DEF TypeOK, OpsOK, OpRecords, Goes, Ends, IdleOp
  <2>2. \A q \in Ops \ {o} : op'[q] = op[q] /\ op[q].pc = "idle"
    BY DEF TypeOK, OpsOK, OneAtATime, Goes, Ends, Quiet
  <2>3. OneAtATime'
    BY <2>2 DEF OneAtATime
  <2>4. StatusInv'
    BY <2>1, <2>2 DEF StatusInv, BusyIsBusy, Busy, SavePcs, Quiet
  <2>5. TransferInv'
    BY <2>1, <2>2 DEF TransferInv, SaveInv, Owned, SyncedMissesNothing, Fresh, TypeOK, ImageOK
  <2>0. ins' = IF Host[g] \in online THEN [ins EXCEPT ![g] = "none"] ELSE ins
    BY DEF Sound
  <2>6. \A q \in Ops : ClosedInv(q)'
    BY <2>0, <2>1, <2>2, Drained(o) DEF ClosedInv, Drained, TypeOK, DeskOK
  <2> QED
    BY <2>3, <2>4, <2>5, <2>6 DEF Inv
<1>17. ASSUME NEW g \in Groups, CreateDesktop(o, g) PROVE Inv'
  <2> USE <1>17 DEF CreateDesktop, image, desk, sched
  <2>1. op'[o].pc = "create"
    BY DEF TypeOK, OpsOK, OpRecords, Goes, Ends, IdleOp
  <2>2. \A q \in Ops \ {o} : op'[q] = op[q] /\ op[q].pc = "idle"
    BY DEF TypeOK, OpsOK, OneAtATime, Goes, Ends, Quiet
  <2>3. OneAtATime'
    BY <2>2 DEF OneAtATime
  <2>4. StatusInv'
    BY <2>1, <2>2 DEF StatusInv, BusyIsBusy, Busy, SavePcs, Quiet
  <2>5. TransferInv'
    BY <2>1, <2>2 DEF TransferInv, SaveInv, Owned, SyncedMissesNothing, Fresh, TypeOK, ImageOK
  <2>6. \A q \in Ops : ClosedInv(q)'
    BY <2>1, <2>2 DEF ClosedInv
  <2> QED
    BY <2>3, <2>4, <2>5, <2>6 DEF Inv
<1>18. ASSUME NEW n \in Nodes, TransferTo(o, n) PROVE Inv'
  <2> USE <1>18 DEF TransferTo, image, desk, sched
  <2>1. op'[o].pc = "sync" /\ op'[o].nodes = op[o].nodes \ {n} /\ op'[o].new = op[o].new
    BY DEF TypeOK, OpsOK, OpRecords, Goes, Ends, IdleOp
  <2>2. \A q \in Ops \ {o} : op'[q] = op[q] /\ op[q].pc = "idle"
    BY DEF TypeOK, OpsOK, OneAtATime, Goes, Ends, Quiet
  <2>3. OneAtATime'
    BY <2>2 DEF OneAtATime
  <2>4. StatusInv'
    BY <2>1, <2>2 DEF StatusInv, BusyIsBusy, Busy, SavePcs, Quiet
  <2>0. /\ left' = Fresh
        /\ \A m \in Nodes \ {n} : base'[m] = base[m] /\ task'[m] = task[m]
        /\ \/ task'[n] = "end" /\ n \in online /\ base'[n] = Fetched(n)
           \/ task'[n] = "error" /\ base'[n] \in {base[n], Fetched(n)}
    <3>1. PICK how \in Endings(n) : Transfer(n, op[o].new, how)
      OBVIOUS
    <3>2. op[o].new \in 0..MaxVersion /\ op[o].new > 0 /\ left = Fresh
      BY DEF TypeOK, OpsOK, OpRecords, TransferInv, SaveInv
    <3> QED BY <3>1, <3>2, TransferEnd
  <2>7. n # Ctrl /\ base'[Ctrl] = base[Ctrl]
    BY <2>0 DEF TransferInv, SaveInv
  <2>5. TransferInv'
    <3>1. left' = Fresh
      BY <2>0
    <3>2. \A m \in Nodes : task'[m] = "begin" => Owned(m)'
      BY <2>0, <2>1, <2>2 DEF TransferInv, Owned, TypeOK, ImageOK
    <3>3. SyncedMissesNothing'
      <4>1. ASSUME task'[n] = "end" PROVE base'[n] # NoFile /\ base[Ctrl] \subseteq base'[n]
        BY <4>1, <2>0, FetchedHas DEF TransferInv, SaveInv
      <4>2. \A m \in Nodes \ {n} : task'[m] = "end" => base'[m] # NoFile /\ base[Ctrl] \subseteq base'[m]
        BY <2>0 DEF TransferInv, SyncedMissesNothing
      <4> QED BY <2>7, <4>1, <4>2 DEF SyncedMissesNothing
    <3>4. \A q \in Ops : SaveInv(q)'
      <4>1. op'[o].new > 0
        BY <2>1 DEF TransferInv, SaveInv
      <4>2. \A m \in Nodes \ {Ctrl} : task'[m] = "end" => base'[m] # NoFile /\ diff \subseteq base'[m]
        BY <2>0, FetchedHas DEF TransferInv, SaveInv
      <4>3. \A m \in op'[o].nodes :
              m # Ctrl /\ (m \in online => base'[m] = NoFile \/ base[Ctrl] \subseteq base'[m])
        BY <2>0, <2>1 DEF TransferInv, SaveInv, TypeOK, OpsOK, OpRecords
      <4>4. SaveInv(o)'
        BY <2>1, <2>7, <4>1, <4>2, <4>3 DEF TransferInv, SaveInv
      <4> QED BY <2>2, <4>4, IdleSave
    <3> QED BY <3>1, <3>2, <3>3, <3>4 DEF TransferInv
  <2>6. \A q \in Ops : ClosedInv(q)'
    BY <2>1, <2>2 DEF ClosedInv
  <2> QED
    BY <2>3, <2>4, <2>5, <2>6 DEF Inv
<1>19. ASSUME NEW n \in Nodes, RetransmitEnd(o, n) PROVE Inv'
  <2> USE <1>19 DEF RetransmitEnd, image, desk, sched
  <2>1. op'[o].pc = "idle"
    BY DEF TypeOK, OpsOK, OpRecords, Goes, Ends, IdleOp
  <2>2. \A q \in Ops \ {o} : op'[q] = op[q] /\ op[q].pc = "idle"
    BY DEF TypeOK, OpsOK, OneAtATime, Goes, Ends, Quiet
  <2>3. OneAtATime'
    BY <2>2 DEF OneAtATime
  <2>4. StatusInv'
    BY <2>1, <2>2 DEF StatusInv, BusyIsBusy, Busy, SavePcs, Quiet
  <2>5. TransferInv'
    BY <2>1, <2>2 DEF TransferInv, SaveInv, Owned, SyncedMissesNothing, Fresh, TypeOK, ImageOK
  <2>6. \A q \in Ops : ClosedInv(q)'
    BY <2>1, <2>2 DEF ClosedInv
  <2> QED
    BY <2>3, <2>4, <2>5, <2>6 DEF Inv
<1>20. QED
  BY <1>1, <1>2, <1>3, <1>4, <1>5, <1>6, <1>7, <1>8, <1>9, <1>10, <1>11, <1>12, <1>13, <1>14, <1>15, <1>16, <1>17, <1>18, <1>19 DEF Step

\* The beginning of an operation
LEMMA BeginInv ==
  ASSUME Sound, Inv, TypeOK', Quiet, NEW o \in Ops,
         Begin(o) \/ (~NeedResync /\ \E j \in Jobs : JobFires(o, j))
  PROVE  Inv'
<1> USE ConstantAssumption DEF Inv
<1>1. CASE Start(o)
  <2> USE <1>1 DEF Start, image, desk, sched
  <2>1. op'[o].pc = "power"
    BY DEF TypeOK, OpsOK, OpRecords, Goes, Ends, IdleOp
  <2>2. \A q \in Ops \ {o} : op'[q] = op[q] /\ op[q].pc = "idle"
    BY DEF TypeOK, OpsOK, OneAtATime, Goes, Ends, Quiet
  <2>3. OneAtATime'
    BY <2>2 DEF OneAtATime
  <2>4. StatusInv'
    BY <2>1, <2>2 DEF StatusInv, BusyIsBusy, Busy, SavePcs, Quiet
  <2>5. TransferInv'
    BY <2>1, <2>2 DEF TransferInv, SaveInv, Owned, SyncedMissesNothing, Fresh, TypeOK, ImageOK
  <2>6. \A q \in Ops : ClosedInv(q)'
    BY <2>1, <2>2 DEF ClosedInv
  <2> QED
    BY <2>3, <2>4, <2>5, <2>6 DEF Inv
<1>2. CASE Stop(o)
  <2> USE <1>2 DEF Stop, image, desk, sched
  <2>1. op'[o].pc = "stop"
    BY DEF TypeOK, OpsOK, OpRecords, Goes, Ends, IdleOp
  <2>2. \A q \in Ops \ {o} : op'[q] = op[q] /\ op[q].pc = "idle"
    BY DEF TypeOK, OpsOK, OneAtATime, Goes, Ends, Quiet
  <2>3. OneAtATime'
    BY <2>2 DEF OneAtATime
  <2>4. StatusInv'
    BY <2>1, <2>2 DEF StatusInv, BusyIsBusy, Busy, SavePcs, Quiet
  <2>5. TransferInv'
    BY <2>1, <2>2 DEF TransferInv, SaveInv, Owned, SyncedMissesNothing, Fresh, TypeOK, ImageOK
  <2>6. \A q \in Ops : ClosedInv(q)'
    BY <2>1, <2>2 DEF ClosedInv
  <2> QED
    BY <2>3, <2>4, <2>5, <2>6 DEF Inv
<1>3. CASE Reset(o)
  <2> USE <1>3 DEF Reset, image, desk, sched
  <2>1. op'[o].pc = "reset"
    BY DEF TypeOK, OpsOK, OpRecords, Goes, Ends, IdleOp
  <2>2. \A q \in Ops \ {o} : op'[q] = op[q] /\ op[q].pc = "idle"
    BY DEF TypeOK, OpsOK, OneAtATime, Goes, Ends, Quiet
  <2>3. OneAtATime'
    BY <2>2 DEF OneAtATime
  <2>4. StatusInv'
    BY <2>1, <2>2 DEF StatusInv, BusyIsBusy, Busy, SavePcs, Quiet
  <2>5. TransferInv'
    BY <2>1, <2>2 DEF TransferInv, SaveInv, Owned, SyncedMissesNothing, Fresh, TypeOK, ImageOK
  <2>6. \A q \in Ops : ClosedInv(q)'
    BY <2>1, <2>2 DEF ClosedInv
  <2> QED
    BY <2>3, <2>4, <2>5, <2>6 DEF Inv
<1>4. CASE Upgrade(o)
  <2> USE <1>4 DEF Upgrade, image, desk, sched
  <2>1. op'[o].pc = "mark"
    BY DEF TypeOK, OpsOK, OpRecords, Goes, Ends, IdleOp
  <2>2. \A q \in Ops \ {o} : op'[q] = op[q] /\ op[q].pc = "idle"
    BY DEF TypeOK, OpsOK, OneAtATime, Goes, Ends, Quiet
  <2>3. OneAtATime'
    BY <2>2 DEF OneAtATime
  <2>4. StatusInv'
    BY <2>1, <2>2 DEF StatusInv, BusyIsBusy, Busy, SavePcs, Quiet
  <2>0. \A n \in online : task[n] = "end"
    BY DEF NeedResync, TransferInv, Owned, Quiet, TypeOK, ImageOK
  <2>5. TransferInv'
    BY <2>0, <2>1, <2>2 DEF TransferInv, SaveInv, Owned, SyncedMissesNothing, Fresh, TypeOK, ImageOK
  <2>6. \A q \in Ops : ClosedInv(q)'
    BY <2>1, <2>2 DEF ClosedInv
  <2> QED
    BY <2>3, <2>4, <2>5, <2>6 DEF Inv
<1>5. CASE Copy(o)
  <2> USE <1>5 DEF Copy, image, desk, sched
  <2>1. op'[o].pc = "copy" /\ op'[o].pre = status
    BY DEF TypeOK, OpsOK, OpRecords, Goes, Ends, IdleOp
  <2>2. \A q \in Ops \ {o} : op'[q] = op[q] /\ op[q].pc = "idle"
    BY DEF TypeOK, OpsOK, OneAtATime, Goes, Ends, Quiet
  <2>3. OneAtATime'
    BY <2>2 DEF OneAtATime
  <2>4. StatusInv'
    BY <2>1, <2>2 DEF StatusInv, BusyIsBusy, Busy, SavePcs, Quiet
  <2>5. TransferInv'
    BY <2>1, <2>2 DEF TransferInv, SaveInv, Owned, SyncedMissesNothing, Fresh, TypeOK, ImageOK
  <2>6. \A q \in Ops : ClosedInv(q)'
    BY <2>1, <2>2 DEF ClosedInv
  <2> QED
    BY <2>3, <2>4, <2>5, <2>6 DEF Inv
<1>6. CASE Download(o)
  <2> USE <1>6 DEF Download, image, desk, sched
  <2>1. op'[o].pc = "download" /\ op'[o].pre = status
    BY DEF TypeOK, OpsOK, OpRecords, Goes, Ends, IdleOp
  <2>2. \A q \in Ops \ {o} : op'[q] = op[q] /\ op[q].pc = "idle"
    BY DEF TypeOK, OpsOK, OneAtATime, Goes, Ends, Quiet
  <2>3. OneAtATime'
    BY <2>2 DEF OneAtATime
  <2>4. StatusInv'
    BY <2>1, <2>2 DEF StatusInv, BusyIsBusy, Busy, SavePcs, Quiet
  <2>5. TransferInv'
    BY <2>1, <2>2 DEF TransferInv, SaveInv, Owned, SyncedMissesNothing, Fresh, TypeOK, ImageOK
  <2>6. \A q \in Ops : ClosedInv(q)'
    BY <2>1, <2>2 DEF ClosedInv
  <2> QED
    BY <2>3, <2>4, <2>5, <2>6 DEF Inv
<1>7. ASSUME NEW n \in Nodes, Retransmit(o, n) PROVE Inv'
  <2> USE <1>7 DEF Retransmit, image, desk, sched
  <2>1. op'[o].pc = "resend" /\ op'[o].nodes = {n}
    BY DEF TypeOK, OpsOK, OpRecords, Goes, Ends, IdleOp
  <2>2. \A q \in Ops \ {o} : op'[q] = op[q] /\ op[q].pc = "idle"
    BY DEF TypeOK, OpsOK, OneAtATime, Goes, Ends, Quiet
  <2>3. OneAtATime'
    BY <2>2 DEF OneAtATime
  <2>4. StatusInv'
    BY <2>1, <2>2 DEF StatusInv, BusyIsBusy, Busy, SavePcs, Quiet
  <2>5. TransferInv'
    <3>1. left' = Fresh
      BY DEF TransferInv
    <3>2. \A m \in Nodes : task'[m] = "begin" => Owned(m)'
      BY <2>1, <2>2 DEF TransferInv, Owned, Quiet, TypeOK, ImageOK
    <3>3. SyncedMissesNothing'
      BY DEF TransferInv, SyncedMissesNothing, TypeOK, ImageOK
    <3>4. \A q \in Ops : SaveInv(q)'
      <4>1. SaveInv(o)'
        BY <2>1 DEF SaveInv
      <4> QED BY <2>2, <4>1, IdleSave
    <3> QED BY <3>1, <3>2, <3>3, <3>4 DEF TransferInv
  <2>6. \A q \in Ops : ClosedInv(q)'
    BY <2>1, <2>2 DEF ClosedInv
  <2> QED
    BY <2>3, <2>4, <2>5, <2>6 DEF Inv
<1>8. ASSUME ~NeedResync, NEW j \in Jobs, JobFires(o, j) PROVE Inv'
  <2> USE <1>8 DEF JobFires, image, desk, sched
  <2>1. op'[o].pc = "mark"
    BY DEF TypeOK, OpsOK, OpRecords, Goes, Ends, IdleOp
  <2>2. \A q \in Ops \ {o} : op'[q] = op[q] /\ op[q].pc = "idle"
    BY DEF TypeOK, OpsOK, OneAtATime, Goes, Ends, Quiet
  <2>3. OneAtATime'
    BY <2>2 DEF OneAtATime
  <2>4. StatusInv'
    BY <2>1, <2>2 DEF StatusInv, BusyIsBusy, Busy, SavePcs, Quiet
  <2>0. \A n \in online : task[n] = "end"
    BY DEF NeedResync, TransferInv, Owned, Quiet, TypeOK, ImageOK
  <2>5. TransferInv'
    BY <2>0, <2>1, <2>2 DEF TransferInv, SaveInv, Owned, SyncedMissesNothing, Fresh, TypeOK, ImageOK
  <2>6. \A q \in Ops : ClosedInv(q)'
    BY <2>1, <2>2 DEF ClosedInv
  <2> QED
    BY <2>3, <2>4, <2>5, <2>6 DEF Inv
<1>9. QED
  BY <1>1, <1>2, <1>3, <1>4, <1>5, <1>6, <1>7, <1>8 DEF Begin
\* What happens around the operations; groups are switched and nodes come back
\* when there is none.
LEMMA OtherInv ==
  ASSUME Inv, TypeOK',
         Environment \/ (Quiet /\ ((\E g \in Groups : Toggle(g)) \/ \E n \in Nodes : NodeUp(n)))
  PROVE  Inv'
<1> USE ConstantAssumption DEF Inv
<1>1. ASSUME NEW e \in Edits, Edit(e) PROVE Inv'
  <2> USE <1>1 DEF Edit, image, desk, sched
  <2>1. OneAtATime' /\ StatusInv'
    BY DEF OneAtATime, StatusInv, BusyIsBusy
  <2>2. TransferInv'
    BY DEF TransferInv, SaveInv, Owned, SyncedMissesNothing, Fresh, TypeOK, ImageOK
  <2>3. \A o \in Ops : ClosedInv(o)'
    BY DEF ClosedInv
  <2> QED BY <2>1, <2>2, <2>3
<1>2. CASE TemplateOff
  <2> USE <1>2 DEF TemplateOff, image, desk, sched
  <2>1. OneAtATime' /\ StatusInv'
    BY DEF OneAtATime, StatusInv, BusyIsBusy
  <2>2. TransferInv'
    BY DEF TransferInv, SaveInv, Owned, SyncedMissesNothing, Fresh, TypeOK, ImageOK
  <2>3. \A o \in Ops : ClosedInv(o)'
    BY DEF ClosedInv
  <2> QED BY <2>1, <2>2, <2>3
<1>3. ASSUME NEW u \in Users, Boot(u) PROVE Inv'
  <2> USE <1>3 DEF Boot, image, desk, sched
  <2>1. OneAtATime' /\ StatusInv'
    BY DEF OneAtATime, StatusInv, BusyIsBusy
  <2>2. TransferInv'
    BY DEF TransferInv, SaveInv, Owned, SyncedMissesNothing, Fresh
  <2>3. \A o \in Ops : ClosedInv(o)'
    BY DEF ClosedInv, TypeOK, DeskOK
  <2> QED BY <2>1, <2>2, <2>3
<1>4. ASSUME NEW u \in Users, NEW g \in Groups, Check(u, g) PROVE Inv'
  <2> USE <1>4 DEF Check, image, desk, sched
  <2>1. OneAtATime' /\ StatusInv'
    BY DEF OneAtATime, StatusInv, BusyIsBusy
  <2>2. TransferInv'
    BY DEF TransferInv, SaveInv, Owned, SyncedMissesNothing, Fresh
  <2>3. \A o \in Ops : ClosedInv(o)'
    BY DEF ClosedInv, TypeOK, DeskOK
  <2> QED BY <2>1, <2>2, <2>3
<1>5. ASSUME NEW g \in Groups, GuestOff(g) PROVE Inv'
  <2> USE <1>5 DEF GuestOff, image, desk, sched
  <2>1. OneAtATime' /\ StatusInv'
    BY DEF OneAtATime, StatusInv, BusyIsBusy
  <2>2. TransferInv'
    BY DEF TransferInv, SaveInv, Owned, SyncedMissesNothing, Fresh
  <2>3. \A o \in Ops : ClosedInv(o)'
    BY DEF ClosedInv, TypeOK, DeskOK
  <2> QED BY <2>1, <2>2, <2>3
<1>6. ASSUME NEW n \in Nodes, NodeDown(n) PROVE Inv'
  <2> USE <1>6 DEF NodeDown, image, desk, sched
  <2>1. OneAtATime' /\ StatusInv'
    BY DEF OneAtATime, StatusInv, BusyIsBusy
  <2>2. TransferInv'
    BY ZenonT(60) DEF TransferInv, SaveInv, Owned, SyncedMissesNothing, Fresh, TypeOK, ImageOK
  <2>3. \A o \in Ops : ClosedInv(o)'
    BY DEF ClosedInv
  <2> QED BY <2>1, <2>2, <2>3
<1>7. ASSUME NEW j \in Jobs, Schedule(j) PROVE Inv'
  <2> USE <1>7 DEF Schedule, image, desk, sched
  <2>1. OneAtATime' /\ StatusInv'
    BY DEF OneAtATime, StatusInv, BusyIsBusy
  <2>2. TransferInv'
    BY DEF TransferInv, SaveInv, Owned, SyncedMissesNothing, Fresh
  <2>3. \A o \in Ops : ClosedInv(o)'
    BY DEF ClosedInv
  <2> QED BY <2>1, <2>2, <2>3
<1>8. CASE Restart
  <2> USE <1>8 DEF Restart, image, desk, sched
  <2>1. OneAtATime' /\ StatusInv'
    BY DEF OneAtATime, StatusInv, BusyIsBusy
  <2>2. TransferInv'
    BY DEF TransferInv, SaveInv, Owned, SyncedMissesNothing, Fresh
  <2>3. \A o \in Ops : ClosedInv(o)'
    BY DEF ClosedInv
  <2> QED BY <2>1, <2>2, <2>3
<1>9. ASSUME NEW g \in Groups, Toggle(g), Quiet PROVE Inv'
  <2> USE <1>9 DEF Toggle, image, desk, sched, Quiet
  <2>1. OneAtATime' /\ StatusInv'
    BY DEF OneAtATime, StatusInv, BusyIsBusy
  <2>2. TransferInv'
    BY DEF TransferInv, SaveInv, Owned, SyncedMissesNothing, Fresh
  <2>3. \A o \in Ops : ClosedInv(o)'
    BY DEF ClosedInv, TypeOK, DeskOK
  <2> QED BY <2>1, <2>2, <2>3
<1>10. ASSUME NEW n \in Nodes, NodeUp(n), Quiet PROVE Inv'
  <2> USE <1>10 DEF NodeUp, image, desk, sched, Quiet
  <2>1. OneAtATime' /\ StatusInv'
    BY DEF OneAtATime, StatusInv, BusyIsBusy
  <2>2. TransferInv'
    BY DEF TransferInv, SaveInv, Owned, SyncedMissesNothing, Fresh, TypeOK, ImageOK
  <2>3. \A o \in Ops : ClosedInv(o)'
    BY DEF ClosedInv
  <2> QED BY <2>1, <2>2, <2>3
<1>11. QED
  BY <1>1, <1>2, <1>3, <1>4, <1>5, <1>6, <1>7, <1>8, <1>9, <1>10 DEF Environment

LEMMA InvInit == Init => Inv
<1> SUFFICES ASSUME Init PROVE Inv
  OBVIOUS
<1>1. TypeOK
  BY TypesInit
<1>2. \A o \in Ops : op[o].pc = "idle"
  BY DEF Init, IdleOp
<1>3. OneAtATime /\ StatusInv
  BY <1>2 DEF Init, OneAtATime, StatusInv, BusyIsBusy
<1>4. TransferInv
  <2>1. left = Fresh
    BY DEF Init, Fresh
  <2>2. \A n \in Nodes : task[n] = "end" /\ base[n] = base[Ctrl]
    BY ConstantAssumption DEF Init
  <2>3. \A o \in Ops : SaveInv(o)
    BY <1>2 DEF SaveInv
  <2> QED BY <1>1, <2>1, <2>2, <2>3 DEF TransferInv, SyncedMissesNothing, TypeOK, ImageOK
<1>5. \A o \in Ops : ClosedInv(o)
  BY <1>2 DEF ClosedInv
<1> QED BY <1>1, <1>3, <1>4, <1>5 DEF Inv

LEMMA CarefulIsNext == NextCareful => Next
BY DEF NextCareful, CarefulNext, CarefulStep, Next

LEMMA InvStep == Sound /\ Inv /\ [NextCareful]_vars => Inv'
<1> SUFFICES ASSUME Sound, Inv, [NextCareful]_vars PROVE Inv'
  OBVIOUS
<1>1. TypeOK'
  BY TypesStep, CarefulIsNext DEF Inv
<1>2. CASE UNCHANGED vars
  BY <1>1, <1>2 DEF vars, Inv, OneAtATime, StatusInv, BusyIsBusy, TransferInv, SaveInv, Owned,
                    SyncedMissesNothing, Fresh, ClosedInv
<1>3. CASE NextCareful
  BY <1>1, <1>3, StepInv, BeginInv, OtherInv DEF NextCareful, CarefulNext, CarefulStep
<1> QED BY <1>2, <1>3

(* The invariant that the theorems below follow from holds throughout, when
   operations on the template come one at a time.                          *)
THEOREM Invariance ==
  ASSUME Sound
  PROVE  SpecCareful => []Inv
<1>1. Inv /\ [NextCareful]_vars => Inv'
  BY InvStep
<1> QED BY <1>1, InvInit, PTL DEF SpecCareful

-----------------------------------------------------------------------------
(* The status of the template outlives no operation.                       *)
THEOREM NoStatusOutlives ==
  ASSUME Sound
  PROVE  SpecCareful => []BusyIsBusy
<1>1. Inv => BusyIsBusy
  BY DEF Inv, StatusInv
<1> QED BY <1>1, Invariance, PTL

(* A node whose last transfer is recorded as successful misses nothing.    *)
THEOREM TransfersMissNothing ==
  ASSUME Sound
  PROVE  SpecCareful => []SyncedMissesNothing
<1>1. Inv => SyncedMissesNothing
  BY DEF Inv, TransferInv
<1> QED BY <1>1, Invariance, PTL

\* Only these actions write the images.
LEMMA ImageWriters ==
  ASSUME NextCareful
  PROVE  \/ UNCHANGED <<diff, base>>
         \/ \E e \in Edits : Edit(e)
         \/ \E o \in Ops : \/ ResetEnd(o) \/ Recreate(o) \/ Merge(o)
                           \/ \E n \in Nodes : TransferTo(o, n) \/ RetransmitEnd(o, n)
<1>1. CASE Environment
  BY <1>1 DEF Environment, TemplateOff, Boot, Check, GuestOff, NodeDown, Schedule, Restart, image, desk
<1>2. CASE (\E g \in Groups : Toggle(g)) \/ (\E n \in Nodes : NodeUp(n))
  BY <1>2 DEF Toggle, NodeUp, image
<1>3. ASSUME NEW o \in Ops, Begin(o) \/ \E j \in Jobs : JobFires(o, j) PROVE UNCHANGED <<diff, base>>
  BY <1>3 DEF Begin, Start, Stop, Reset, Upgrade, Copy, Download, Retransmit, JobFires, image
<1>4. ASSUME NEW o \in Ops, Step(o)
      PROVE  \/ UNCHANGED <<diff, base>>
             \/ ResetEnd(o) \/ Recreate(o) \/ Merge(o)
             \/ \E n \in Nodes : TransferTo(o, n) \/ RetransmitEnd(o, n)
  BY <1>4 DEF Step, PowerEnd, StopEnd, Mark, Halt, CloseGroups, SaveBreaks, BeginTransfers, BeginMerge,
              SaveEnd, DeleteDesktop, CreateDesktop, CopyEnd, DownloadLoad, DownloadEnd, image
<1> QED
  BY <1>1, <1>2, <1>3, <1>4 DEF NextCareful, CarefulNext, CarefulStep

(* Only reset_template loses edits: the difference disk is made anew when its edits
   are in the controller's image.                                              *)
THEOREM EditsAreKept ==
  ASSUME Sound
  PROVE  SpecCareful => EditsKept
<1> DEFINE Kept == diff \cup base[Ctrl] \subseteq diff' \cup base'[Ctrl]
           NoReset == \A o \in Ops : op[o].pc = "reset" => op'[o].pc = "reset"
<1>1. ASSUME Inv, [NextCareful]_vars, NoReset PROVE Kept
  <2> USE ConstantAssumption
  <2>1. CASE UNCHANGED vars \/ UNCHANGED <<diff, base>>
    BY <2>1 DEF vars
  <2>2. ASSUME NEW e \in Edits, Edit(e) PROVE Kept
    BY <2>2 DEF Edit
  <2>3. ASSUME NEW o \in Ops, ResetEnd(o) PROVE FALSE
    BY <1>1, <2>3 DEF ResetEnd, Ends, IdleOp, Inv, TypeOK, OpsOK
  <2>4. ASSUME NEW o \in Ops, Recreate(o) PROVE Kept
    BY <1>1, <2>4 DEF Recreate, Inv, TransferInv, SaveInv
  <2>5. ASSUME NEW o \in Ops, NEW n \in Nodes, NEW v, NEW how, Transfer(n, v, how), UNCHANGED diff
        PROVE  Kept
    BY <1>1, <2>5 DEF Transfer, Inv, TypeOK, ImageOK
  <2>6. ASSUME NEW o \in Ops, Merge(o) PROVE Kept
    BY <2>5, <2>6 DEF Merge
  <2>7. ASSUME NEW o \in Ops, NEW n \in Nodes, TransferTo(o, n) PROVE Kept
    BY <2>5, <2>7 DEF TransferTo
  <2>8. ASSUME NEW o \in Ops, NEW n \in Nodes, RetransmitEnd(o, n) PROVE Kept
    BY <1>1, <2>8 DEF RetransmitEnd, Inv, TypeOK, ImageOK
  <2> QED
    BY <1>1, <2>1, <2>2, <2>3, <2>4, <2>6, <2>7, <2>8, ImageWriters
<1>2. Inv /\ [NextCareful]_vars => [NoReset => Kept]_vars
  BY <1>1
<1> QED
  BY <1>2, Invariance, PTL DEF SpecCareful, EditsKept

(* No base image is written under a running desktop during a save.         *)
THEOREM NoMergeUnderDesktops ==
  ASSUME Sound
  PROVE  SpecCareful => NoMergeUnderDesktop
<1> DEFINE Still == \A g \in Groups : ins[g] = "on" /\ status = "updating" => base'[Host[g]] = base[Host[g]]
<1>1. ASSUME Inv, [NextCareful]_vars PROVE Still
  <2> USE ConstantAssumption
  <2>1. CASE UNCHANGED vars \/ UNCHANGED <<diff, base>>
    BY <2>1 DEF vars
  <2>2. ASSUME NEW e \in Edits, Edit(e) PROVE Still
    BY <2>2 DEF Edit
  <2>3. ASSUME NEW o \in Ops, ResetEnd(o) \/ Recreate(o) PROVE Still
    BY <2>3 DEF ResetEnd, Recreate
  <2>4. ASSUME NEW o \in Ops, op[o].pc \in {"sync", "merge"}, NEW n \in Nodes, NEW v,
               NEW how \in Endings(n), Transfer(n, v, how)
        PROVE  Still
    <3>1. \A g \in Groups : ins[g] = "on" => Host[g] \notin online
      BY <1>1, <2>4 DEF Inv, ClosedInv
    <3>2. n \notin online => base' = base
      BY <1>1, <2>4 DEF Endings, Transfer, Inv, TypeOK, ImageOK
    <3>3. \A m \in Nodes \ {n} : base'[m] = base[m]
      BY <1>1, <2>4 DEF Transfer, Inv, TypeOK, ImageOK
    <3> QED BY <3>1, <3>2, <3>3
  <2>5. ASSUME NEW o \in Ops, Merge(o) PROVE Still
    BY <2>4, <2>5 DEF Merge
  <2>6. ASSUME NEW o \in Ops, NEW n \in Nodes, TransferTo(o, n) PROVE Still
    BY <2>4, <2>6 DEF TransferTo
  <2>7. ASSUME NEW o \in Ops, NEW n \in Nodes, RetransmitEnd(o, n) PROVE status # "updating"
    BY <1>1, <2>7 DEF RetransmitEnd, Inv, StatusInv, BusyIsBusy, SavePcs, OneAtATime
  <2> QED
    BY <1>1, <2>1, <2>2, <2>3, <2>5, <2>6, <2>7, ImageWriters
<1>2. Inv /\ [NextCareful]_vars => [Still]_vars
  BY <1>1
<1> QED
  BY <1>2, Invariance, PTL DEF SpecCareful, NoMergeUnderDesktop
=============================================================================
