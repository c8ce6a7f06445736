---------------------- MODULE StockTransferRaceProofs ----------------------
(* Proofs about StockTransferRace, for every set of operations and any     *)
(* number of handlers that overlap.                                        *)
EXTENDS StockTransferRace, StockTransferProofs

USE DEF vars, raceVars, transferVars, partVars, machineVars

(* What the argument needs of the types.                                   *)
RowTypes ==
    /\ status \in [Transfer -> Status \cup {"NEW"}]
    /\ linked \in [Transfer -> BOOLEAN]
    /\ lot \in [Transfer -> LotStatus \cup {"NONE"}]
    /\ req = [h \in Handler |-> req[h]]

(* A handler in the middle of a transfer's operation.                      *)
Busy(h) == req[h].stage \in {"loaded", "read", "items"}

(* A handler that is busy names a transfer.                                *)
HandlerTypes ==
    \A h \in Handler : Busy(h) => /\ req[h].t \in Transfer
                                  /\ req[h].linked \in BOOLEAN

(* A lot that some handler counts or receives exists, for good.            *)
LotUnderWay ==
    \A h \in Handler :
        Busy(h) /\ req[h].op \in {"count", "confirm"} => lot[req[h].t] # "NONE"

(* A receipt of an approved transfer has seen the approval, and will fail. *)
ConfirmSawApproval ==
    \A h \in Handler :
        /\ Busy(h) /\ req[h].stage = "read" /\ req[h].op = "confirm"
        /\ status[req[h].t] = "APPROVED"
        => req[h].linked /\ req[h].status = "APPROVED"

(* ApprovedHasLot by itself is not inductive: a receipt that looked for    *)
(* the transfer before its approval would close the lot.                   *)
LotInv == RowTypes /\ HandlerTypes /\ LotUnderWay /\ ConfirmSawApproval /\ ApprovedHasLot

LEMMA InitLotInv == RaceInit => LotInv
BY DEF RaceInit, Init, LotInv, RowTypes, HandlerTypes, LotUnderWay, ConfirmSawApproval,
   ApprovedHasLot, Status, LotStatus, Busy, Idle

----------------------------------------------------------------------------
(* Steps.                                                                  *)

LEMMA CreateDraftKeeps ==
    ASSUME LotInv, NEW t \in Transfer, CreateDraft(t), UNCHANGED <<linked, req>>
    PROVE  LotInv'
<1>1. /\ status' = [status EXCEPT ![t] = "DRAFT"]
      /\ lot' = lot /\ linked' = linked /\ req' = req
  BY DEF CreateDraft
<1>. QED
  BY <1>1 DEF LotInv, RowTypes, HandlerTypes, LotUnderWay, ConfirmSawApproval,
     ApprovedHasLot, Status, Busy

LEMMA LoadKeeps ==
    ASSUME LotInv, NEW h \in Handler, NEW op \in Op, NEW t \in Transfer, Load(h, op, t)
    PROVE  LotInv'
<1>1. /\ req'[h].stage = "loaded" /\ req'[h].op = op /\ req'[h].t = t
      /\ req'[h].linked \in BOOLEAN
      /\ \A g \in Handler \ {h} : req'[g] = req[g]
      /\ req' = [g \in Handler |-> req'[g]]
      /\ UNCHANGED <<status, linked, lot>>
  BY DEF Load, LotInv, RowTypes
<1>2. op \in {"count", "confirm"} => lot[t] # "NONE"
  <2>1. Admits(op, t)
    BY DEF Load
  <2>2. op \in {"count", "confirm"} => lot[t] \in LotStatus
    BY <2>1 DEF Admits
  <2>. QED
    BY <2>2 DEF LotStatus
<1>. QED
  BY <1>1, <1>2 DEF LotInv, RowTypes, HandlerTypes, LotUnderWay, ConfirmSawApproval,
     ApprovedHasLot, Busy

LEMMA ReadRowsKeeps ==
    ASSUME LotInv, NEW h \in Handler, ReadRows(h)
    PROVE  LotInv'
<1>1. /\ Busy(h) /\ req'[h].stage = "read" /\ req'[h].op = req[h].op /\ req'[h].t = req[h].t
      /\ req'[h].linked = req[h].linked \/ req'[h].linked = linked[req[h].t]
      /\ req[h].op = "confirm" => /\ req'[h].status = status[req[h].t]
                                  /\ req'[h].linked = linked[req[h].t]
      /\ \A g \in Handler \ {h} : req'[g] = req[g]
      /\ req' = [g \in Handler |-> req'[g]]
      /\ UNCHANGED <<status, linked, lot>>
  BY DEF ReadRows, LotInv, RowTypes, Busy, Idle
<1>2. req[h].t \in Transfer
  BY <1>1 DEF LotInv, HandlerTypes
<1>. QED
  BY <1>1, <1>2 DEF LotInv, RowTypes, HandlerTypes, LotUnderWay, ConfirmSawApproval,
     ApprovedHasLot, Busy

(* A handler that leaves the transfer and its lot alone, and learns        *)
(* nothing of them.                                                        *)
LEMMA HandlerKeeps ==
    ASSUME LotInv, NEW h \in Handler, UNCHANGED <<status, linked, lot>>,
           req' = [g \in Handler |-> req'[g]], \A g \in Handler \ {h} : req'[g] = req[g],
           \/ req'[h] = req[h]
           \/ req'[h].stage \in {"idle", "writing"}
           \/ /\ Busy(h) /\ req'[h].stage = "items" /\ req'[h].t = req[h].t
              /\ req'[h].op = req[h].op /\ req'[h].linked = req[h].linked
    PROVE  LotInv'
<1>1. \A g \in Handler : Busy(g)' <=> req'[g].stage \in {"loaded", "read", "items"}
  BY DEF Busy
<1>2. \A g \in Handler : Busy(g)' => /\ Busy(g) /\ req'[g].t = req[g].t
                                    /\ req'[g].op = req[g].op
                                    /\ req'[g].linked = req[g].linked
                                    /\ (req'[g].stage = "read" => req'[g] = req[g])
  BY <1>1 DEF Busy
<1>3. RowTypes' /\ HandlerTypes' /\ ApprovedHasLot'
  BY <1>2 DEF LotInv, RowTypes, HandlerTypes, ApprovedHasLot, Busy
<1>4. LotUnderWay' /\ ConfirmSawApproval'
  BY <1>2 DEF LotInv, RowTypes, LotUnderWay, ConfirmSawApproval, Busy
<1>. QED
  BY <1>3, <1>4 DEF LotInv

LEMMA FailKeeps == ASSUME LotInv, NEW h \in Handler, Fail(h) PROVE LotInv'
BY HandlerKeeps DEF Fail, Done, Idle, LotInv, RowTypes

(* The other writers of the rows.                                          *)
LEMMA WritersKeep ==
    ASSUME LotInv, NEW h \in Handler, NEW fresh \in BOOLEAN,
           \/ \E m \in Machine : ReadMachine(h, m)
           \/ \E a \in BOOLEAN : SaveStatus(h, a, fresh)
           \/ \E e \in Edit, a \in BOOLEAN : EditRow(h, e[1], e[2], a)
           \/ \E r \in SharedRow : ReadPart(h, r)
           \/ \E c \in Change : SavePart(h, c, fresh)
    PROVE  LotInv'
<1>1. UNCHANGED <<status, linked, lot>>
  BY DEF ReadMachine, SaveStatus, EditRow, EditProduct, ReadPart, SavePart
<1>2. req' = [g \in Handler |-> req'[g]] /\ \A g \in Handler \ {h} : req'[g] = req[g]
  BY DEF ReadMachine, SaveStatus, EditRow, ReadPart, SavePart, Done, LotInv, RowTypes
<1>3. req'[h] = req[h] \/ req'[h].stage \in {"idle", "writing"}
  BY DEF ReadMachine, SaveStatus, EditRow, ReadPart, SavePart, Done, Idle, LotInv, RowTypes
<1>. QED
  BY <1>1, <1>2, <1>3, HandlerKeeps

(* A handler that is about to commit is busy.                              *)
LEMMA ReadyIsBusy ==
    ASSUME LotInv, NEW h \in Handler, NEW op, Ready(h, op)
    PROVE  Busy(h) /\ req[h].t \in Transfer /\ req[h].op = op
BY DEF LotInv, HandlerTypes, Ready, Busy, Idle

(* A commit that leaves its transfer in another status than APPROVED and   *)
(* takes no lot away keeps the invariant.                                  *)
LEMMA CommitKeeps ==
    ASSUME LotInv, NEW h \in Handler, NEW t \in Transfer,
           NEW s \in (Status \cup {"NEW"}) \ {"APPROVED"}, NEW l \in BOOLEAN,
           NEW x \in LotStatus \cup {"NONE"},
           status' = [status EXCEPT ![t] = s], linked' = [linked EXCEPT ![t] = l],
           lot' = [lot EXCEPT ![t] = x], x = "NONE" => lot[t] = "NONE", Done(h)
    PROVE  LotInv'
<1>1. /\ req'[h] = Idle
      /\ \A g \in Handler \ {h} : req'[g] = req[g]
      /\ req' = [g \in Handler |-> req'[g]]
  BY DEF Done, LotInv, RowTypes
<1>2. RowTypes' /\ HandlerTypes'
  BY <1>1 DEF LotInv, RowTypes, HandlerTypes, Busy, Idle
<1>3. LotUnderWay' /\ ConfirmSawApproval'
  BY <1>1 DEF LotInv, RowTypes, HandlerTypes, LotUnderWay, ConfirmSawApproval, Busy, Idle
<1>4. ApprovedHasLot'
  BY DEF LotInv, RowTypes, ApprovedHasLot
<1>. QED
  BY <1>2, <1>3, <1>4 DEF LotInv

(* lot_id stays a Boolean, whether it is written back or kept.             *)
LEMMA KeptLinkType ==
    ASSUME LotInv, NEW h \in Handler, NEW fresh \in BOOLEAN, Busy(h)
    PROVE  KeptLink(h, fresh) \in BOOLEAN
BY DEF KeptLink, LotInv, RowTypes, HandlerTypes

LEMMA CommitSubmitKeeps ==
    ASSUME LotInv, NEW h \in Handler, NEW fresh \in BOOLEAN, CommitSubmit(h, fresh)
    PROVE  LotInv'
<1>. DEFINE t == req[h].t
<1>1. Busy(h) /\ t \in Transfer
  BY ReadyIsBusy DEF CommitSubmit
<1>2. /\ status' = [status EXCEPT ![t] = "SENT"]
      /\ linked' = [linked EXCEPT ![t] = KeptLink(h, fresh)]
      /\ lot' = lot /\ Done(h)
  BY DEF CommitSubmit, SaveTransfer
<1>3. lot[t] \in LotStatus \cup {"NONE"} /\ lot' = [lot EXCEPT ![t] = lot[t]]
  BY <1>1, <1>2 DEF LotInv, RowTypes
<1>. HIDE DEF t
<1>. QED
  BY <1>1, <1>2, <1>3, KeptLinkType, CommitKeeps DEF Status

LEMMA CommitApproveNothingKeeps ==
    ASSUME LotInv, NEW h \in Handler, NEW fresh \in BOOLEAN, CommitApproveNothing(h, fresh)
    PROVE  LotInv'
<1>. DEFINE t == req[h].t
<1>1. Busy(h) /\ t \in Transfer
  BY ReadyIsBusy DEF CommitApproveNothing
<1>2. /\ status' = [status EXCEPT ![t] = "REJECTED"]
      /\ linked' = [linked EXCEPT ![t] = KeptLink(h, fresh)]
      /\ lot' = lot /\ Done(h)
  BY DEF CommitApproveNothing, SaveTransfer
<1>3. lot[t] \in LotStatus \cup {"NONE"} /\ lot' = [lot EXCEPT ![t] = lot[t]]
  BY <1>1, <1>2 DEF LotInv, RowTypes
<1>. HIDE DEF t
<1>. QED
  BY <1>1, <1>2, <1>3, KeptLinkType, CommitKeeps DEF Status

LEMMA CommitRejectItemsKeeps ==
    ASSUME LotInv, NEW h \in Handler, CommitRejectItems(h)
    PROVE  LotInv'
<1>1. Busy(h)
  BY ReadyIsBusy DEF CommitRejectItems
<1>2. req' = [req EXCEPT ![h].stage = "items"] /\ UNCHANGED <<status, linked, lot>>
  BY DEF CommitRejectItems
<1>3. /\ req' = [g \in Handler |-> req'[g]] /\ \A g \in Handler \ {h} : req'[g] = req[g]
      /\ req'[h] = [req[h] EXCEPT !.stage = "items"]
  BY <1>2 DEF LotInv, RowTypes
<1>4. /\ req'[h].stage = "items" /\ req'[h].t = req[h].t
      /\ req'[h].op = req[h].op /\ req'[h].linked = req[h].linked
  BY <1>1, <1>3
<1>. QED
  BY <1>1, <1>2, <1>3, <1>4, HandlerKeeps

LEMMA CommitRejectKeeps ==
    ASSUME LotInv, NEW h \in Handler, NEW fresh \in BOOLEAN, CommitReject(h, fresh)
    PROVE  LotInv'
<1>. DEFINE t == req[h].t
<1>1. Busy(h) /\ t \in Transfer
  BY DEF CommitReject, LotInv, HandlerTypes, Busy
<1>2. /\ status' = [status EXCEPT ![t] = "REJECTED"]
      /\ linked' = [linked EXCEPT ![t] = KeptLink(h, fresh)]
      /\ lot' = lot /\ Done(h)
  BY DEF CommitReject, SaveTransfer
<1>3. lot[t] \in LotStatus \cup {"NONE"} /\ lot' = [lot EXCEPT ![t] = lot[t]]
  BY <1>1, <1>2 DEF LotInv, RowTypes
<1>. HIDE DEF t
<1>. QED
  BY <1>1, <1>2, <1>3, KeptLinkType, CommitKeeps DEF Status

LEMMA CommitDispatchInterKeeps ==
    ASSUME LotInv, NEW h \in Handler, NEW fresh \in BOOLEAN, CommitDispatchInter(h, fresh)
    PROVE  LotInv'
<1>. DEFINE t == req[h].t
<1>1. Busy(h) /\ t \in Transfer
  BY ReadyIsBusy DEF CommitDispatchInter
<1>2. /\ status' = [status EXCEPT ![t] = "IN_TRANSIT"]
      /\ linked' = [linked EXCEPT ![t] = KeptLink(h, fresh)]
      /\ lot' = lot /\ Done(h)
  BY DEF CommitDispatchInter, SaveTransfer
<1>3. lot[t] \in LotStatus \cup {"NONE"} /\ lot' = [lot EXCEPT ![t] = lot[t]]
  BY <1>1, <1>2 DEF LotInv, RowTypes
<1>. HIDE DEF t
<1>. QED
  BY <1>1, <1>2, <1>3, KeptLinkType, CommitKeeps DEF Status

LEMMA CommitDispatchIntraKeeps ==
    ASSUME LotInv, NEW h \in Handler, NEW fresh \in BOOLEAN, CommitDispatchIntra(h, fresh)
    PROVE  LotInv'
<1>. DEFINE t == req[h].t
<1>1. t \in Transfer
  BY ReadyIsBusy DEF CommitDispatchIntra
<1>2. /\ status' = [status EXCEPT ![t] = "IN_TRANSIT"] /\ linked' = [linked EXCEPT ![t] = TRUE]
      /\ lot' = [lot EXCEPT ![t] = "PENDING"] /\ Done(h)
  BY DEF CommitDispatchIntra, SaveTransfer
<1>. HIDE DEF t
<1>. QED
  BY <1>1, <1>2, CommitKeeps DEF Status, LotStatus

LEMMA CommitCancelKeeps ==
    ASSUME LotInv, NEW h \in Handler, NEW fresh \in BOOLEAN, CommitCancel(h, fresh)
    PROVE  LotInv'
<1>. DEFINE t == req[h].t
            x == IF req[h].status = "APPROVED" /\ req[h].linked THEN "CANCELLED" ELSE lot[t]
<1>1. Busy(h) /\ t \in Transfer
  BY ReadyIsBusy DEF CommitCancel
<1>2. /\ status' = [status EXCEPT ![t] = "CANCELLED"]
      /\ linked' = [linked EXCEPT ![t] = KeptLink(h, fresh)]
      /\ Done(h)
  BY DEF CommitCancel, SaveTransfer
<1>3. lot' = [lot EXCEPT ![t] = x]
  BY <1>1 DEF CommitCancel, LotInv, RowTypes
<1>4. x \in LotStatus \cup {"NONE"} /\ (x = "NONE" => lot[t] = "NONE")
  BY <1>1 DEF LotInv, RowTypes, LotStatus
<1>. HIDE DEF t, x
<1>. QED
  BY <1>1, <1>2, <1>3, <1>4, KeptLinkType, CommitKeeps DEF Status

(* The UNIQUE lot number: an approval goes through only while there is no  *)
(* lot, hence before any receipt has begun.                                *)
LEMMA CommitApproveKeeps ==
    ASSUME LotInv, NEW h \in Handler, NEW S, NEW q, CommitApprove(h, S, q)
    PROVE  LotInv'
<1>. DEFINE t == req[h].t
<1>1. Busy(h) /\ t \in Transfer
  BY ReadyIsBusy DEF CommitApprove
<1>2. /\ lot[t] = "NONE" /\ lot' = [lot EXCEPT ![t] = "PENDING"]
      /\ status' = [status EXCEPT ![t] = "APPROVED"] /\ linked' = [linked EXCEPT ![t] = TRUE]
      /\ req' = [req EXCEPT ![h] = Idle]
  BY DEF CommitApprove, SaveTransfer, Done
<1>. HIDE DEF t
<1>3. /\ req'[h] = Idle
      /\ \A g \in Handler \ {h} : req'[g] = req[g]
      /\ req' = [g \in Handler |-> req'[g]]
  BY <1>2 DEF LotInv, RowTypes
<1>4. RowTypes' /\ HandlerTypes'
  BY <1>1, <1>2, <1>3 DEF LotInv, RowTypes, HandlerTypes, Busy, Idle, Status, LotStatus
<1>5. LotUnderWay'
  BY <1>1, <1>2, <1>3 DEF LotInv, RowTypes, HandlerTypes, LotUnderWay, Busy, Idle
<1>6. ConfirmSawApproval'
  <2>1. \A g \in Handler : Busy(g) /\ req[g].op = "confirm" => req[g].t # t
    BY <1>2 DEF LotInv, LotUnderWay
  <2>. QED
    BY <1>1, <1>2, <1>3, <2>1 DEF LotInv, RowTypes, HandlerTypes, ConfirmSawApproval, Busy, Idle
<1>7. ApprovedHasLot'
  BY <1>1, <1>2 DEF LotInv, RowTypes, ApprovedHasLot
<1>. QED
  BY <1>4, <1>5, <1>6, <1>7 DEF LotInv

LEMMA CommitCountKeeps ==
    ASSUME LotInv, NEW h \in Handler, CommitCount(h)
    PROVE  LotInv'
<1>. DEFINE t == req[h].t
<1>1. t \in Transfer
  BY ReadyIsBusy DEF CommitCount
<1>2. /\ lot' = [lot EXCEPT ![t] = "RECEIVING"]
      /\ status' = status /\ linked' = linked
      /\ req' = [req EXCEPT ![h] = Idle]
  BY DEF CommitCount, Done
<1>. HIDE DEF t
<1>3. /\ req'[h] = Idle
      /\ \A g \in Handler \ {h} : req'[g] = req[g]
      /\ req' = [g \in Handler |-> req'[g]]
  BY <1>2 DEF LotInv, RowTypes
<1>. QED
  BY <1>1, <1>2, <1>3 DEF LotInv, RowTypes, HandlerTypes, LotUnderWay, ConfirmSawApproval,
     ApprovedHasLot, Busy, Idle, LotStatus

(* A receipt that goes through is of a transfer that is not APPROVED.      *)
LEMMA CommitConfirmKeeps ==
    ASSUME LotInv, NEW h \in Handler, NEW fresh \in BOOLEAN, CommitConfirm(h, fresh),
           RaceAssumption
    PROVE  LotInv'
<1>. DEFINE t == req[h].t
<1>1. Busy(h) /\ t \in Transfer /\ req[h].op = "confirm"
  BY ReadyIsBusy DEF CommitConfirm
<1>2. req[h].stage = "read"
  BY <1>1 DEF CommitConfirm, Ready, ReadsRows, LockingOps, Busy
<1>3. lot' = [lot EXCEPT ![t] = "RECEIVED"] /\ Done(h)
  BY DEF CommitConfirm
<1>4. status[t] # "APPROVED"
  BY <1>1, <1>2 DEF CommitConfirm, LotInv, ConfirmSawApproval
<1>5. status[t] \in Status \cup {"NEW"} /\ linked[t] \in BOOLEAN
  BY <1>1 DEF LotInv, RowTypes
<1>6. CASE req[h].linked /\ req[h].status = "IN_TRANSIT"
  <2>1. /\ status' = [status EXCEPT ![t] = "COMPLETED"]
        /\ linked' = [linked EXCEPT ![t] = KeptLink(h, fresh)]
    BY <1>6 DEF CommitConfirm, SaveTransfer
  <2>. HIDE DEF t
  <2>. QED
    BY <1>1, <1>3, <2>1, KeptLinkType, CommitKeeps DEF Status, LotStatus
<1>7. CASE ~ (req[h].linked /\ req[h].status = "IN_TRANSIT")
  <2>1. /\ status' = [status EXCEPT ![t] = status[t]]
        /\ linked' = [linked EXCEPT ![t] = linked[t]]
    BY <1>1, <1>7 DEF CommitConfirm, LotInv, RowTypes
  <2>. HIDE DEF t
  <2>. QED
    BY <1>1, <1>3, <1>4, <1>5, <2>1, CommitKeeps DEF LotStatus
<1>. QED
  BY <1>6, <1>7

LEMMA NextLotInv == ASSUME LotInv, [RaceNext]_raceVars PROVE LotInv'
<1>1. CASE UNCHANGED raceVars
  BY <1>1 DEF LotInv, RowTypes, HandlerTypes, LotUnderWay, ConfirmSawApproval,
     ApprovedHasLot, Busy
<1>2. CASE RaceNext
  <2>1. ASSUME NEW h \in Handler,
               \/ \E m \in Machine : ReadMachine(h, m)
               \/ \E a \in BOOLEAN, fresh \in BOOLEAN : SaveStatus(h, a, fresh)
               \/ \E e \in Edit, a \in BOOLEAN : EditRow(h, e[1], e[2], a)
               \/ \E r \in SharedRow : ReadPart(h, r)
               \/ \E c \in Change, fresh \in BOOLEAN : SavePart(h, c, fresh)
        PROVE  LotInv'
    BY <2>1, WritersKeep
  <2>. QED
    BY <1>2, <2>1, RaceAssumption, CreateDraftKeeps, LoadKeeps, ReadRowsKeeps, FailKeeps,
       CommitApproveKeeps, CommitCountKeeps, CommitSubmitKeeps, CommitApproveNothingKeeps,
       CommitRejectItemsKeeps, CommitRejectKeeps, CommitDispatchIntraKeeps,
       CommitDispatchInterKeeps, CommitCancelKeeps, CommitConfirmKeeps DEF RaceNext
<1>. QED
  BY <1>1, <1>2

(* However many handlers overlap, whatever they do, an approved transfer   *)
(* has the one lot of its approval, linked and receivable.                 *)
THEOREM ApprovedTransferHasLot == RaceSpec => []ApprovedHasLot
<1>1. LotInv => ApprovedHasLot
  BY DEF LotInv
<1>. QED
  BY <1>1, InitLotInv, NextLotInv, PTL DEF RaceSpec

----------------------------------------------------------------------------
(* Approvals exclude each other, as long as nobody writes back a row read  *)
(* without a lock: no dispatch or cancel, no status event, sale, return or *)
(* ticket.                                                                 *)
WritersBack == {"dispatch", "cancel", "status", "stock"}

StockTypes ==
    /\ assigned \in [Transfer -> SUBSET Machine]
    /\ ApprovedTypes(approved)
    /\ quantity \in [Row -> Nat] /\ reserved \in [Row -> Nat]
    /\ transferStatus \in [Machine -> TransferStatus]

(* Nothing is in transit, nobody has seen it so and nobody is about to     *)
(* write a row back.                                                       *)
NothingLeaves ==
    /\ \A t \in Transfer : status[t] # "IN_TRANSIT"
    /\ \A h \in Handler : req[h].stage # "writing"
    /\ \A h \in Handler : Busy(h) => /\ req[h].op \notin {"dispatch", "cancel"}
                                     /\ req[h].status # "IN_TRANSIT"

(* A machine that an approval took shows it.                               *)
TakenIsMarked ==
    \A t \in Transfer : status[t] = "APPROVED" =>
        \A m \in assigned[t] : transferStatus[m] # "NONE"

(* reserved covers what approvals hold and may exceed it: a rejection of a *)
(* transfer that was approved in between forgets the lines and releases    *)
(* nothing.                                                                *)
ReservedCovers ==
    \A r \in Row : HeldUnits(r) <= reserved[r] /\ reserved[r] <= quantity[r]

OwnMachines ==
    \A t, u \in Transfer :
        t # u /\ status[t] = "APPROVED" /\ status[u] = "APPROVED"
        => assigned[t] \cap assigned[u] = {}

TakeInv == LotInv /\ StockTypes /\ NothingLeaves /\ TakenIsMarked /\ ReservedCovers /\ OwnMachines

LEMMA InitTakeInv == RaceInit => TakeInv
<1>. SUFFICES ASSUME RaceInit PROVE TakeInv
  OBVIOUS
<1>1. LotInv
  BY InitLotInv
<1>2. StockTypes
  BY ConstantsAssumption DEF ConstantsAssumption, RaceInit, Init, StockTypes, ApprovedTypes,
     NoParts, TransferStatus
<1>3. NothingLeaves /\ TakenIsMarked /\ OwnMachines
  BY DEF RaceInit, Init, NothingLeaves, TakenIsMarked, OwnMachines, Busy, Idle
<1>4. Init
  BY DEF RaceInit
<1>5. \A r \in Row : reserved[r] = HeldUnits(r) + ticketed[r]
  BY <1>4, InitIInv DEF IInv, ReservedMatchesApprovals
<1>6. ReservedCovers
  <2>. SUFFICES ASSUME NEW r \in Row PROVE HeldUnits(r) <= reserved[r] /\ reserved[r] <= quantity[r]
    BY DEF ReservedCovers
  <2>1. reserved[r] = 0 /\ ticketed[r] = 0
    BY <1>4 DEF Init, NoParts
  <2>2. HeldUnits(r) \in Nat /\ quantity[r] \in Nat
    BY <1>2, HeldUnitsType DEF StockTypes
  <2>. QED
    BY <1>5, <2>1, <2>2
<1>. QED
  BY <1>1, <1>2, <1>3, <1>6 DEF TakeInv

(* The handlers: what one of them learns, and what it may not be.          *)
LEMMA NothingLeavesKept ==
    ASSUME NothingLeaves, RowTypes, NEW h \in Handler,
           \A t \in Transfer : status'[t] # "IN_TRANSIT",
           \/ req' = [req EXCEPT ![h] = Idle]
           \/ /\ req'[h].op \notin {"dispatch", "cancel"} /\ req'[h].status # "IN_TRANSIT"
              /\ req'[h].stage # "writing"
              /\ \A g \in Handler \ {h} : req'[g] = req[g]
    PROVE  NothingLeaves'
BY DEF NothingLeaves, RowTypes, Busy, Idle

(* A step that takes nothing: its transfer, if any, ends unapproved.       *)
LEMMA NothingTaken ==
    ASSUME StockTypes, TakenIsMarked, ReservedCovers, OwnMachines,
           StockTypes', NEW t \in Transfer,
           UNCHANGED <<quantity, reserved, transferStatus>>,
           \/ status'[t] # "APPROVED"
           \/ status'[t] = status[t] /\ assigned'[t] = assigned[t] /\ approved'[t] = approved[t]
           \/ status'[t] = status[t] /\ assigned'[t] = {} /\ approved'[t] = NoParts,
           \A u \in Transfer \ {t} : /\ status'[u] = status[u] /\ assigned'[u] = assigned[u]
                                     /\ approved'[u] = approved[u]
    PROVE  TakenIsMarked' /\ ReservedCovers' /\ OwnMachines'
<1>1. TakenIsMarked'
  BY DEF TakenIsMarked
<1>2. OwnMachines'
  BY DEF OwnMachines
<1>3. ReservedCovers'
  <2>. SUFFICES ASSUME NEW r \in Row
                PROVE  HeldUnits(r)' <= reserved'[r] /\ reserved'[r] <= quantity'[r]
    BY DEF ReservedCovers
  <2>1. ApprovedTypes(approved) /\ ApprovedTypes(approved')
    BY DEF StockTypes
  <2>2. HeldUnits(r)' = HeldUnits(r) + (HeldBy(t, status', approved', r)
                                        - HeldBy(t, status, approved, r))
    BY <2>1, HeldUnitsChange
  <2>3. HeldUnits(r) \in Nat
    BY <2>1, HeldUnitsType
  <2>4. HeldBy(t, status', approved', r) \in Nat /\ HeldBy(t, status, approved, r) \in Nat
    BY <2>1, HeldByType
  <2>5. HeldBy(t, status', approved', r) <= HeldBy(t, status, approved, r)
    <3>1. CASE status'[t] # "APPROVED"
      <4>1. HeldBy(t, status', approved', r) = 0
        BY <3>1 DEF HeldBy
      <4>. QED
        BY <2>4, <4>1
    <3>2. CASE status'[t] = status[t] /\ approved'[t] = approved[t]
      <4>1. HeldBy(t, status', approved', r) = HeldBy(t, status, approved, r)
        BY <3>2 DEF HeldBy
      <4>. QED
        BY <2>4, <4>1
    <3>3. CASE approved'[t] = NoParts
      <4>1. HeldBy(t, status', approved', r) = 0
        BY <3>3 DEF HeldBy, NoParts
      <4>. QED
        BY <2>4, <4>1
    <3>. QED
      BY <3>1, <3>2, <3>3
  <2>6. HeldUnits(r) <= reserved[r] /\ reserved[r] <= quantity[r]
        /\ reserved[r] \in Nat /\ quantity[r] \in Nat
    BY DEF ReservedCovers, StockTypes
  <2>. QED
    BY <2>2, <2>3, <2>4, <2>5, <2>6
<1>. QED
  BY <1>1, <1>2, <1>3

(* An approval: the locks make what it checks what it changes.             *)
LEMMA ApprovalTakes ==
    ASSUME TakeInv, LotInv', NEW h \in Handler, NEW S \in SUBSET Machine,
           NEW q \in [Row -> 0..MaxQty], CommitApprove(h, S, q)
    PROVE  TakeInv'
<1>. DEFINE t == req[h].t
<1>. USE DEF TakeInv
<1>1. Busy(h) /\ t \in Transfer /\ req[h].op = "approve"
  BY ReadyIsBusy DEF CommitApprove
<1>2. Seen(h) = Rows
  BY <1>1 DEF Seen, LockingOps
<1>3. /\ status' = [status EXCEPT ![t] = "APPROVED"]
      /\ assigned' = [assigned EXCEPT ![t] = S]
      /\ approved' = [approved EXCEPT ![t] = q]
      /\ req' = [req EXCEPT ![h] = Idle]
      /\ quantity' = [x \in Row |-> IF x \in Lines(q) THEN quantity[x] ELSE quantity[x]]
      /\ reserved' = [x \in Row |-> IF x \in Lines(q)
                                    THEN [r \in Row |-> reserved[r] + q[r]][x] ELSE reserved[x]]
      /\ transferStatus' = [m \in Machine |-> IF m \in S THEN "COMMITTED" ELSE transferStatus[m]]
      /\ \A m \in S : transferStatus[m] = "NONE"
      /\ \A r \in Lines(q) : q[r] <= quantity[r] - reserved[r]
      /\ lot[t] = "NONE"
  BY <1>2 DEF CommitApprove, SaveTransfer, SaveParts, SaveMachines, Done, Rows
<1>. HIDE DEF t
<1>4. \A r \in Row : q[r] \in Nat
  BY ConstantsAssumption DEF ConstantsAssumption
<1>5. \A r \in Row : quantity'[r] = quantity[r] /\ reserved'[r] = reserved[r] + q[r]
  BY <1>3, <1>4 DEF Lines, StockTypes
<1>6. StockTypes'
  <2>1. assigned' \in [Transfer -> SUBSET Machine]
    BY <1>3 DEF StockTypes
  <2>2. ApprovedTypes(approved')
    BY <1>3 DEF StockTypes, ApprovedTypes
  <2>3. quantity' \in [Row -> Nat] /\ reserved' \in [Row -> Nat]
    BY <1>3, <1>4 DEF StockTypes
  <2>4. transferStatus' \in [Machine -> TransferStatus]
    BY <1>3 DEF StockTypes, TransferStatus
  <2>. QED
    BY <2>1, <2>2, <2>3, <2>4 DEF StockTypes
<1>7. NothingLeaves'
  BY <1>3, NothingLeavesKept DEF NothingLeaves, LotInv, RowTypes
<1>8. /\ status[t] # "APPROVED" /\ status'[t] = "APPROVED"
      /\ assigned'[t] = S /\ approved'[t] = q
      /\ \A u \in Transfer \ {t} : /\ status'[u] = status[u] /\ assigned'[u] = assigned[u]
                                   /\ approved'[u] = approved[u]
  <2>1. status[t] # "APPROVED"
    BY <1>1, <1>3 DEF LotInv, ApprovedHasLot
  <2>2. status'[t] = "APPROVED" /\ \A u \in Transfer \ {t} : status'[u] = status[u]
    BY <1>1, <1>3 DEF LotInv, RowTypes
  <2>3. assigned'[t] = S /\ \A u \in Transfer \ {t} : assigned'[u] = assigned[u]
    BY <1>1, <1>3 DEF StockTypes
  <2>4. approved'[t] = q /\ \A u \in Transfer \ {t} : approved'[u] = approved[u]
    BY <1>1, <1>3 DEF StockTypes, ApprovedTypes
  <2>. QED
    BY <2>1, <2>2, <2>3, <2>4
<1>9. TakenIsMarked'
  BY <1>3, <1>8 DEF TakenIsMarked, StockTypes
<1>10. OwnMachines'
  <2>1. \A u \in Transfer : status[u] = "APPROVED" => assigned[u] \cap S = {}
    BY <1>3 DEF TakenIsMarked
  <2>. QED
    BY <1>8, <2>1 DEF OwnMachines
<1>11. ReservedCovers'
  <2>. SUFFICES ASSUME NEW r \in Row
                PROVE  HeldUnits(r)' <= reserved'[r] /\ reserved'[r] <= quantity'[r]
    BY DEF ReservedCovers
  <2>1. ApprovedTypes(approved) /\ ApprovedTypes(approved')
    BY <1>6 DEF StockTypes
  <2>2. HeldUnits(r)' = HeldUnits(r) + q[r]
    BY <1>1, <1>8, <2>1, HeldUnitsTaken
  <2>3. HeldUnits(r) \in Nat
    BY <2>1, HeldUnitsType
  <2>4. HeldUnits(r) <= reserved[r] /\ reserved[r] <= quantity[r]
        /\ reserved[r] \in Nat /\ quantity[r] \in Nat
    BY DEF ReservedCovers, StockTypes
  <2>5. q[r] > 0 => q[r] <= quantity[r] - reserved[r]
    BY <1>3 DEF Lines
  <2>. QED
    BY <1>4, <1>5, <2>2, <2>3, <2>4, <2>5
<1>. QED
  BY <1>6, <1>7, <1>9, <1>10, <1>11

(* The first commit of a rejection takes the lines from the transfer.      *)
LEMMA RejectItemsCommit ==
    ASSUME TakeInv, LotInv', NEW h \in Handler, CommitRejectItems(h)
    PROVE  TakeInv'
<1>. DEFINE t == req[h].t
<1>. USE DEF TakeInv
<1>1. Busy(h) /\ t \in Transfer
  BY ReadyIsBusy DEF CommitRejectItems
<1>2. /\ assigned' = [assigned EXCEPT ![t] = {}] /\ approved' = [approved EXCEPT ![t] = NoParts]
      /\ UNCHANGED <<status, quantity, reserved, transferStatus>>
      /\ req' = [req EXCEPT ![h].stage = "items"]
  BY DEF CommitRejectItems
<1>3. /\ \A g \in Handler \ {h} : req'[g] = req[g]
      /\ req'[h] = [req[h] EXCEPT !.stage = "items"]
  BY <1>2 DEF LotInv, RowTypes
<1>4. req'[h].op = req[h].op /\ req'[h].status = req[h].status /\ req'[h].stage = "items"
  BY <1>1, <1>3
<1>. HIDE DEF t
<1>5. NoParts \in [Row -> 0..MaxQty]
  BY ConstantsAssumption DEF ConstantsAssumption, NoParts
<1>6. StockTypes'
  <2>1. assigned' \in [Transfer -> SUBSET Machine]
    BY <1>2 DEF StockTypes
  <2>2. ApprovedTypes(approved')
    BY <1>2, <1>5 DEF StockTypes, ApprovedTypes
  <2>. QED
    BY <1>2, <2>1, <2>2 DEF StockTypes
<1>7. NothingLeaves'
  BY <1>1, <1>2, <1>3, <1>4, NothingLeavesKept DEF NothingLeaves, LotInv
<1>8. /\ assigned'[t] = {} /\ approved'[t] = NoParts /\ status'[t] = status[t]
      /\ \A u \in Transfer \ {t} : /\ status'[u] = status[u] /\ assigned'[u] = assigned[u]
                                   /\ approved'[u] = approved[u]
  BY <1>1, <1>2 DEF StockTypes, ApprovedTypes
<1>9. TakenIsMarked' /\ ReservedCovers' /\ OwnMachines'
  BY <1>1, <1>2, <1>6, <1>8, NothingTaken
<1>. QED
  BY <1>6, <1>7, <1>9

(* The commits that end a request unapproved.                              *)
LEMMA PaperCommit ==
    ASSUME TakeInv, LotInv', NEW h \in Handler, NEW fresh \in BOOLEAN,
           \/ CommitSubmit(h, fresh) \/ CommitApproveNothing(h, fresh) \/ CommitReject(h, fresh)
    PROVE  TakeInv'
<1>. DEFINE t == req[h].t
<1>. USE DEF TakeInv
<1>1. t \in Transfer
  BY ReadyIsBusy DEF CommitSubmit, CommitApproveNothing, CommitReject, LotInv, HandlerTypes, Busy
<1>2. PICK s \in {"SENT", "REJECTED"} : status' = [status EXCEPT ![t] = s]
  BY DEF CommitSubmit, CommitApproveNothing, CommitReject, SaveTransfer
<1>3. /\ UNCHANGED <<quantity, reserved, transferStatus>>
      /\ req' = [req EXCEPT ![h] = Idle]
      /\ \/ assigned' = assigned /\ approved' = approved
         \/ /\ assigned' = [assigned EXCEPT ![t] = {}]
            /\ approved' = [approved EXCEPT ![t] = NoParts]
  BY DEF CommitSubmit, CommitApproveNothing, CommitReject, Done
<1>. HIDE DEF t
<1>4. NoParts \in [Row -> 0..MaxQty]
  BY ConstantsAssumption DEF ConstantsAssumption, NoParts
<1>5. StockTypes'
  <2>1. assigned' \in [Transfer -> SUBSET Machine]
    BY <1>3 DEF StockTypes
  <2>2. ApprovedTypes(approved')
    BY <1>3, <1>4 DEF StockTypes, ApprovedTypes
  <2>. QED
    BY <1>3, <2>1, <2>2 DEF StockTypes
<1>6. NothingLeaves'
  BY <1>2, <1>3, NothingLeavesKept DEF NothingLeaves, LotInv, RowTypes
<1>7. /\ status'[t] # "APPROVED"
      /\ \A u \in Transfer \ {t} : /\ status'[u] = status[u] /\ assigned'[u] = assigned[u]
                                   /\ approved'[u] = approved[u]
  BY <1>1, <1>2, <1>3 DEF LotInv, RowTypes, StockTypes, ApprovedTypes
<1>8. TakenIsMarked' /\ ReservedCovers' /\ OwnMachines'
  BY <1>1, <1>3, <1>5, <1>7, NothingTaken
<1>. QED
  BY <1>5, <1>6, <1>8

(* A step that leaves transfers and stock alone.                           *)
LEMMA NothingWritten ==
    ASSUME TakeInv, LotInv', NothingLeaves',
           UNCHANGED <<status, assigned, approved, quantity, reserved, transferStatus>>
    PROVE  TakeInv'
<1>. USE DEF TakeInv
<1>1. StockTypes' /\ TakenIsMarked' /\ OwnMachines'
  BY DEF StockTypes, TakenIsMarked, OwnMachines, ApprovedTypes
<1>2. \A r \in Row : HeldUnits(r)' = HeldUnits(r)
  BY HeldUnitsKept
<1>3. ReservedCovers'
  BY <1>2 DEF ReservedCovers
<1>. QED
  BY <1>1, <1>3

LEMMA NextTakeInv ==
    ASSUME TakeInv, [RaceNext]_raceVars, Op \cap WritersBack = {}
    PROVE  TakeInv'
<1>1. LotInv'
  BY NextLotInv DEF TakeInv
<1>2. CASE UNCHANGED raceVars
  <2>1. NothingLeaves'
    BY <1>2 DEF TakeInv, NothingLeaves, Busy
  <2>. QED
    BY <1>1, <1>2, <2>1, NothingWritten
<1>3. ASSUME NEW t \in Transfer, CreateDraft(t), UNCHANGED <<linked, req>> PROVE TakeInv'
  <2>. USE DEF TakeInv
  <2>1. /\ status' = [status EXCEPT ![t] = "DRAFT"]
        /\ UNCHANGED <<assigned, approved, quantity, reserved, transferStatus, req>>
    BY <1>3 DEF CreateDraft
  <2>2. StockTypes'
    BY <2>1 DEF StockTypes, ApprovedTypes
  <2>3. NothingLeaves'
    BY <2>1 DEF NothingLeaves, LotInv, RowTypes, Busy
  <2>4. /\ status'[t] # "APPROVED"
        /\ \A u \in Transfer \ {t} : /\ status'[u] = status[u] /\ assigned'[u] = assigned[u]
                                     /\ approved'[u] = approved[u]
    BY <2>1 DEF LotInv, RowTypes
  <2>5. TakenIsMarked' /\ ReservedCovers' /\ OwnMachines'
    BY <2>1, <2>2, <2>4, NothingTaken
  <2>. QED
    BY <1>1, <2>2, <2>3, <2>5
<1>4. ASSUME NEW h \in Handler, NEW op \in Op, NEW t \in Transfer, Load(h, op, t) PROVE TakeInv'
  <2>1. /\ req'[h].op = op /\ req'[h].status = status[t] /\ req'[h].stage = "loaded"
        /\ \A g \in Handler \ {h} : req'[g] = req[g]
        /\ UNCHANGED <<status, assigned, approved, quantity, reserved, transferStatus>>
    BY <1>4 DEF Load, TakeInv, LotInv, RowTypes
  <2>2. op \notin {"dispatch", "cancel"}
    BY DEF WritersBack
  <2>3. NothingLeaves'
    BY <2>1, <2>2, NothingLeavesKept DEF TakeInv, LotInv, NothingLeaves
  <2>. QED
    BY <1>1, <2>1, <2>3, NothingWritten
<1>5. ASSUME NEW h \in Handler, ReadRows(h) PROVE TakeInv'
  <2>1. Busy(h) /\ req[h].t \in Transfer
    BY <1>5 DEF ReadRows, TakeInv, LotInv, HandlerTypes, Busy
  <2>2. /\ req'[h].op = req[h].op /\ req'[h].stage = "read"
        /\ req'[h].status = req[h].status \/ req'[h].status = status[req[h].t]
        /\ \A g \in Handler \ {h} : req'[g] = req[g]
        /\ UNCHANGED <<status, assigned, approved, quantity, reserved, transferStatus>>
    BY <1>5 DEF ReadRows, TakeInv, LotInv, RowTypes
  <2>3. NothingLeaves'
    BY <2>1, <2>2, NothingLeavesKept DEF TakeInv, LotInv, NothingLeaves
  <2>. QED
    BY <1>1, <2>2, <2>3, NothingWritten
<1>6. ASSUME NEW h \in Handler, Fail(h) \/ CommitCount(h) PROVE TakeInv'
  <2>1. /\ req' = [req EXCEPT ![h] = Idle]
        /\ UNCHANGED <<status, assigned, approved, quantity, reserved, transferStatus>>
    BY <1>6 DEF Fail, CommitCount, Done
  <2>2. NothingLeaves'
    BY <2>1, NothingLeavesKept DEF TakeInv, LotInv, NothingLeaves
  <2>. QED
    BY <1>1, <2>1, <2>2, NothingWritten
<1>7. ASSUME NEW h \in Handler, NEW S \in SUBSET Machine, NEW q \in [Row -> 0..MaxQty],
             CommitApprove(h, S, q)
      PROVE  TakeInv'
  BY <1>1, <1>7, ApprovalTakes
<1>8. ASSUME NEW h \in Handler, NEW fresh \in BOOLEAN,
             \/ CommitSubmit(h, fresh) \/ CommitApproveNothing(h, fresh) \/ CommitReject(h, fresh)
      PROVE  TakeInv'
  BY <1>1, <1>8, PaperCommit
<1>9. ASSUME NEW h \in Handler, NEW fresh \in BOOLEAN,
             \/ CommitDispatchIntra(h, fresh) \/ CommitDispatchInter(h, fresh)
             \/ CommitCancel(h, fresh)
      PROVE  TakeInv'
  <2>1. req[h].op \in {"dispatch", "cancel"} /\ Busy(h)
    BY <1>9, ReadyIsBusy
       DEF CommitDispatchIntra, CommitDispatchInter, CommitCancel, TakeInv
  <2>. QED
    BY <2>1 DEF TakeInv, NothingLeaves
<1>10. ASSUME NEW h \in Handler, NEW fresh \in BOOLEAN, CommitConfirm(h, fresh) PROVE TakeInv'
  <2>1. Busy(h)
    BY <1>10, ReadyIsBusy DEF CommitConfirm, TakeInv
  <2>2. req[h].status # "IN_TRANSIT"
    BY <2>1 DEF TakeInv, NothingLeaves
  <2>3. /\ req' = [req EXCEPT ![h] = Idle]
        /\ UNCHANGED <<status, assigned, approved, quantity, reserved, transferStatus>>
    BY <1>10, <2>2 DEF CommitConfirm, Done
  <2>4. NothingLeaves'
    BY <2>3, NothingLeavesKept DEF TakeInv, LotInv, NothingLeaves
  <2>. QED
    BY <1>1, <2>3, <2>4, NothingWritten
<1>11. ASSUME NEW h \in Handler, CommitRejectItems(h) PROVE TakeInv'
  BY <1>1, <1>11, RejectItemsCommit
<1>12. ASSUME NEW h \in Handler,
              \/ \E m \in Machine : ReadMachine(h, m)
              \/ \E r \in SharedRow : ReadPart(h, r)
              \/ \E a \in BOOLEAN, fresh \in BOOLEAN : SaveStatus(h, a, fresh)
              \/ \E c \in Change, fresh \in BOOLEAN : SavePart(h, c, fresh)
       PROVE  FALSE
  BY <1>12 DEF ReadMachine, ReadPart, SaveStatus, SavePart, WritersBack, TakeInv, NothingLeaves
<1>13. ASSUME NEW h \in Handler, NEW e \in Edit, NEW a \in BOOLEAN, EditRow(h, e[1], e[2], a)
       PROVE  TakeInv'
  <2>1. UNCHANGED <<req, status, assigned, approved, quantity, reserved, transferStatus>>
    BY <1>13 DEF EditRow, EditProduct
  <2>2. NothingLeaves'
    BY <2>1 DEF TakeInv, NothingLeaves, Busy
  <2>. QED
    BY <1>1, <2>1, <2>2, NothingWritten
<1>. QED
  BY <1>2, <1>3, <1>4, <1>5, <1>6, <1>7, <1>8, <1>9, <1>10, <1>11, <1>12, <1>13 DEF RaceNext

(* The row locks of approve hold between approvals, whatever the other     *)
(* handlers read before and write after: no two approved transfers share a *)
(* machine and together they hold no more units of a row than it has.      *)
(* It takes that nobody writes back rows read without a lock meanwhile: a  *)
(* dispatch or cancel, a status event, a sale, return or ticket may put    *)
(* back the transfer_status or the counters an approval has just written.  *)
THEOREM ApprovalsAreExclusive ==
    ASSUME Op \cap WritersBack = {}
    PROVE  RaceSpec => []ApprovalsExclusive
<1>1. TakeInv => ApprovalsExclusive
  <2>. SUFFICES ASSUME TakeInv PROVE ApprovalsExclusive
    OBVIOUS
  <2>1. \A r \in Row : HeldUnits(r) \in Nat /\ reserved[r] \in Nat /\ quantity[r] \in Nat
    BY HeldUnitsType DEF TakeInv, StockTypes
  <2>2. \A r \in Row : HeldUnits(r) <= quantity[r]
    BY <2>1 DEF TakeInv, ReservedCovers
  <2>. QED
    BY <2>2 DEF TakeInv, OwnMachines, ApprovalsExclusive
<1>2. TakeInv /\ [RaceNext]_raceVars => TakeInv'
  BY NextTakeInv
<1>. QED
  BY <1>1, <1>2, InitTakeInv, PTL DEF RaceSpec

----------------------------------------------------------------------------
(* One handler at a time: the refinement of StockTransfer.                 *)

OneHandler == \A g, h \in Handler : g = h

(* A transfer with a lot is linked to it.                                  *)
LotsLinked ==
    /\ linked \in [Transfer -> BOOLEAN]
    /\ \A t \in Transfer : lot[t] # "NONE" => linked[t]

(* Before it is approved or dispatched a transfer has been given nothing.  *)
NothingGiven ==
    \A t \in Transfer : status[t] \in {"NEW", "DRAFT", "SENT", "REJECTED"} =>
        assigned[t] = {} /\ approved[t] = NoParts

(* What a handler has read is still so, and still admits its operation.    *)
ReadIsCurrent ==
    \A h \in Handler : Busy(h) =>
        /\ req[h].op \in OpType
        /\ req[h].t \in Transfer
        /\ Admits(req[h].op, req[h].t)
        /\ req[h].status = status[req[h].t]
        /\ req[h].linked = linked[req[h].t]
        /\ req[h].assigned = assigned[req[h].t]
        /\ req[h].approved = approved[req[h].t]
        /\ req[h].stage = "read" => req[h].rows = Rows
        /\ req[h].stage = "items" => req[h].op = "reject"

(* So are the rows another writer is about to save.                        *)
WrittenIsCurrent ==
    \A h \in Handler : req[h].stage = "writing" =>
        /\ req[h].rows = Rows
        /\ req[h].op = "status" => req[h].m \in Machine
        /\ req[h].op = "stock" => req[h].r \in SharedRow

ReqInv == ReadIsCurrent /\ WrittenIsCurrent /\ req = [h \in Handler |-> req[h]]

OneInv == IInv /\ LotsLinked /\ NothingGiven /\ ReqInv

LEMMA InitOneInv == RaceInit => OneInv
<1>. SUFFICES ASSUME RaceInit PROVE OneInv
  OBVIOUS
<1>1. IInv
  BY InitIInv DEF RaceInit
<1>2. LotsLinked /\ NothingGiven /\ ReqInv
  BY DEF RaceInit, Init, LotsLinked, NothingGiven, ReqInv, ReadIsCurrent, WrittenIsCurrent, Busy, Idle
<1>. QED
  BY <1>1, <1>2 DEF OneInv

(* What a handler about to commit knows.                                   *)
LEMMA ReadyKnows ==
    ASSUME OneInv, NEW h \in Handler, NEW op, Ready(h, op)
    PROVE  /\ Busy(h) /\ req[h].op = op /\ req[h].t \in Transfer
           /\ Admits(op, req[h].t)
           /\ req[h].status = status[req[h].t]
           /\ req[h].linked = linked[req[h].t]
           /\ req[h].assigned = assigned[req[h].t]
           /\ req[h].approved = approved[req[h].t]
           /\ ReadsRows(h) \/ op = "approve" => Seen(h) = Rows
<1>1. req[h].stage \in {"loaded", "read"} /\ req[h].op = op /\ Busy(h)
  BY DEF Ready, Busy
<1>2. ReadsRows(h) => req[h].stage = "read"
  BY <1>1 DEF Ready
<1>3. ReadsRows(h) \/ op = "approve" => Seen(h) = Rows
  BY <1>1, <1>2 DEF Seen, OneInv, ReqInv, ReadIsCurrent, ReadsRows, LockingOps
<1>. QED
  BY <1>1, <1>3 DEF OneInv, ReqInv, ReadIsCurrent

(* The columns of the machines after a save that assigns transfer_status.  *)
LEMMA MachinesSaved ==
    ASSUME OneInv, NEW h \in Handler, NEW S, NEW ts, NEW fresh \in BOOLEAN,
           Seen(h) = Rows, SaveMachines(h, S, ts, fresh)
    PROVE  /\ transferStatus' = [m \in Machine |-> IF m \in S THEN ts ELSE transferStatus[m]]
           /\ UNCHANGED <<warehouse, available>>
<1>1. \A m \in Machine : /\ Seen(h).warehouse[m] = warehouse[m]
                          /\ Seen(h).available[m] = available[m]
  BY DEF Rows
<1>2. warehouse' = [m \in Machine |-> warehouse[m]]
  BY <1>1 DEF SaveMachines
<1>3. available' = [m \in Machine |-> available[m]]
  <2>1. \A m \in Machine : (IF m \in S /\ ~ fresh THEN Seen(h).available[m] ELSE available[m])
                             = available[m]
    BY <1>1
  <2>2. available' = [m \in Machine |-> IF m \in S /\ ~ fresh THEN Seen(h).available[m]
                                                              ELSE available[m]]
    BY DEF SaveMachines
  <2>. QED
    BY <2>1, <2>2, Zenon
<1>4. warehouse = [m \in Machine |-> warehouse[m]] /\ available = [m \in Machine |-> available[m]]
  BY DEF OneInv, IInv, TypeOK
<1>. QED
  BY <1>2, <1>3, <1>4 DEF SaveMachines

(* Lines that are saved as they were read.                                 *)
LEMMA ItemsSaved ==
    ASSUME OneInv, NEW h \in Handler, NEW fresh \in BOOLEAN, req[h].t \in Transfer,
           req[h].assigned = assigned[req[h].t], req[h].approved = approved[req[h].t],
           SaveItems(h, fresh)
    PROVE  UNCHANGED <<assigned, approved>>
BY DEF SaveItems, OneInv, IInv, TypeOK

(* The commits are the operations.                                         *)

LEMMA SubmitRefines ==
    ASSUME OneInv, NEW h \in Handler, NEW fresh \in BOOLEAN, CommitSubmit(h, fresh)
    PROVE  Submit(req[h].t)
<1>1. Admits("submit", req[h].t)
  BY ReadyKnows DEF CommitSubmit
<1>. QED
  BY <1>1 DEF CommitSubmit, Submit, SaveTransfer, Admits

(* Marking the lines of a request that was given nothing.                  *)
LEMMA NothingToMark ==
    ASSUME OneInv, NEW t \in Transfer, status[t] = "SENT",
           assigned' = [assigned EXCEPT ![t] = {}], approved' = [approved EXCEPT ![t] = NoParts]
    PROVE  UNCHANGED <<assigned, approved>>
<1>1. assigned[t] = {} /\ approved[t] = NoParts
  BY DEF OneInv, NothingGiven
<1>2. assigned' = assigned
  BY <1>1 DEF OneInv, IInv, TypeOK
<1>3. approved' = approved
  BY <1>1 DEF OneInv, IInv, TypeOK
<1>. QED
  BY <1>2, <1>3

LEMMA ApproveNothingRefines ==
    ASSUME OneInv, NEW h \in Handler, NEW fresh \in BOOLEAN, CommitApproveNothing(h, fresh)
    PROVE  Reject(req[h].t)
<1>. DEFINE t == req[h].t
<1>1. t \in Transfer /\ status[t] = "SENT"
  BY ReadyKnows DEF CommitApproveNothing, Admits
<1>2. /\ assigned' = [assigned EXCEPT ![t] = {}]
      /\ approved' = [approved EXCEPT ![t] = NoParts]
      /\ status' = [status EXCEPT ![t] = "REJECTED"]
      /\ UNCHANGED <<lot, body, partVars, machineVars>>
  BY DEF CommitApproveNothing, SaveTransfer
<1>3. UNCHANGED <<assigned, approved>>
  BY <1>1, <1>2, NothingToMark
<1>. QED
  BY <1>1, <1>2, <1>3 DEF Reject

(* The first commit of a rejection changes nothing one can see.            *)
LEMMA RejectItemsStutters ==
    ASSUME OneInv, NEW h \in Handler, CommitRejectItems(h)
    PROVE  UNCHANGED <<vars, linked>> /\ Busy(h) /\ req[h].op = "reject"
<1>. DEFINE t == req[h].t
<1>1. t \in Transfer /\ status[t] = "SENT" /\ Busy(h) /\ req[h].op = "reject"
  BY ReadyKnows DEF CommitRejectItems, Admits
<1>2. /\ assigned' = [assigned EXCEPT ![t] = {}]
      /\ approved' = [approved EXCEPT ![t] = NoParts]
      /\ UNCHANGED <<status, linked, lot, body, partVars, machineVars>>
  BY DEF CommitRejectItems
<1>3. UNCHANGED <<assigned, approved>>
  BY <1>1, <1>2, NothingToMark
<1>. QED
  BY <1>1, <1>2, <1>3

LEMMA RejectKnows ==
    ASSUME OneInv, NEW h \in Handler, req[h].stage = "items"
    PROVE  req[h].t \in Transfer /\ status[req[h].t] = "SENT" /\ req[h].linked = linked[req[h].t]
<1>1. Busy(h)
  BY DEF Busy
<1>2. /\ Admits(req[h].op, req[h].t) /\ req[h].op = "reject"
      /\ req[h].t \in Transfer /\ req[h].linked = linked[req[h].t]
  BY <1>1 DEF OneInv, ReqInv, ReadIsCurrent
<1>. QED
  BY <1>2 DEF Admits

LEMMA RejectRefines ==
    ASSUME OneInv, NEW h \in Handler, NEW fresh \in BOOLEAN, CommitReject(h, fresh)
    PROVE  Reject(req[h].t)
BY RejectKnows DEF CommitReject, SaveTransfer, Reject

LEMMA ApproveRefines ==
    ASSUME OneInv, NEW h \in Handler, NEW S \in SUBSET Machine, NEW q \in [Row -> 0..MaxQty],
           CommitApprove(h, S, q)
    PROVE  Approve(req[h].t, S, q)
<1>. DEFINE t == req[h].t
<1>1. /\ t \in Transfer /\ Admits("approve", t) /\ Seen(h) = Rows
  BY ReadyKnows DEF CommitApprove
<1>2. \A r \in Row : q[r] \in Nat
  BY ConstantsAssumption DEF ConstantsAssumption
<1>3. quantity \in [Row -> Int] /\ reserved \in [Row -> Nat]
  BY DEF OneInv, IInv, TypeOK
<1>4. quantity' = quantity
  <2>1. quantity' = [x \in Row |-> quantity[x]]
    BY <1>1 DEF CommitApprove, SaveParts, Rows
  <2>. QED
    BY <1>3, <2>1
<1>5. reserved' = [r \in Row |-> reserved[r] + q[r]]
  <2>1. reserved' = [x \in Row |-> IF x \in Lines(q) THEN reserved[x] + q[x] ELSE reserved[x]]
    BY <1>1 DEF CommitApprove, SaveParts, Rows
  <2>2. \A x \in Row : x \notin Lines(q) => reserved[x] = reserved[x] + q[x]
    BY <1>2, <1>3 DEF Lines
  <2>. QED
    BY <2>1, <2>2
<1>6. /\ transferStatus' = [m \in Machine |-> IF m \in S THEN "COMMITTED" ELSE transferStatus[m]]
      /\ UNCHANGED <<warehouse, available>>
  BY <1>1, MachinesSaved DEF CommitApprove
<1>7. ApprovableMachines(t, S)
  BY <1>1 DEF CommitApprove, ApprovableMachines, FreeMachine, InBranch, Rows
<1>8. ApprovableParts(t, q)
  BY <1>1 DEF CommitApprove, ApprovableParts, Lines, Free, Rows
<1>9. /\ assigned' = [assigned EXCEPT ![t] = S] /\ approved' = [approved EXCEPT ![t] = q]
      /\ lot' = [lot EXCEPT ![t] = "PENDING"] /\ status' = [status EXCEPT ![t] = "APPROVED"]
      /\ UNCHANGED <<body, ticketed, others>> /\ (S # {} \/ q # NoParts)
      /\ moved' = moved \ S
  BY DEF CommitApprove, SaveTransfer, SaveParts
<1>. QED
  BY <1>1, <1>4, <1>5, <1>6, <1>7, <1>8, <1>9 DEF Approve, Admits

LEMMA DispatchIntraRefines ==
    ASSUME OneInv, NEW h \in Handler, NEW fresh \in BOOLEAN, CommitDispatchIntra(h, fresh)
    PROVE  DispatchIntra(req[h].t)
<1>. DEFINE t == req[h].t
            b == body[t]
<1>1. t \in Transfer /\ Admits("dispatch", t) /\ Seen(h) = Rows /\ b.type = "INTRA"
  BY ReadyKnows DEF CommitDispatchIntra, ReadsRows, LockingOps
<1>2. \A r \in Row : b.parts[r] \in Nat
  BY <1>1, ConstantsAssumption DEF ConstantsAssumption, OneInv, IInv, TypeOK, BodyType
<1>3. quantity \in [Row -> Int] /\ reserved \in [Row -> Nat]
  BY DEF OneInv, IInv, TypeOK
<1>4. quantity' = [r \in Row |-> quantity[r] - b.parts[r]]
  <2>1. quantity' = [x \in Row |-> IF x \in Lines(b.parts) THEN quantity[x] - b.parts[x]
                                                           ELSE quantity[x]]
    BY <1>1 DEF CommitDispatchIntra, SaveParts, Rows
  <2>2. \A x \in Row : x \notin Lines(b.parts) => quantity[x] = quantity[x] - b.parts[x]
    BY <1>2, <1>3 DEF Lines
  <2>. QED
    BY <2>1, <2>2
<1>5. reserved' = reserved
  <2>1. reserved' = [x \in Row |-> reserved[x]]
    BY <1>1 DEF CommitDispatchIntra, SaveParts, Rows
  <2>. QED
    BY <1>3, <2>1
<1>6. /\ transferStatus' = [m \in Machine |-> IF m \in b.machines THEN "IN_TRANSIT" ELSE transferStatus[m]]
      /\ UNCHANGED <<warehouse, available>>
  BY <1>1, MachinesSaved DEF CommitDispatchIntra
<1>7. /\ \A m \in b.machines : warehouse[m] = b.src /\ transferStatus[m] = "NONE"
      /\ \A r \in Row : b.parts[r] > 0 => b.parts[r] <= Free(r)
  BY <1>1 DEF CommitDispatchIntra, Lines, Free, Rows
<1>8. /\ approved' = [approved EXCEPT ![t] = b.parts]
      /\ lot' = [lot EXCEPT ![t] = "PENDING"] /\ status' = [status EXCEPT ![t] = "IN_TRANSIT"]
      /\ moved' = moved \ b.machines
      /\ UNCHANGED <<assigned, body, ticketed, others>>
  BY DEF CommitDispatchIntra, SaveTransfer, SaveParts
<1>. QED
  BY <1>1, <1>4, <1>5, <1>6, <1>7, <1>8 DEF DispatchIntra, Admits

LEMMA DispatchInterRefines ==
    ASSUME OneInv, NEW h \in Handler, NEW fresh \in BOOLEAN, CommitDispatchInter(h, fresh)
    PROVE  DispatchInter(req[h].t)
<1>. DEFINE t == req[h].t
            q == approved[t]
<1>1. /\ t \in Transfer /\ Admits("dispatch", t) /\ Seen(h) = Rows /\ body[t].type = "INTER"
      /\ req[h].approved = q /\ req[h].assigned = assigned[t]
  BY ReadyKnows DEF CommitDispatchInter, ReadsRows, LockingOps
<1>2. \A r \in Row : q[r] \in Nat
  BY <1>1, ConstantsAssumption DEF ConstantsAssumption, OneInv, IInv, TypeOK
<1>3. quantity \in [Row -> Int] /\ reserved \in [Row -> Nat]
  BY DEF OneInv, IInv, TypeOK
<1>4. quantity' = [r \in Row |-> quantity[r] - q[r]]
  <2>1. quantity' = [x \in Row |-> IF x \in Lines(q) THEN quantity[x] - q[x] ELSE quantity[x]]
    BY <1>1 DEF CommitDispatchInter, SaveParts, Rows
  <2>2. \A x \in Row : x \notin Lines(q) => quantity[x] = quantity[x] - q[x]
    BY <1>2, <1>3 DEF Lines
  <2>. QED
    BY <2>1, <2>2
<1>5. reserved' = [r \in Row |-> Monus(reserved[r], q[r])]
  <2>1. reserved' = [x \in Row |-> IF x \in Lines(q) THEN Monus(reserved[x], q[x]) ELSE reserved[x]]
    BY <1>1 DEF CommitDispatchInter, SaveParts, Rows
  <2>2. \A x \in Row : x \notin Lines(q) => reserved[x] = Monus(reserved[x], q[x])
    BY <1>2, <1>3 DEF Lines, Monus
  <2>. QED
    BY <2>1, <2>2
<1>6. /\ transferStatus' = [m \in Machine |-> IF m \in assigned[t] THEN "IN_TRANSIT" ELSE transferStatus[m]]
      /\ UNCHANGED <<warehouse, available>>
  BY <1>1, MachinesSaved DEF CommitDispatchInter
<1>7. /\ status' = [status EXCEPT ![t] = "IN_TRANSIT"]
      /\ UNCHANGED <<lot, body, moved, ticketed, others>>
  BY DEF CommitDispatchInter, SaveTransfer, SaveParts
<1>8. UNCHANGED <<assigned, approved>>
  BY <1>1, ItemsSaved DEF CommitDispatchInter
<1>. QED
  BY <1>1, <1>4, <1>5, <1>6, <1>7, <1>8 DEF DispatchInter, Admits

LEMMA CancelRefines ==
    ASSUME OneInv, NEW h \in Handler, NEW fresh \in BOOLEAN, CommitCancel(h, fresh)
    PROVE  CancelApproved(req[h].t) \/ CancelUnapproved(req[h].t)
<1>. DEFINE t == req[h].t
            q == approved[t]
<1>1. /\ t \in Transfer /\ Admits("cancel", t) /\ req[h].op = "cancel"
      /\ req[h].status = status[t] /\ req[h].linked = linked[t]
      /\ req[h].approved = q /\ req[h].assigned = assigned[t]
      /\ ReadsRows(h) => Seen(h) = Rows
  BY ReadyKnows DEF CommitCancel
<1>2. /\ status' = [status EXCEPT ![t] = "CANCELLED"]
      /\ UNCHANGED <<assigned, approved, body>>
  BY DEF CommitCancel, SaveTransfer
<1>3. CASE status[t] # "APPROVED"
  <2>1. UNCHANGED <<partVars, machineVars, lot>>
    BY <1>1, <1>3 DEF CommitCancel
  <2>. QED
    BY <1>1, <1>2, <1>3, <2>1 DEF CancelUnapproved, Admits
<1>4. CASE status[t] = "APPROVED"
  <2>1. Seen(h) = Rows
    BY <1>1, <1>4 DEF ReadsRows, LockingOps
  <2>2. \A r \in Row : q[r] \in Nat
    BY <1>1, ConstantsAssumption DEF ConstantsAssumption, OneInv, IInv, TypeOK
  <2>3. quantity \in [Row -> Int] /\ reserved \in [Row -> Nat]
    BY DEF OneInv, IInv, TypeOK
  <2>4. /\ SaveMachines(h, assigned[t], "NONE", fresh)
        /\ SaveParts(h, Lines(q), IF fresh THEN quantity ELSE Seen(h).quantity,
                     [r \in Row |-> Monus(Seen(h).reserved[r], q[r])])
        /\ lot' = [lot EXCEPT ![t] = IF linked[t] THEN "CANCELLED" ELSE @]
        /\ UNCHANGED <<moved, ticketed, others>>
    BY <1>1, <1>4 DEF CommitCancel, SaveParts
  <2>5. quantity' = quantity
    <3>1. Seen(h).quantity = quantity
      BY <2>1 DEF Rows
    <3>2. (IF fresh THEN quantity ELSE Seen(h).quantity) = quantity
      BY <3>1
    <3>3. quantity' = [x \in Row |-> quantity[x]]
      BY <2>4, <3>2 DEF SaveParts
    <3>. QED
      BY <2>3, <3>3
  <2>6. reserved' = [r \in Row |-> Monus(reserved[r], q[r])]
    <3>1. reserved' = [x \in Row |-> IF x \in Lines(q) THEN Monus(reserved[x], q[x]) ELSE reserved[x]]
      BY <2>1, <2>4 DEF SaveParts, Rows
    <3>2. \A x \in Row : x \notin Lines(q) => reserved[x] = Monus(reserved[x], q[x])
      BY <2>2, <2>3 DEF Lines, Monus
    <3>. QED
      BY <3>1, <3>2
  <2>7. /\ transferStatus' = [m \in Machine |-> IF m \in assigned[t] THEN "NONE" ELSE transferStatus[m]]
        /\ UNCHANGED <<warehouse, available>>
    BY <2>1, <2>4, MachinesSaved
  <2>8. linked[t]
    <3>1. lot[t] # "NONE"
      BY <1>1, <1>4 DEF OneInv, IInv, LotFollowsTransfer
    <3>. QED
      BY <1>1, <3>1 DEF OneInv, LotsLinked
  <2>9. lot' = [lot EXCEPT ![t] = "CANCELLED"]
    BY <2>4, <2>8
  <2>. QED
    BY <1>2, <1>4, <2>4, <2>5, <2>6, <2>7, <2>9 DEF CancelApproved
<1>. QED
  BY <1>3, <1>4

LEMMA CountRefines ==
    ASSUME OneInv, NEW h \in Handler, CommitCount(h)
    PROVE  UpdateReceiving(req[h].t)
<1>1. Admits("count", req[h].t)
  BY ReadyKnows DEF CommitCount
<1>. QED
  BY <1>1 DEF CommitCount, UpdateReceiving, Admits

LEMMA ConfirmRefines ==
    ASSUME OneInv, NEW h \in Handler, NEW fresh \in BOOLEAN, CommitConfirm(h, fresh)
    PROVE  ConfirmReceived(req[h].t)
<1>. DEFINE t == req[h].t
            S == IF body[t].type = "INTRA" THEN body[t].machines ELSE req[h].assigned
            landing == {r \in Row : Arrivals(h, r) > 0}
<1>1. /\ t \in Transfer /\ Admits("confirm", t) /\ Seen(h) = Rows
      /\ req[h].status = status[t] /\ req[h].linked = linked[t]
      /\ req[h].approved = approved[t] /\ req[h].assigned = assigned[t]
  BY ReadyKnows DEF CommitConfirm, ReadsRows, LockingOps
<1>2. lot[t] \in LotStatus \ {"RECEIVED"}
  BY <1>1 DEF Admits
<1>3. linked[t] /\ status[t] # "COMPLETED"
  BY <1>1, <1>2 DEF OneInv, LotsLinked, IInv, LotFollowsTransfer, LotStatus
<1>4. status[t] = "IN_TRANSIT"
  BY <1>1, <1>3 DEF CommitConfirm
<1>5. S = Carried(t)
  BY <1>1 DEF Carried
<1>6. \A r \in Row : Arrivals(h, r) = LandingUnits(t, r) /\ LandingUnits(t, r) \in Nat
  <2>1. \A r \in Row : Arrivals(h, r) = LandingUnits(t, r)
    BY <1>1 DEF Arrivals, LandingUnits
  <2>2. \A r \in Row : LandingUnits(t, r) \in Nat
    BY <1>1, LandingUnitsType DEF OneInv, IInv
  <2>. QED
    BY <2>1, <2>2
<1>7. quantity \in [Row -> Int] /\ reserved \in [Row -> Nat]
  BY DEF OneInv, IInv, TypeOK
<1>8. /\ lot' = [lot EXCEPT ![t] = "RECEIVED"]
      /\ transferStatus' = [m \in Machine |-> IF m \in S THEN "NONE" ELSE transferStatus[m]]
      /\ warehouse' = [m \in Machine |-> IF m \in S THEN body[t].dst ELSE warehouse[m]]
      /\ SaveParts(h, landing, [r \in Row |-> Seen(h).quantity[r] + Arrivals(h, r)],
                   IF fresh THEN reserved ELSE Seen(h).reserved)
      /\ available' = [m \in Machine |->
                         IF m \in S /\ ~ fresh THEN Seen(h).available[m] ELSE available[m]]
      /\ SaveItems(h, fresh)
      /\ status' = [status EXCEPT ![t] = "COMPLETED"]
      /\ UNCHANGED <<body, moved>>
  BY <1>1, <1>3, <1>4 DEF CommitConfirm, SaveTransfer
<1>9. quantity' = [r \in Row |-> quantity[r] + LandingUnits(t, r)]
  <2>1. quantity' = [x \in Row |-> IF x \in landing THEN quantity[x] + Arrivals(h, x) ELSE quantity[x]]
    BY <1>1, <1>8 DEF SaveParts, Rows
  <2>2. \A x \in Row : (IF x \in landing THEN quantity[x] + Arrivals(h, x) ELSE quantity[x])
                         = quantity[x] + LandingUnits(t, x)
    BY <1>6, <1>7
  <2>. HIDE DEF landing
  <2>. QED
    BY <2>1, <2>2
<1>10. reserved' = reserved
  <2>1. Seen(h).reserved = reserved
    BY <1>1 DEF Rows
  <2>2. (IF fresh THEN reserved ELSE Seen(h).reserved) = reserved
    BY <2>1
  <2>3. reserved' = [x \in Row |-> reserved[x]]
    BY <1>8, <2>2 DEF SaveParts
  <2>. QED
    BY <1>7, <2>3
<1>11. UNCHANGED <<ticketed, others>>
  BY <1>8 DEF SaveParts
<1>12. UNCHANGED <<assigned, approved>>
  BY <1>1, <1>8, ItemsSaved
<1>13. available' = available
  <2>. HIDE DEF S
  <2>1. \A m \in Machine : (IF m \in S /\ ~ fresh THEN Seen(h).available[m] ELSE available[m])
                             = available[m]
    BY <1>1 DEF Rows
  <2>2. available' = [m \in Machine |-> available[m]]
    BY <1>8, <2>1, Zenon
  <2>. QED
    BY <2>2 DEF OneInv, IInv, TypeOK
<1>. QED
  BY <1>2, <1>4, <1>5, <1>8, <1>9, <1>10, <1>11, <1>12, <1>13 DEF ConfirmReceived

(* The other writers, who have read the row they save.                     *)
LEMMA StatusRefines ==
    ASSUME OneInv, NEW h \in Handler, NEW a \in BOOLEAN, NEW fresh \in BOOLEAN,
           SaveStatus(h, a, fresh)
    PROVE  ProductStatusUpdate(req[h].m, a) /\ req[h].m \in Machine
<1>. DEFINE m == req[h].m
<1>1. req[h].rows = Rows /\ m \in Machine
  BY DEF SaveStatus, OneInv, ReqInv, WrittenIsCurrent
<1>2. req[h].rows.warehouse = warehouse /\ req[h].rows.transferStatus = transferStatus
  BY <1>1 DEF Rows
<1>3. /\ warehouse' = [warehouse EXCEPT ![m] = IF fresh THEN @ ELSE warehouse[m]]
      /\ transferStatus' = [transferStatus EXCEPT ![m] = IF fresh THEN @ ELSE transferStatus[m]]
      /\ available' = [available EXCEPT ![m] = a]
      /\ UNCHANGED <<transferVars, body, partVars, moved>>
  BY <1>2 DEF SaveStatus
<1>. HIDE DEF m
<1>4. warehouse' = warehouse
  BY <1>1, <1>3 DEF OneInv, IInv, TypeOK
<1>5. transferStatus' = transferStatus
  BY <1>1, <1>3 DEF OneInv, IInv, TypeOK
<1>6. ProductStatusUpdate(m, a)
  BY <1>3, <1>4, <1>5 DEF ProductStatusUpdate
<1>. QED
  BY <1>1, <1>6 DEF m

LEMMA PartRefines ==
    ASSUME OneInv, NEW h \in Handler, NEW c \in Change, NEW fresh \in BOOLEAN,
           SavePart(h, c, fresh)
    PROVE  OtherChange(req[h].r, c) /\ req[h].r \in SharedRow
<1>. DEFINE r == req[h].r
<1>1. req[h].rows = Rows /\ r \in SharedRow
  BY DEF SavePart, OneInv, ReqInv, WrittenIsCurrent
<1>2. req[h].rows.quantity = quantity /\ req[h].rows.reserved = reserved
  BY <1>1 DEF Rows
<1>3. /\ c.held > 0 => c.held <= quantity[r]
      /\ ticketed[r] + c.held \in 0..MaxOther
      /\ others[r] + c.shelf \in (-MaxOther)..MaxOther
      /\ quantity' = [quantity EXCEPT ![r] = IF c.shelf = 0 /\ fresh THEN @ ELSE quantity[r] + c.shelf]
      /\ reserved' = [reserved EXCEPT ![r] = IF c.held = 0 /\ fresh THEN @
                                              ELSE PutHeld(reserved[r], c.held)]
      /\ ticketed' = [ticketed EXCEPT ![r] = @ + c.held]
      /\ others' = [others EXCEPT ![r] = @ + c.shelf]
      /\ UNCHANGED <<transferVars, body, machineVars>>
  BY <1>2 DEF SavePart
<1>. HIDE DEF r
<1>4. /\ r \in Row /\ quantity \in [Row -> Int] /\ reserved \in [Row -> Nat]
      /\ c.shelf \in Int /\ c.held \in Int
  BY <1>1, ChangeType, ConstantsAssumption DEF ConstantsAssumption, OneInv, IInv, TypeOK
<1>5. quantity' = [quantity EXCEPT ![r] = @ + c.shelf]
  <2>1. (IF c.shelf = 0 /\ fresh THEN quantity[r] ELSE quantity[r] + c.shelf) = quantity[r] + c.shelf
    BY <1>4
  <2>. QED
    BY <1>3, <2>1
<1>6. reserved' = [reserved EXCEPT ![r] = PutHeld(@, c.held)]
  <2>1. c.held = 0 => PutHeld(reserved[r], c.held) = reserved[r]
    BY <1>4 DEF PutHeld
  <2>. QED
    BY <1>3, <2>1
<1>7. OtherChange(r, c)
  BY <1>3, <1>5, <1>6 DEF OtherChange, MayChange
<1>. QED
  BY <1>1, <1>7 DEF r

----------------------------------------------------------------------------
(* Steps of the handler and what it has read.                              *)

(* After a commit nobody is busy.                                          *)
LEMMA CommitKeepsReads ==
    ASSUME OneHandler, OneInv, NEW h \in Handler, Done(h)
    PROVE  ReqInv'
<1>1. \A g \in Handler : req'[g] = Idle
  BY DEF OneHandler, OneInv, ReqInv, Done
<1>2. \A g \in Handler : ~ Busy(g)' /\ req'[g].stage # "writing"
  BY <1>1 DEF Busy, Idle
<1>. QED
  BY <1>2 DEF ReqInv, ReadIsCurrent, WrittenIsCurrent, Done, OneInv

(* A step of StockTransfer, other than an approval or an INTRA dispatch,   *)
(* makes no lot and gives nothing.                                         *)
LEMMA GivenKept ==
    ASSUME OneInv, IInv', [Next]_vars
    PROVE  NothingGiven'
<1>. USE DEF OneInv, NothingGiven
<1>1. ASSUME NEW t \in Transfer, NEW S \in SUBSET Machine, NEW q \in [Row -> 0..MaxQty],
             Approve(t, S, q)
      PROVE  NothingGiven'
  BY <1>1 DEF Approve, IInv, TypeOK
<1>2. ASSUME NEW t \in Transfer, DispatchIntra(t) PROVE NothingGiven'
  BY <1>2 DEF DispatchIntra, IInv, TypeOK
<1>3. ASSUME NEW t \in Transfer,
             CreateDraft(t) \/ Submit(t) \/ Reject(t) \/ DispatchInter(t) \/ CancelUnapproved(t)
             \/ CancelApproved(t) \/ UpdateReceiving(t) \/ ConfirmReceived(t)
      PROVE  NothingGiven'
  BY <1>3 DEF CreateDraft, Submit, Reject, DispatchInter, CancelUnapproved, CancelApproved,
     UpdateReceiving, ConfirmReceived, IInv, TypeOK
<1>4. ASSUME \/ \E m \in Machine, a \in BOOLEAN : ProductStatusUpdate(m, a)
             \/ \E e \in Edit, a \in BOOLEAN : EditProduct(e[1], e[2], a)
             \/ \E r \in SharedRow, c \in Change : OtherChange(r, c)
      PROVE  NothingGiven'
  BY <1>4 DEF ProductStatusUpdate, EditProduct, OtherChange
<1>5. CASE UNCHANGED vars
  BY <1>5
<1>. QED
  BY <1>1, <1>2, <1>3, <1>4, <1>5 DEF Next

(* With the link either kept or set, lots stay linked.                     *)
LEMMA LinkKept ==
    ASSUME OneInv, NEW t \in Transfer,
           linked' = linked \/ linked' = [linked EXCEPT ![t] = TRUE]
           \/ linked' = [linked EXCEPT ![t] = linked[t]],
           \A u \in Transfer : lot'[u] = "NONE" <=> lot[u] = "NONE"
    PROVE  LotsLinked'
BY DEF OneInv, LotsLinked

LEMMA LinkMade ==
    ASSUME OneInv, NEW t \in Transfer, linked' = [linked EXCEPT ![t] = TRUE],
           \A u \in Transfer \ {t} : lot'[u] = lot[u]
    PROVE  LotsLinked'
BY DEF OneInv, LotsLinked

(* The link of a transfer whose handler has read it.                       *)
LEMMA KeptLinkIsLink ==
    ASSUME OneInv, NEW h \in Handler, NEW fresh \in BOOLEAN, req[h].linked = linked[req[h].t]
    PROVE  KeptLink(h, fresh) = linked[req[h].t]
BY DEF KeptLink

(* Every commit is a step of StockTransfer that keeps lots linked.         *)
LEMMA CommitRefines ==
    ASSUME OneInv, NEW h \in Handler,
           \/ \E S \in SUBSET Machine, q \in [Row -> 0..MaxQty] : CommitApprove(h, S, q)
           \/ CommitCount(h)
           \/ \E fresh \in BOOLEAN :
                \/ CommitSubmit(h, fresh) \/ CommitApproveNothing(h, fresh)
                \/ CommitReject(h, fresh) \/ CommitDispatchIntra(h, fresh)
                \/ CommitDispatchInter(h, fresh) \/ CommitCancel(h, fresh)
                \/ CommitConfirm(h, fresh)
                \/ \E a \in BOOLEAN : SaveStatus(h, a, fresh)
                \/ \E c \in Change : SavePart(h, c, fresh)
    PROVE  Next /\ LotsLinked' /\ Done(h)
<1>. DEFINE t == req[h].t
<1>t. lot \in [Transfer -> LotStatus \cup {"NONE"}]
  BY DEF OneInv, IInv, TypeOK
<1>1. ASSUME NEW S \in SUBSET Machine, NEW q \in [Row -> 0..MaxQty], CommitApprove(h, S, q)
      PROVE  Next /\ LotsLinked' /\ Done(h)
  <2>1. t \in Transfer /\ Approve(t, S, q) /\ Done(h)
    BY <1>1, ReadyKnows, ApproveRefines DEF CommitApprove
  <2>2. LotsLinked'
    BY <1>1, <1>t, <2>1, LinkMade DEF CommitApprove, SaveTransfer
  <2>. QED
    BY <2>1, <2>2 DEF Next
<1>2. CASE CommitCount(h)
  <2>1. t \in Transfer /\ UpdateReceiving(t) /\ Done(h)
    BY <1>2, ReadyKnows, CountRefines DEF CommitCount
  <2>2. LotsLinked'
    BY <1>2, <1>t, <2>1, LinkKept DEF CommitCount, UpdateReceiving, LotStatus
  <2>. QED
    BY <2>1, <2>2 DEF Next
<1>3. ASSUME NEW fresh \in BOOLEAN, CommitSubmit(h, fresh) PROVE Next /\ LotsLinked' /\ Done(h)
  <2>1. t \in Transfer /\ Submit(t) /\ Done(h) /\ linked' = [linked EXCEPT ![t] = linked[t]]
    BY <1>3, ReadyKnows, SubmitRefines, KeptLinkIsLink DEF CommitSubmit, SaveTransfer
  <2>2. LotsLinked'
    BY <2>1, LinkKept DEF Submit
  <2>. QED
    BY <2>1, <2>2 DEF Next
<1>4. ASSUME NEW fresh \in BOOLEAN, CommitReject(h, fresh) \/ CommitApproveNothing(h, fresh)
      PROVE  Next /\ LotsLinked' /\ Done(h)
  <2>1. t \in Transfer /\ Reject(t) /\ Done(h) /\ linked' = [linked EXCEPT ![t] = linked[t]]
    BY <1>4, ReadyKnows, RejectKnows, RejectRefines, ApproveNothingRefines, KeptLinkIsLink
       DEF CommitReject, CommitApproveNothing, SaveTransfer
  <2>2. LotsLinked'
    BY <2>1, LinkKept DEF Reject
  <2>. QED
    BY <2>1, <2>2 DEF Next
<1>5. ASSUME NEW fresh \in BOOLEAN, CommitDispatchIntra(h, fresh)
      PROVE  Next /\ LotsLinked' /\ Done(h)
  <2>1. t \in Transfer /\ DispatchIntra(t) /\ Done(h) /\ linked' = [linked EXCEPT ![t] = TRUE]
    BY <1>5, ReadyKnows, DispatchIntraRefines DEF CommitDispatchIntra, SaveTransfer
  <2>2. LotsLinked'
    BY <1>t, <2>1, LinkMade DEF DispatchIntra
  <2>. QED
    BY <2>1, <2>2 DEF Next
<1>6. ASSUME NEW fresh \in BOOLEAN, CommitDispatchInter(h, fresh)
      PROVE  Next /\ LotsLinked' /\ Done(h)
  <2>1. t \in Transfer /\ DispatchInter(t) /\ Done(h) /\ linked' = [linked EXCEPT ![t] = linked[t]]
    BY <1>6, ReadyKnows, DispatchInterRefines, KeptLinkIsLink DEF CommitDispatchInter, SaveTransfer
  <2>2. LotsLinked'
    BY <2>1, LinkKept DEF DispatchInter
  <2>. QED
    BY <2>1, <2>2 DEF Next
<1>7. ASSUME NEW fresh \in BOOLEAN, CommitCancel(h, fresh) PROVE Next /\ LotsLinked' /\ Done(h)
  <2>1. /\ t \in Transfer /\ Done(h)
        /\ CancelApproved(t) \/ CancelUnapproved(t)
        /\ linked' = [linked EXCEPT ![t] = linked[t]]
    BY <1>7, ReadyKnows, CancelRefines, KeptLinkIsLink DEF CommitCancel, SaveTransfer
  <2>2. t \in Transfer /\ Done(h)
    BY <1>7, ReadyKnows DEF CommitCancel
  <2>3. \A u \in Transfer : lot'[u] = "NONE" <=> lot[u] = "NONE"
    <3>1. status[t] = "APPROVED" => lot[t] # "NONE"
      BY <2>2 DEF OneInv, IInv, LotFollowsTransfer
    <3>. QED
      BY <1>t, <2>1, <2>2, <3>1 DEF CancelApproved, CancelUnapproved
  <2>4. LotsLinked'
    BY <2>1, <2>2, <2>3, LinkKept
  <2>. QED
    BY <2>1, <2>2, <2>4 DEF Next
<1>8. ASSUME NEW fresh \in BOOLEAN, CommitConfirm(h, fresh) PROVE Next /\ LotsLinked' /\ Done(h)
  <2>1. t \in Transfer /\ ConfirmReceived(t) /\ Done(h) /\ req[h].linked = linked[t]
    BY <1>8, ReadyKnows, ConfirmRefines DEF CommitConfirm
  <2>2. linked' = linked \/ linked' = [linked EXCEPT ![t] = linked[t]]
    BY <1>8, <2>1, KeptLinkIsLink DEF CommitConfirm, SaveTransfer
  <2>3. LotsLinked'
    BY <1>t, <2>1, <2>2, LinkKept DEF ConfirmReceived, LotStatus
  <2>. QED
    BY <2>1, <2>3 DEF Next
<1>9. ASSUME NEW fresh \in BOOLEAN, NEW a \in BOOLEAN, SaveStatus(h, a, fresh)
      PROVE  Next /\ LotsLinked' /\ Done(h)
  <2>1. UNCHANGED <<linked, lot>> /\ Done(h)
    BY <1>9 DEF SaveStatus
  <2>2. LotsLinked'
    BY <2>1 DEF OneInv, LotsLinked
  <2>. QED
    BY <1>9, <2>1, <2>2, StatusRefines DEF Next
<1>10. ASSUME NEW fresh \in BOOLEAN, NEW c \in Change, SavePart(h, c, fresh)
       PROVE  Next /\ LotsLinked' /\ Done(h)
  <2>1. UNCHANGED <<linked, lot>> /\ Done(h)
    BY <1>10 DEF SavePart
  <2>2. LotsLinked'
    BY <2>1 DEF OneInv, LotsLinked
  <2>. QED
    BY <1>10, <2>1, <2>2, PartRefines DEF Next
<1>. QED
  BY <1>1, <1>2, <1>3, <1>4, <1>5, <1>6, <1>7, <1>8, <1>9, <1>10

(* Nobody has read a transfer that does not exist yet.                     *)
LEMMA DraftUnread ==
    ASSUME OneInv, NEW t \in Transfer, status[t] = "NEW", NEW h \in Handler, Busy(h)
    PROVE  req[h].t # t
<1>1. req[h].op \in OpType /\ req[h].t \in Transfer /\ Admits(req[h].op, req[h].t)
  BY DEF OneInv, ReqInv, ReadIsCurrent
<1>2. lot[t] = "NONE"
  BY DEF OneInv, IInv, LotFollowsTransfer
<1>. QED
  BY <1>1, <1>2 DEF Admits, OpType, LotStatus

LEMMA CreateDraftKeepsOneInv ==
    ASSUME OneInv, NEW t \in Transfer, CreateDraft(t), UNCHANGED <<linked, req>>
    PROVE  Next /\ OneInv'
<1>1. Next
  BY DEF Next
<1>2. IInv'
  BY <1>1, NextIInv DEF OneInv
<1>3. NothingGiven'
  BY <1>1, <1>2, GivenKept
<1>4. /\ status[t] = "NEW"
      /\ \A u \in Transfer \ {t} : status'[u] = status[u]
      /\ UNCHANGED <<assigned, approved, lot, body, partVars, machineVars>>
  BY DEF CreateDraft, OneInv, IInv, TypeOK
<1>5. LotsLinked'
  BY <1>4 DEF OneInv, LotsLinked
<1>6. ReadIsCurrent'
  <2>. SUFFICES ASSUME NEW h \in Handler, Busy(h)
                PROVE  /\ req[h].op \in OpType
                       /\ req[h].t \in Transfer
                       /\ Admits(req[h].op, req[h].t)'
                       /\ req[h].status = status'[req[h].t]
                       /\ req[h].linked = linked[req[h].t]
                       /\ req[h].assigned = assigned[req[h].t]
                       /\ req[h].approved = approved[req[h].t]
                       /\ req[h].stage = "read" => req[h].rows = Rows
                       /\ req[h].stage = "items" => req[h].op = "reject"
    BY <1>4 DEF ReadIsCurrent, Busy, Rows
  <2>1. req[h].t # t
    BY <1>4, DraftUnread
  <2>2. /\ req[h].op \in OpType
        /\ req[h].t \in Transfer
        /\ Admits(req[h].op, req[h].t)
        /\ req[h].status = status[req[h].t]
        /\ req[h].linked = linked[req[h].t]
        /\ req[h].assigned = assigned[req[h].t]
        /\ req[h].approved = approved[req[h].t]
        /\ req[h].stage = "read" => req[h].rows = Rows
        /\ req[h].stage = "items" => req[h].op = "reject"
    BY DEF OneInv, ReqInv, ReadIsCurrent
  <2>3. status'[req[h].t] = status[req[h].t]
    BY <1>4, <2>1, <2>2
  <2>4. Admits(req[h].op, req[h].t)'
    BY <1>4, <2>2, <2>3 DEF Admits, OpType
  <2>. QED
    BY <2>2, <2>3, <2>4
<1>7. ReqInv'
  BY <1>4, <1>6 DEF OneInv, ReqInv, WrittenIsCurrent, Rows
<1>. QED
  BY <1>1, <1>2, <1>3, <1>5, <1>7 DEF OneInv

(* Reading changes no row: a stutter of StockTransfer.                     *)
LEMMA RowsUntouched ==
    ASSUME OneInv, UNCHANGED <<vars, linked>>, ReqInv'
    PROVE  OneInv'
<1>1. IInv'
  BY NextIInv DEF OneInv
<1>2. NothingGiven'
  BY <1>1, GivenKept
<1>. QED
  BY <1>1, <1>2 DEF OneInv, LotsLinked

LEMMA LoadKeepsOneInv ==
    ASSUME OneHandler, OneInv, RaceAssumption,
           NEW h \in Handler, NEW op \in Op, NEW t \in Transfer, Load(h, op, t)
    PROVE  OneInv'
<1>1. /\ op \in OpType /\ Admits(op, t)
      /\ \A g \in Handler :
           req'[g] = [stage |-> "loaded", op |-> op, t |-> t, status |-> status[t],
                      linked |-> linked[t], assigned |-> assigned[t], approved |-> approved[t]]
      /\ req' = [g \in Handler |-> req'[g]]
      /\ UNCHANGED <<vars, linked>>
  BY DEF Load, OneInv, ReqInv, OneHandler, RaceAssumption
<1>2. ASSUME NEW g \in Handler PROVE Admits(req[g].op, req[g].t)'
  <2>1. UNCHANGED <<status, body, lot>> /\ Admits(op, t) /\ req'[g].op = op /\ req'[g].t = t
    BY <1>1
  <2>. QED
    BY <2>1 DEF Admits
<1>3. ReadIsCurrent'
  BY <1>1, <1>2 DEF ReadIsCurrent
<1>4. ReqInv'
  BY <1>1, <1>3 DEF ReqInv, WrittenIsCurrent
<1>. QED
  BY <1>1, <1>4, RowsUntouched

LEMMA ReadRowsKeepsOneInv ==
    ASSUME OneHandler, OneInv, NEW h \in Handler, ReadRows(h)
    PROVE  OneInv'
<1>. DEFINE t == req[h].t
<1>1. Busy(h)
  BY DEF ReadRows, Busy
<1>2. /\ req[h].op \in OpType /\ t \in Transfer /\ Admits(req[h].op, t)
      /\ req[h].status = status[t] /\ req[h].linked = linked[t]
      /\ req[h].assigned = assigned[t] /\ req[h].approved = approved[t]
  BY <1>1 DEF OneInv, ReqInv, ReadIsCurrent
<1>3. /\ \A g \in Handler :
           req'[g] = [stage |-> "read", op |-> req[h].op, t |-> t, status |-> status[t],
                      linked |-> linked[t], assigned |-> assigned[t],
                      approved |-> approved[t], rows |-> Rows]
      /\ req' = [g \in Handler |-> req'[g]]
      /\ UNCHANGED <<vars, linked>>
  BY <1>2 DEF ReadRows, OneInv, ReqInv, OneHandler
<1>4. ASSUME NEW g \in Handler PROVE Admits(req[g].op, req[g].t)'
  <2>1. /\ UNCHANGED <<status, body, lot>> /\ Admits(req[h].op, req[h].t)
        /\ req'[g].op = req[h].op /\ req'[g].t = req[h].t
    BY <1>2, <1>3
  <2>. QED
    BY <2>1 DEF Admits
<1>5. \A g \in Handler :
        /\ req'[g].stage = "read" /\ req'[g].op \in OpType /\ req'[g].t \in Transfer
        /\ req'[g].status = status[req'[g].t] /\ req'[g].linked = linked[req'[g].t]
        /\ req'[g].assigned = assigned[req'[g].t] /\ req'[g].approved = approved[req'[g].t]
        /\ req'[g].rows = Rows
  BY <1>2, <1>3
<1>6. UNCHANGED <<vars, linked>> /\ Rows' = Rows
  BY <1>3 DEF Rows
<1>7. ReadIsCurrent'
  BY <1>4, <1>5, <1>6 DEF ReadIsCurrent
<1>8. ReqInv'
  BY <1>3, <1>5, <1>7 DEF ReqInv, WrittenIsCurrent
<1>. QED
  BY <1>3, <1>8, RowsUntouched

(* A writer that reads the row it will save.                               *)
LEMMA WriterReadsKeepOneInv ==
    ASSUME OneHandler, OneInv, NEW h \in Handler,
           \/ \E m \in Machine : ReadMachine(h, m)
           \/ \E r \in SharedRow : ReadPart(h, r)
    PROVE  OneInv' /\ UNCHANGED vars
<1>1. /\ UNCHANGED <<vars, linked>>
      /\ \/ \E m \in Machine : req' = [req EXCEPT ![h] = [stage |-> "writing", op |-> "status",
                                                          m |-> m, rows |-> Rows]]
         \/ \E r \in SharedRow : req' = [req EXCEPT ![h] = [stage |-> "writing", op |-> "stock",
                                                             r |-> r, rows |-> Rows]]
  BY DEF ReadMachine, ReadPart
<1>2. /\ req' = [g \in Handler |-> req'[g]]
      /\ \A g \in Handler :
           \/ \E m \in Machine : req'[g] = [stage |-> "writing", op |-> "status",
                                            m |-> m, rows |-> Rows]
           \/ \E r \in SharedRow : req'[g] = [stage |-> "writing", op |-> "stock",
                                              r |-> r, rows |-> Rows]
  BY <1>1 DEF OneHandler, OneInv, ReqInv
<1>3. Rows' = Rows
  BY <1>1 DEF Rows
<1>4. ReqInv'
  BY <1>2, <1>3 DEF ReqInv, ReadIsCurrent, WrittenIsCurrent, Busy
<1>. QED
  BY <1>1, <1>4, RowsUntouched

LEMMA EditKeepsOneInv ==
    ASSUME OneHandler, OneInv, NEW h \in Handler, NEW e \in Edit, NEW a \in BOOLEAN,
           EditRow(h, e[1], e[2], a)
    PROVE  Next /\ OneInv'
<1>1. Next
  BY DEF EditRow, Next
<1>2. IInv'
  BY <1>1, NextIInv DEF OneInv
<1>3. NothingGiven'
  BY <1>1, <1>2, GivenKept
<1>4. UNCHANGED <<linked, lot, req>>
  BY DEF EditRow, EditProduct
<1>5. LotsLinked'
  BY <1>4 DEF OneInv, LotsLinked
<1>6. \A g \in Handler : req[g].stage = "idle"
  BY DEF EditRow, OneHandler, Idle
<1>7. ReqInv'
  BY <1>4, <1>6 DEF OneInv, ReqInv, ReadIsCurrent, WrittenIsCurrent, Busy
<1>. QED
  BY <1>1, <1>2, <1>3, <1>5, <1>7 DEF OneInv

LEMMA RejectItemsKeepsOneInv ==
    ASSUME OneHandler, OneInv, NEW h \in Handler, CommitRejectItems(h)
    PROVE  OneInv' /\ UNCHANGED vars
<1>1. UNCHANGED <<vars, linked>> /\ Busy(h) /\ req[h].op = "reject"
  BY RejectItemsStutters
<1>2. /\ req' = [g \in Handler |-> req'[g]]
      /\ \A g \in Handler : g = h /\ req'[g] = [req[h] EXCEPT !.stage = "items"]
  BY DEF CommitRejectItems, OneHandler, OneInv, ReqInv
<1>3. \A g \in Handler : /\ req'[g].op = req[g].op /\ req'[g].t = req[g].t
                          /\ req'[g].status = req[g].status /\ req'[g].linked = req[g].linked
                          /\ req'[g].assigned = req[g].assigned
                          /\ req'[g].approved = req[g].approved
                          /\ req'[g].stage = "items" /\ req[g].op = "reject" /\ Busy(g)
  <2>1. req'[h] = [req[h] EXCEPT !.stage = "items"]
    BY <1>2
  <2>2. /\ req'[h].op = req[h].op /\ req'[h].t = req[h].t
        /\ req'[h].status = req[h].status /\ req'[h].linked = req[h].linked
        /\ req'[h].assigned = req[h].assigned
        /\ req'[h].approved = req[h].approved
        /\ req'[h].stage = "items"
    BY <1>1, <2>1
  <2>. QED
    BY <1>1, <1>2, <2>2
<1>4. \A g \in Handler : /\ req[g].op \in OpType /\ req[g].t \in Transfer
                          /\ Admits(req[g].op, req[g].t)
                          /\ req[g].status = status[req[g].t] /\ req[g].linked = linked[req[g].t]
                          /\ req[g].assigned = assigned[req[g].t]
                          /\ req[g].approved = approved[req[g].t]
  BY <1>3 DEF OneInv, ReqInv, ReadIsCurrent
<1>5. \A g \in Handler : Admits(req[g].op, req[g].t)'
  <2>. SUFFICES ASSUME NEW g \in Handler PROVE Admits(req[g].op, req[g].t)'
    OBVIOUS
  <2>1. /\ UNCHANGED <<status, body, lot>> /\ Admits(req[g].op, req[g].t)
        /\ req'[g].op = req[g].op /\ req'[g].t = req[g].t
    BY <1>1, <1>3, <1>4
  <2>. QED
    BY <2>1 DEF Admits
<1>6. ReqInv'
  BY <1>1, <1>2, <1>3, <1>4, <1>5 DEF ReqInv, ReadIsCurrent, WrittenIsCurrent
<1>. QED
  BY <1>1, <1>6, RowsUntouched

LEMMA FailKeepsOneInv ==
    ASSUME OneHandler, OneInv, NEW h \in Handler, Fail(h)
    PROVE  OneInv'
<1>1. Done(h) /\ UNCHANGED <<vars, linked>>
  BY DEF Fail
<1>. QED
  BY <1>1, CommitKeepsReads, RowsUntouched

(* Every step of the handler is a step of StockTransfer or a stutter.      *)
LEMMA RaceStepRefines ==
    ASSUME OneHandler, OneInv, RaceAssumption, [RaceNext]_raceVars
    PROVE  [Next]_vars /\ OneInv'
<1>1. CASE UNCHANGED raceVars
  <2>1. ReqInv' /\ UNCHANGED <<vars, linked>>
    BY <1>1 DEF OneInv, ReqInv, ReadIsCurrent, WrittenIsCurrent, Busy, Admits, Rows
  <2>. QED
    BY <2>1, RowsUntouched
<1>2. ASSUME NEW t \in Transfer, CreateDraft(t) /\ UNCHANGED <<linked, req>>
      PROVE  [Next]_vars /\ OneInv'
  BY <1>2, CreateDraftKeepsOneInv
<1>3. ASSUME NEW h \in Handler, NEW op \in Op, NEW t \in Transfer, Load(h, op, t)
      PROVE  [Next]_vars /\ OneInv'
  <2>1. UNCHANGED vars
    BY <1>3 DEF Load
  <2>. QED
    BY <1>3, <2>1, LoadKeepsOneInv
<1>4. ASSUME NEW h \in Handler, ReadRows(h) PROVE [Next]_vars /\ OneInv'
  <2>1. UNCHANGED vars
    BY <1>4 DEF ReadRows
  <2>. QED
    BY <1>4, <2>1, ReadRowsKeepsOneInv
<1>5. ASSUME NEW h \in Handler, Fail(h) PROVE [Next]_vars /\ OneInv'
  <2>1. UNCHANGED vars
    BY <1>5 DEF Fail
  <2>. QED
    BY <1>5, <2>1, FailKeepsOneInv
<1>6. ASSUME NEW h \in Handler,
             \/ \E S \in SUBSET Machine, q \in [Row -> 0..MaxQty] : CommitApprove(h, S, q)
             \/ CommitCount(h)
             \/ \E fresh \in BOOLEAN :
                  \/ CommitSubmit(h, fresh) \/ CommitApproveNothing(h, fresh)
                  \/ CommitReject(h, fresh) \/ CommitDispatchIntra(h, fresh)
                  \/ CommitDispatchInter(h, fresh) \/ CommitCancel(h, fresh)
                  \/ CommitConfirm(h, fresh)
                  \/ \E a \in BOOLEAN : SaveStatus(h, a, fresh)
                  \/ \E c \in Change : SavePart(h, c, fresh)
      PROVE  [Next]_vars /\ OneInv'
  <2>1. Next /\ LotsLinked' /\ Done(h)
    BY <1>6, CommitRefines
  <2>2. IInv'
    BY <2>1, NextIInv DEF OneInv
  <2>3. NothingGiven'
    BY <2>1, <2>2, GivenKept
  <2>4. ReqInv'
    BY <2>1, CommitKeepsReads
  <2>. QED
    BY <2>1, <2>2, <2>3, <2>4 DEF OneInv
<1>7. ASSUME NEW h \in Handler,
             \/ \E m \in Machine : ReadMachine(h, m)
             \/ \E r \in SharedRow : ReadPart(h, r)
             \/ CommitRejectItems(h)
      PROVE  [Next]_vars /\ OneInv'
  BY <1>7, WriterReadsKeepOneInv, RejectItemsKeepsOneInv
<1>8. ASSUME NEW h \in Handler, NEW e \in Edit, NEW a \in BOOLEAN, EditRow(h, e[1], e[2], a)
      PROVE  [Next]_vars /\ OneInv'
  BY <1>8, EditKeepsOneInv
<1>. QED
  BY <1>1, <1>2, <1>3, <1>4, <1>5, <1>6, <1>7, <1>8 DEF RaceNext

(* With one handler at a time, whatever it is asked for and whenever it    *)
(* fails, the service runs the atomic operations of StockTransfer: loading *)
(* a transfer, reading the stock rows and saving whole rows loses nothing. *)
THEOREM OneHandlerImplementsStockTransfer ==
    ASSUME OneHandler
    PROVE  RaceSpec => ImplementsStockTransfer
<1>1. RaceInit => Init /\ OneInv
  BY InitOneInv DEF RaceInit
<1>2. OneInv /\ [RaceNext]_raceVars => [Next]_vars /\ OneInv'
  BY RaceStepRefines, RaceAssumption
<1>. QED
  BY <1>1, <1>2, PTL DEF RaceSpec, ImplementsStockTransfer, Spec

(* So everything that holds of the atomic operations holds of the service  *)
(* then: no unit is lost and no reservation left behind between the loads, *)
(* reads and saves either, machines keep to one transfer and to its        *)
(* source, and what approvals were promised is not given away.             *)
COROLLARY OneHandlerKeepsPromises ==
    ASSUME OneHandler
    PROVE  RaceSpec => /\ []StockConserved
                       /\ []ReservedMatchesApprovals
                       /\ []MachineInOneTransfer
                       /\ []LotFollowsTransfer
                       /\ []TakenStandsAtSource
                       /\ PromisesKept
BY OneHandlerImplementsStockTransfer, StockIsConserved, ReservationsExact, MachineExclusive,
   LotsAgree, TakenMachinesStay, PromisesAreKept, PTL DEF ImplementsStockTransfer
============================================================================
