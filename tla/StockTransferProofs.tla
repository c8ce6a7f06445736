------------------------ MODULE StockTransferProofs ------------------------
(* Proofs about StockTransfer, for every set of transfers, machines, parts *)
(* and warehouses, and every set of request bodies.                        *)
EXTENDS StockTransfer, SumTheorems

(* Only INTER requests are sent and approved.                              *)
SentIsInter == \A t \in Transfer : status[t] \in {"SENT", "APPROVED"} => body[t].type = "INTER"

(* The inductive invariant.  TypeOK alone is not inductive: that a release *)
(* leaves a natural number reserved needs the reservations to be exact,    *)
(* and that a receipt moves no machine another transfer took needs         *)
(* transfer_status to be exact.                                            *)
IInv == /\ TypeOK
        /\ SentIsInter
        /\ ReservedMatchesApprovals
        /\ MachineInOneTransfer
        /\ LotFollowsTransfer
        /\ TakenStandsAtSource

----------------------------------------------------------------------------
(* Units held by transfers, as sums over the transfers.                    *)

HeldBy(t, s, a, r) == IF s[t] = "APPROVED" THEN a[t][r] ELSE 0

LEMMA HeldUnitsSum ==
    ASSUME NEW r
    PROVE  /\ HeldUnits(r) =
                SumFunctionOnSet([t \in Transfer |-> HeldBy(t, status, approved, r)], Transfer)
           /\ HeldUnits(r)' =
                SumFunctionOnSet([t \in Transfer |-> HeldBy(t, status', approved', r)], Transfer)
<1>. DEFINE f == [t \in Transfer |-> HeldBy(t, status, approved, r)]
            g == [t \in Transfer |-> HeldBy(t, status', approved', r)]
<1>1. HeldUnits(r) = SumFunction(f)
  BY DEF HeldUnits, HeldBy
<1>2. HeldUnits(r)' = SumFunction(g)
  BY DEF HeldUnits, HeldBy
<1>3. /\ SumFunction(f) = SumFunctionOnSet(f, Transfer)
      /\ SumFunction(g) = SumFunctionOnSet(g, Transfer)
  <2>1. DOMAIN f = Transfer /\ DOMAIN g = Transfer
    OBVIOUS
  <2>. HIDE DEF f, g
  <2>. QED
    BY <2>1, SumOver
<1>. QED
  BY <1>1, <1>2, <1>3

ApprovedTypes(a) == a \in [Transfer -> [Row -> 0..MaxQty]]

LEMMA HeldByType ==
    ASSUME NEW s, NEW a, ApprovedTypes(a), NEW r \in Row, NEW t \in Transfer
    PROVE  HeldBy(t, s, a, r) \in Nat
BY ConstantsAssumption DEF ConstantsAssumption, HeldBy, ApprovedTypes

(* The units a row's approved transfers hold are a natural number.         *)
LEMMA HeldUnitsType ==
    ASSUME NEW r \in Row
    PROVE  /\ ApprovedTypes(approved) => HeldUnits(r) \in Nat
           /\ ApprovedTypes(approved') => HeldUnits(r)' \in Nat
<1>. DEFINE f == [t \in Transfer |-> HeldBy(t, status, approved, r)]
            g == [t \in Transfer |-> HeldBy(t, status', approved', r)]
<1>1. IsFiniteSet(Transfer)
  BY ConstantsAssumption DEF ConstantsAssumption
<1>2. ApprovedTypes(approved) => \A t \in Transfer : f[t] \in Nat
  BY HeldByType
<1>3. ApprovedTypes(approved') => \A t \in Transfer : g[t] \in Nat
  BY HeldByType
<1>4. HeldUnits(r) = SumFunctionOnSet(f, Transfer) /\ HeldUnits(r)' = SumFunctionOnSet(g, Transfer)
  BY HeldUnitsSum
<1>. HIDE DEF f, g
<1>. QED
  BY <1>1, <1>2, <1>3, <1>4, SumNat

(* A step of one transfer changes the held units of a row by the change of *)
(* what that transfer holds.                                               *)
LEMMA HeldUnitsChange ==
    ASSUME ApprovedTypes(approved), ApprovedTypes(approved'),
           NEW t \in Transfer, NEW r \in Row,
           \A u \in Transfer \ {t} : status'[u] = status[u] /\ approved'[u] = approved[u]
    PROVE  HeldUnits(r)' = HeldUnits(r) + (HeldBy(t, status', approved', r)
                                            - HeldBy(t, status, approved, r))
<1>. DEFINE f == [u \in Transfer |-> HeldBy(u, status, approved, r)]
            g == [u \in Transfer |-> HeldBy(u, status', approved', r)]
<1>1. IsFiniteSet(Transfer)
  BY ConstantsAssumption DEF ConstantsAssumption
<1>2. \A u \in Transfer : HeldBy(u, status, approved, r) \in Nat /\ HeldBy(u, status', approved', r) \in Nat
  BY HeldByType
<1>3. \A u \in Transfer : f[u] \in Int /\ g[u] \in Int
  BY <1>2
<1>4. \A u \in Transfer \ {t} : g[u] = f[u]
  BY DEF HeldBy
<1>5. HeldUnits(r) = SumFunctionOnSet(f, Transfer) /\ HeldUnits(r)' = SumFunctionOnSet(g, Transfer)
  BY HeldUnitsSum
<1>6. f[t] = HeldBy(t, status, approved, r) /\ g[t] = HeldBy(t, status', approved', r)
  OBVIOUS
<1>. HIDE DEF f, g
<1>. QED
  BY <1>1, <1>3, <1>4, <1>5, <1>6, SumChange

(* approve takes approved_qty more units of the row.                       *)
LEMMA HeldUnitsTaken ==
    ASSUME ApprovedTypes(approved), ApprovedTypes(approved'), NEW t \in Transfer, NEW r \in Row,
           status[t] # "APPROVED", status'[t] = "APPROVED",
           \A u \in Transfer \ {t} : status'[u] = status[u] /\ approved'[u] = approved[u]
    PROVE  HeldUnits(r)' = HeldUnits(r) + approved'[t][r]
<1>1. HeldBy(t, status, approved, r) = 0 /\ HeldBy(t, status', approved', r) = approved'[t][r]
  BY DEF HeldBy
<1>2. approved'[t][r] \in Nat /\ HeldUnits(r) \in Nat
  BY HeldUnitsType, ConstantsAssumption DEF ConstantsAssumption, ApprovedTypes
<1>. QED
  BY <1>1, <1>2, HeldUnitsChange

(* dispatchInter and cancel give approved_qty units of the row back; the   *)
(* row held at least those.                                                *)
LEMMA HeldUnitsReturned ==
    ASSUME TypeOK, NEW t \in Transfer, NEW r \in Row,
           status[t] = "APPROVED", status'[t] # "APPROVED",
           approved' = approved,
           \A u \in Transfer \ {t} : status'[u] = status[u]
    PROVE  /\ HeldUnits(r) = HeldUnits(r)' + approved[t][r]
           /\ HeldUnits(r)' \in Nat
<1>1. ApprovedTypes(approved) /\ ApprovedTypes(approved')
  BY DEF TypeOK, ApprovedTypes
<1>2. HeldBy(t, status, approved, r) = approved[t][r] /\ HeldBy(t, status', approved', r) = 0
  BY DEF HeldBy
<1>3. HeldUnits(r)' = HeldUnits(r) + (HeldBy(t, status', approved', r)
                                      - HeldBy(t, status, approved, r))
  BY <1>1, HeldUnitsChange
<1>4. approved[t][r] \in Nat /\ HeldUnits(r) \in Nat /\ HeldUnits(r)' \in Nat
  BY <1>1, HeldUnitsType, ConstantsAssumption DEF ConstantsAssumption, ApprovedTypes
<1>. QED
  BY <1>2, <1>3, <1>4

(* Every other step leaves the held units of every row as they are.        *)
LEMMA HeldUnitsKept ==
    ASSUME NEW r,
           \A u \in Transfer : status'[u] = "APPROVED" <=> status[u] = "APPROVED",
           \A u \in Transfer : status[u] = "APPROVED" => approved'[u] = approved[u]
    PROVE  HeldUnits(r)' = HeldUnits(r)
<1>1. \A u \in Transfer : HeldBy(u, status', approved', r) = HeldBy(u, status, approved, r)
  BY DEF HeldBy
<1>2. [u \in Transfer |-> HeldBy(u, status', approved', r)]
        = [u \in Transfer |-> HeldBy(u, status, approved, r)]
  BY <1>1
<1>. QED
  BY <1>2, HeldUnitsSum

----------------------------------------------------------------------------
(* Units of a part, as sums over the warehouses.                           *)

RowUnits(k, q) == [w \in Warehouse |-> q[<<k, w>>]]

LEMMA UnitsOfSum ==
    ASSUME NEW k, NEW q
    PROVE  UnitsOf(k, q) = SumFunctionOnSet(RowUnits(k, q), Warehouse)
BY DEF UnitsOf, RowUnits, SumFunction, FoldFunction, SumFunctionOnSet

Counts == [Row -> Int]

LEMMA RowUnitsType ==
    ASSUME NEW k \in Kind, NEW q \in Counts
    PROVE  \A w \in Warehouse : RowUnits(k, q)[w] = q[<<k, w>>] /\ RowUnits(k, q)[w] \in Int
BY DEF RowUnits, Counts, Row

LEMMA UnitsOfType ==
    ASSUME NEW k \in Kind, NEW q \in Counts
    PROVE  /\ UnitsOf(k, q) \in Int
           /\ q \in [Row -> Nat] => UnitsOf(k, q) \in Nat
<1>1. IsFiniteSet(Warehouse)
  BY ConstantsAssumption DEF ConstantsAssumption
<1>2. UnitsOf(k, q) \in Int
  BY <1>1, RowUnitsType, UnitsOfSum, SumInt
<1>3. ASSUME q \in [Row -> Nat] PROVE UnitsOf(k, q) \in Nat
  <2>1. \A w \in Warehouse : RowUnits(k, q)[w] \in Nat
    BY <1>3, RowUnitsType DEF Row
  <2>. QED
    BY <1>1, <2>1, UnitsOfSum, SumNat
<1>. QED
  BY <1>2, <1>3

(* Rows that add up, add up to the sum.                                    *)
LEMMA UnitsOfPlus ==
    ASSUME NEW k \in Kind, NEW p \in Counts, NEW q \in Counts, NEW s \in Counts,
           \A r \in Row : s[r] = p[r] + q[r]
    PROVE  UnitsOf(k, s) = UnitsOf(k, p) + UnitsOf(k, q)
<1>1. IsFiniteSet(Warehouse)
  BY ConstantsAssumption DEF ConstantsAssumption
<1>2. \A w \in Warehouse : s[<<k, w>>] = p[<<k, w>>] + q[<<k, w>>]
  BY DEF Row
<1>3. \A w \in Warehouse : /\ RowUnits(k, p)[w] \in Int /\ RowUnits(k, q)[w] \in Int
                           /\ RowUnits(k, s)[w] = RowUnits(k, p)[w] + RowUnits(k, q)[w]
  <2>. SUFFICES ASSUME NEW w \in Warehouse
                PROVE  /\ RowUnits(k, p)[w] \in Int /\ RowUnits(k, q)[w] \in Int
                       /\ RowUnits(k, s)[w] = RowUnits(k, p)[w] + RowUnits(k, q)[w]
    OBVIOUS
  <2>1. RowUnits(k, p)[w] = p[<<k, w>>] /\ RowUnits(k, p)[w] \in Int
    BY RowUnitsType
  <2>2. RowUnits(k, q)[w] = q[<<k, w>>] /\ RowUnits(k, q)[w] \in Int
    BY RowUnitsType
  <2>3. RowUnits(k, s)[w] = s[<<k, w>>]
    BY RowUnitsType
  <2>. QED
    BY <1>2, <2>1, <2>2, <2>3
<1>. QED
  BY <1>1, <1>3, UnitsOfSum, SumPlus

(* One row that takes n units more.                                        *)
LEMMA UnitsOfLanding ==
    ASSUME NEW k \in Kind, NEW d \in Warehouse, NEW p \in Counts, NEW q \in Counts, NEW n \in Int,
           q[<<k, d>>] = p[<<k, d>>] + n,
           \A w \in Warehouse \ {d} : q[<<k, w>>] = p[<<k, w>>]
    PROVE  UnitsOf(k, q) = UnitsOf(k, p) + n
<1>1. IsFiniteSet(Warehouse)
  BY ConstantsAssumption DEF ConstantsAssumption
<1>2. \A w \in Warehouse : /\ RowUnits(k, p)[w] \in Int /\ RowUnits(k, q)[w] \in Int
                           /\ RowUnits(k, p)[w] = p[<<k, w>>] /\ RowUnits(k, q)[w] = q[<<k, w>>]
  <2>. SUFFICES ASSUME NEW w \in Warehouse
                PROVE  /\ RowUnits(k, p)[w] \in Int /\ RowUnits(k, q)[w] \in Int
                       /\ RowUnits(k, p)[w] = p[<<k, w>>] /\ RowUnits(k, q)[w] = q[<<k, w>>]
    OBVIOUS
  <2>1. RowUnits(k, p)[w] = p[<<k, w>>] /\ RowUnits(k, p)[w] \in Int
    BY RowUnitsType
  <2>2. RowUnits(k, q)[w] = q[<<k, w>>] /\ RowUnits(k, q)[w] \in Int
    BY RowUnitsType
  <2>. QED
    BY <2>1, <2>2
<1>3. UnitsOf(k, q) = UnitsOf(k, p) + (RowUnits(k, q)[d] - RowUnits(k, p)[d])
  <2>. DEFINE f == RowUnits(k, p)
              g == RowUnits(k, q)
  <2>1. UnitsOf(k, p) = SumFunctionOnSet(f, Warehouse) /\ UnitsOf(k, q) = SumFunctionOnSet(g, Warehouse)
    BY UnitsOfSum
  <2>2. \A w \in Warehouse : f[w] \in Int /\ g[w] \in Int
    BY <1>2
  <2>3. \A w \in Warehouse \ {d} : g[w] = f[w]
    BY <1>2
  <2>. HIDE DEF f, g
  <2>4. SumFunctionOnSet(g, Warehouse) = SumFunctionOnSet(f, Warehouse) + (g[d] - f[d])
    BY <1>1, <2>2, <2>3, SumChange
  <2>. QED
    BY <2>1, <2>4 DEF f, g
<1>4. UnitsOf(k, p) \in Int /\ p[<<k, d>>] \in Int
  BY UnitsOfType, <1>2 DEF Counts, Row
<1>. QED
  BY <1>2, <1>3, <1>4

(* A receipt lands a natural number of units on each row.                  *)
LEMMA LandingUnitsType ==
    ASSUME TypeOK, NEW t \in Transfer, NEW r \in Row
    PROVE  LandingUnits(t, r) \in Nat
<1>1. r[1] \in Kind
  BY DEF Row
<1>2. approved[t] \in Counts /\ approved[t] \in [Row -> Nat]
  BY ConstantsAssumption DEF TypeOK, Counts, ConstantsAssumption
<1>3. UnitsOf(r[1], approved[t]) \in Nat
  BY <1>1, <1>2, UnitsOfType
<1>. QED
  BY <1>3 DEF LandingUnits

----------------------------------------------------------------------------
(* The initial state.                                                      *)
LEMMA InitIInv == Init => IInv
<1>. SUFFICES ASSUME Init PROVE IInv
  OBVIOUS
<1>. USE DEF Init
<1>1. TypeOK
  BY ConstantsAssumption DEF ConstantsAssumption, TypeOK, Status, LotStatus, TransferStatus, NoParts, Row
<1>2. SentIsInter /\ LotFollowsTransfer
  BY DEF SentIsInter, LotFollowsTransfer
<1>3. ReservedMatchesApprovals
  <2>. SUFFICES ASSUME NEW r \in Row PROVE reserved[r] = HeldUnits(r) + ticketed[r]
    BY DEF ReservedMatchesApprovals
  <2>. DEFINE f == [t \in Transfer |-> HeldBy(t, status, approved, r)]
  <2>1. \A t \in Transfer : f[t] = 0
    BY DEF HeldBy
  <2>2. HeldUnits(r) = SumFunctionOnSet(f, Transfer)
    BY HeldUnitsSum
  <2>3. IsFiniteSet(Transfer)
    BY ConstantsAssumption DEF ConstantsAssumption
  <2>4. HeldUnits(r) = 0
    <3>. HIDE DEF f
    <3>. QED
      BY <2>1, <2>2, <2>3, SumZero
  <2>. QED
    BY <2>4 DEF NoParts
<1>4. TakenStandsAtSource
  BY DEF TakenStandsAtSource, CarriesNow
<1>5. MachineInOneTransfer
  BY DEF MachineInOneTransfer, CarriesNow
<1>. QED
  BY <1>1, <1>2, <1>3, <1>4, <1>5 DEF IInv

(* Machines stay where their transfer took them, unless staff move them:   *)
(* no step makes a transfer carry a machine it did not, nor moves one.     *)
LEMMA SourceKept ==
    ASSUME TakenStandsAtSource, UNCHANGED body,
           \A u \in Transfer, m \in Machine \ moved' :
               /\ CarriesNow(u, m, "APPROVED")' =>
                    CarriesNow(u, m, "APPROVED") /\ warehouse'[m] = warehouse[m] /\ m \notin moved
               /\ CarriesNow(u, m, "IN_TRANSIT")' =>
                    /\ \/ CarriesNow(u, m, "IN_TRANSIT")
                       \/ CarriesNow(u, m, "APPROVED") /\ body[u].type = "INTER"
                    /\ warehouse'[m] = warehouse[m] /\ m \notin moved
    PROVE  TakenStandsAtSource'
BY DEF TakenStandsAtSource, InBranch

(* createDraft, submit, reject and cancelling what was not approved only   *)
(* move a transfer between statuses that hold nothing.                     *)
LEMMA PaperworkStep ==
    ASSUME IInv, NEW t \in Transfer, NEW s \in {"DRAFT", "SENT", "REJECTED", "CANCELLED"},
           status[t] \in {"NEW", "DRAFT", "SENT"},
           s = "SENT" => body[t].type = "INTER",
           status' = [status EXCEPT ![t] = s],
           UNCHANGED <<assigned, approved, lot, body, partVars, machineVars>>
    PROVE  IInv'
<1>. USE DEF IInv, partVars, machineVars
<1>0. \A u \in Transfer : status'[u] = IF u = t THEN s ELSE status[u]
  BY DEF TypeOK
<1>1. TypeOK'
  BY DEF TypeOK, Status
<1>2. SentIsInter'
  BY <1>0 DEF SentIsInter
<1>3. ReservedMatchesApprovals'
  <2>. SUFFICES ASSUME NEW r \in Row PROVE reserved'[r] = HeldUnits(r)' + ticketed'[r]
    BY DEF ReservedMatchesApprovals
  <2>1. HeldUnits(r)' = HeldUnits(r)
    BY <1>0, HeldUnitsKept
  <2>. QED
    BY <2>1 DEF ReservedMatchesApprovals
<1>c. \A u \in Transfer, m \in Machine, c \in {"APPROVED", "IN_TRANSIT"} :
        CarriesNow(u, m, c)' <=> CarriesNow(u, m, c)
  BY <1>0 DEF CarriesNow, Carried
<1>4. TakenStandsAtSource'
  BY <1>c, SourceKept
<1>5. MachineInOneTransfer'
  BY <1>c DEF MachineInOneTransfer
<1>6. LotFollowsTransfer'
  BY <1>0 DEF LotFollowsTransfer
<1>. QED
  BY <1>1, <1>2, <1>3, <1>4, <1>5, <1>6

(* Approving sets machines and units aside that no transfer held.          *)
LEMMA ApproveStep ==
    ASSUME IInv, NEW t \in Transfer, NEW S \in SUBSET Machine,
           NEW q \in [Row -> 0..MaxQty], Approve(t, S, q)
    PROVE  IInv'
<1>. USE DEF IInv, Approve
<1>0. \A u \in Transfer : /\ status'[u] = IF u = t THEN "APPROVED" ELSE status[u]
                          /\ assigned'[u] = IF u = t THEN S ELSE assigned[u]
                          /\ approved'[u] = IF u = t THEN q ELSE approved[u]
                          /\ lot'[u] = IF u = t THEN "PENDING" ELSE lot[u]
  BY DEF TypeOK
<1>q. MaxQty \in Nat /\ \A r \in Row : q[r] \in Nat
  BY ConstantsAssumption
<1>1. TypeOK'
  BY <1>q DEF TypeOK, Status, LotStatus, TransferStatus
<1>2. SentIsInter'
  BY <1>0 DEF SentIsInter
<1>3. ReservedMatchesApprovals'
  <2>. SUFFICES ASSUME NEW r \in Row PROVE reserved'[r] = HeldUnits(r)' + ticketed'[r]
    BY DEF ReservedMatchesApprovals
  <2>1. HeldUnits(r)' = HeldUnits(r) + q[r]
    <3>1. ApprovedTypes(approved) /\ ApprovedTypes(approved')
      BY <1>1 DEF TypeOK, ApprovedTypes
    <3>2. approved'[t][r] = q[r]
      BY <1>0
    <3>. QED
      BY <1>0, <3>1, <3>2, HeldUnitsTaken
  <2>2. /\ reserved[r] = HeldUnits(r) + ticketed[r] /\ ticketed'[r] = ticketed[r]
        /\ HeldUnits(r) \in Nat /\ ticketed[r] \in Nat
    BY HeldUnitsType DEF ReservedMatchesApprovals, TypeOK, ApprovedTypes
  <2>. QED
    BY <1>q, <2>1, <2>2
<1>5. MachineInOneTransfer'
  <2>1. \A m \in S : transferStatus[m] = "NONE"
    BY DEF ApprovableMachines, FreeMachine
  <2>2. \A m \in Machine : transferStatus'[m] = IF m \in S THEN "COMMITTED" ELSE transferStatus[m]
    BY DEF TypeOK
  <2>3. \A u \in Transfer, m \in Machine :
          /\ CarriesNow(u, m, "APPROVED")' <=> IF u = t THEN m \in S ELSE CarriesNow(u, m, "APPROVED")
          /\ CarriesNow(u, m, "IN_TRANSIT")' <=> u # t /\ CarriesNow(u, m, "IN_TRANSIT")
    BY <1>0 DEF CarriesNow, Carried
  <2>4. \A m \in Machine : ~ CarriesNow(t, m, "APPROVED") /\ ~ CarriesNow(t, m, "IN_TRANSIT")
    BY DEF CarriesNow
  <2>5. \A m \in S, u \in Transfer : ~ CarriesNow(u, m, "APPROVED") /\ ~ CarriesNow(u, m, "IN_TRANSIT")
    BY <2>1 DEF MachineInOneTransfer
  <2>. QED
    BY <2>1, <2>2, <2>3, <2>4, <2>5 DEF MachineInOneTransfer
<1>4. TakenStandsAtSource'
  <2>1. \A u \in Transfer, m \in Machine :
          /\ CarriesNow(u, m, "APPROVED")' => IF u = t THEN m \in S ELSE CarriesNow(u, m, "APPROVED")
          /\ CarriesNow(u, m, "IN_TRANSIT")' => CarriesNow(u, m, "IN_TRANSIT")
    BY <1>0 DEF CarriesNow, Carried
  <2>2. \A m \in S, u \in Transfer : ~ CarriesNow(u, m, "APPROVED") /\ ~ CarriesNow(u, m, "IN_TRANSIT")
    BY DEF MachineInOneTransfer, ApprovableMachines, FreeMachine
  <2>3. \A m \in S : InBranch(m, body[t].srcBranch)
    BY DEF ApprovableMachines
  <2>4. UNCHANGED <<body, warehouse>> /\ moved' = moved \ S
    OBVIOUS
  <2>. QED
    BY <2>1, <2>2, <2>3, <2>4 DEF TakenStandsAtSource, InBranch
<1>6. LotFollowsTransfer'
  BY <1>0 DEF LotFollowsTransfer
<1>. QED
  BY <1>1, <1>2, <1>3, <1>4, <1>5, <1>6

(* An INTRA dispatch takes what no reservation holds and machines in no    *)
(* other transfer.                                                         *)
LEMMA DispatchIntraStep ==
    ASSUME IInv, NEW t \in Transfer, DispatchIntra(t)
    PROVE  IInv'
<1>. DEFINE b == body[t]
<1>. USE DEF IInv, DispatchIntra
<1>b. b \in BodyType /\ b.parts \in [Row -> 0..MaxQty] /\ b.machines \in SUBSET Machine
  BY ConstantsAssumption DEF TypeOK, BodyType
<1>0. \A u \in Transfer : /\ status'[u] = IF u = t THEN "IN_TRANSIT" ELSE status[u]
                          /\ approved'[u] = IF u = t THEN b.parts ELSE approved[u]
                          /\ lot'[u] = IF u = t THEN "PENDING" ELSE lot[u]
  BY DEF TypeOK
<1>r. \A r \in Row : quantity[r] \in Int /\ b.parts[r] \in Nat
  BY <1>b, ConstantsAssumption DEF TypeOK
<1>1. TypeOK'
  BY <1>b, <1>r DEF TypeOK, Status, LotStatus, TransferStatus
<1>2. SentIsInter'
  BY <1>0 DEF SentIsInter
<1>3. ReservedMatchesApprovals'
  <2>. SUFFICES ASSUME NEW r \in Row PROVE reserved'[r] = HeldUnits(r)' + ticketed'[r]
    BY DEF ReservedMatchesApprovals
  <2>1. HeldUnits(r)' = HeldUnits(r)
    BY <1>0, HeldUnitsKept
  <2>. QED
    BY <2>1 DEF ReservedMatchesApprovals
<1>4. TakenStandsAtSource'
  <2>1. \A u \in Transfer, m \in Machine :
          /\ CarriesNow(u, m, "APPROVED")' => CarriesNow(u, m, "APPROVED")
          /\ CarriesNow(u, m, "IN_TRANSIT")' =>
               IF u = t THEN m \in b.machines ELSE CarriesNow(u, m, "IN_TRANSIT")
    BY <1>0 DEF CarriesNow, Carried
  <2>2. \A m \in b.machines, u \in Transfer : ~ CarriesNow(u, m, "APPROVED") /\ ~ CarriesNow(u, m, "IN_TRANSIT")
    BY <1>b DEF MachineInOneTransfer
  <2>3. /\ UNCHANGED <<body, warehouse>> /\ moved' = moved \ b.machines
        /\ body[t].type = "INTRA" /\ \A m \in b.machines : warehouse[m] = body[t].src
    OBVIOUS
  <2>. HIDE DEF b
  <2>. QED
    BY <2>1, <2>2, <2>3 DEF TakenStandsAtSource, InBranch
<1>5. MachineInOneTransfer'
  <2>1. \A m \in b.machines : transferStatus[m] = "NONE"
    OBVIOUS
  <2>2. \A m \in Machine : transferStatus'[m] = IF m \in b.machines THEN "IN_TRANSIT" ELSE transferStatus[m]
    OBVIOUS
  <2>3. \A u \in Transfer, m \in Machine :
          /\ CarriesNow(u, m, "IN_TRANSIT")' <=> IF u = t THEN m \in b.machines ELSE CarriesNow(u, m, "IN_TRANSIT")
          /\ CarriesNow(u, m, "APPROVED")' <=> u # t /\ CarriesNow(u, m, "APPROVED")
    BY <1>0 DEF CarriesNow, Carried
  <2>4. \A m \in Machine : ~ CarriesNow(t, m, "APPROVED") /\ ~ CarriesNow(t, m, "IN_TRANSIT")
    BY DEF CarriesNow
  <2>5. \A m \in b.machines, u \in Transfer : ~ CarriesNow(u, m, "APPROVED") /\ ~ CarriesNow(u, m, "IN_TRANSIT")
    BY <1>b, <2>1 DEF MachineInOneTransfer
  <2>. HIDE DEF b
  <2>. QED
    BY <1>b, <2>1, <2>2, <2>3, <2>4, <2>5 DEF MachineInOneTransfer
<1>6. LotFollowsTransfer'
  BY <1>0 DEF LotFollowsTransfer
<1>. QED
  BY <1>1, <1>2, <1>3, <1>4, <1>5, <1>6

(* What leaving APPROVED gives back to a row it had really taken.          *)
LEMMA ApprovalReleased ==
    ASSUME IInv, NEW t \in Transfer, NEW r \in Row,
           status[t] = "APPROVED", status'[t] # "APPROVED", approved' = approved,
           \A u \in Transfer \ {t} : status'[u] = status[u]
    PROVE  /\ approved[t][r] \in Nat /\ quantity[r] \in Int /\ reserved[r] \in Nat
           /\ approved[t][r] <= reserved[r]
           /\ Monus(reserved[r], approved[t][r]) = reserved[r] - approved[t][r]
           /\ reserved[r] - approved[t][r] = HeldUnits(r)' + ticketed[r]
<1>1. /\ approved[t][r] \in Nat /\ quantity[r] \in Int /\ reserved[r] \in Nat
      /\ ticketed[r] \in Nat
  BY ConstantsAssumption DEF ConstantsAssumption, IInv, TypeOK
<1>2. HeldUnits(r) = HeldUnits(r)' + approved[t][r]
  BY HeldUnitsReturned DEF IInv
<1>3. HeldUnits(r)' \in Nat
  BY HeldUnitsReturned DEF IInv
<1>4. reserved[r] = HeldUnits(r) + ticketed[r]
  BY DEF IInv, ReservedMatchesApprovals
<1>. QED
  BY <1>1, <1>2, <1>3, <1>4 DEF Monus

(* dispatchInter moves what the approval had set aside.                    *)
LEMMA DispatchInterStep ==
    ASSUME IInv, NEW t \in Transfer, DispatchInter(t)
    PROVE  IInv'
<1>. USE DEF IInv, DispatchInter
<1>0. \A u \in Transfer : status'[u] = IF u = t THEN "IN_TRANSIT" ELSE status[u]
  BY DEF TypeOK
<1>r. \A r \in Row :
        /\ approved[t][r] \in Nat /\ quantity[r] \in Int /\ reserved[r] \in Nat
        /\ approved[t][r] <= reserved[r]
        /\ reserved'[r] = reserved[r] - approved[t][r]
        /\ reserved'[r] = HeldUnits(r)' + ticketed'[r]
        /\ quantity'[r] = quantity[r] - approved[t][r]
  BY <1>0, ApprovalReleased
<1>1. TypeOK'
  BY <1>r DEF TypeOK, Status, TransferStatus
<1>2. SentIsInter'
  BY <1>0 DEF SentIsInter
<1>3. ReservedMatchesApprovals'
  BY <1>r DEF ReservedMatchesApprovals
<1>4. TakenStandsAtSource'
  <2>1. \A u \in Transfer, m \in Machine :
          /\ CarriesNow(u, m, "APPROVED")' => CarriesNow(u, m, "APPROVED")
          /\ CarriesNow(u, m, "IN_TRANSIT")' =>
               IF u = t THEN CarriesNow(u, m, "APPROVED") ELSE CarriesNow(u, m, "IN_TRANSIT")
    BY <1>0 DEF CarriesNow, Carried
  <2>. QED
    BY <2>1, SourceKept
<1>5. MachineInOneTransfer'
  <2>1. \A u \in Transfer, m \in Machine :
          /\ CarriesNow(u, m, "IN_TRANSIT")' <=> IF u = t THEN m \in assigned[t] ELSE CarriesNow(u, m, "IN_TRANSIT")
          /\ CarriesNow(u, m, "APPROVED")' <=> u # t /\ CarriesNow(u, m, "APPROVED")
    BY <1>0 DEF CarriesNow, Carried
  <2>2. \A m \in Machine : /\ CarriesNow(t, m, "APPROVED") <=> m \in assigned[t]
                           /\ ~ CarriesNow(t, m, "IN_TRANSIT")
    BY DEF CarriesNow, Carried
  <2>3. \A m \in Machine : transferStatus'[m] = IF m \in assigned[t] THEN "IN_TRANSIT" ELSE transferStatus[m]
    OBVIOUS
  <2>. QED
    BY <2>1, <2>2, <2>3 DEF MachineInOneTransfer
<1>6. LotFollowsTransfer'
  BY <1>0 DEF LotFollowsTransfer
<1>. QED
  BY <1>1, <1>2, <1>3, <1>4, <1>5, <1>6

(* Cancelling an approval gives back exactly what it had set aside.        *)
LEMMA CancelApprovedStep ==
    ASSUME IInv, NEW t \in Transfer, CancelApproved(t)
    PROVE  IInv'
<1>. USE DEF IInv, CancelApproved
<1>0. \A u \in Transfer : /\ status'[u] = IF u = t THEN "CANCELLED" ELSE status[u]
                          /\ lot'[u] = IF u = t THEN "CANCELLED" ELSE lot[u]
  BY DEF TypeOK
<1>r. \A r \in Row :
        /\ approved[t][r] \in Nat /\ quantity[r] \in Int /\ reserved[r] \in Nat
        /\ approved[t][r] <= reserved[r]
        /\ reserved'[r] = reserved[r] - approved[t][r]
        /\ reserved'[r] = HeldUnits(r)' + ticketed'[r]
  BY <1>0, ApprovalReleased
<1>1. TypeOK'
  BY <1>r DEF TypeOK, Status, LotStatus, TransferStatus
<1>2. SentIsInter'
  BY <1>0 DEF SentIsInter
<1>3. ReservedMatchesApprovals'
  BY <1>r DEF ReservedMatchesApprovals
<1>4. TakenStandsAtSource'
  <2>1. \A u \in Transfer, m \in Machine :
          /\ CarriesNow(u, m, "IN_TRANSIT")' => CarriesNow(u, m, "IN_TRANSIT")
          /\ CarriesNow(u, m, "APPROVED")' => CarriesNow(u, m, "APPROVED")
    BY <1>0 DEF CarriesNow, Carried
  <2>. QED
    BY <2>1, SourceKept
<1>5. MachineInOneTransfer'
  <2>1. \A u \in Transfer, m \in Machine :
          /\ CarriesNow(u, m, "IN_TRANSIT")' <=> CarriesNow(u, m, "IN_TRANSIT")
          /\ CarriesNow(u, m, "APPROVED")' <=> u # t /\ CarriesNow(u, m, "APPROVED")
    BY <1>0 DEF CarriesNow, Carried
  <2>2. \A m \in Machine : CarriesNow(t, m, "APPROVED") <=> m \in assigned[t]
    BY DEF CarriesNow, Carried, SentIsInter
  <2>3. \A m \in Machine : transferStatus'[m] = IF m \in assigned[t] THEN "NONE" ELSE transferStatus[m]
    OBVIOUS
  <2>. QED
    BY <2>1, <2>2, <2>3 DEF MachineInOneTransfer
<1>6. LotFollowsTransfer'
  BY <1>0 DEF LotFollowsTransfer
<1>. QED
  BY <1>1, <1>2, <1>3, <1>4, <1>5, <1>6

(* Counting the goods of a lot touches the lot's status only.              *)
LEMMA UpdateReceivingStep ==
    ASSUME IInv, NEW t \in Transfer, UpdateReceiving(t)
    PROVE  IInv'
<1>. USE DEF IInv, UpdateReceiving, partVars, machineVars
<1>1. TypeOK'
  BY DEF TypeOK, LotStatus
<1>2. SentIsInter' /\ TakenStandsAtSource'
  BY DEF SentIsInter, TakenStandsAtSource, CarriesNow, Carried, InBranch
<1>3. ReservedMatchesApprovals'
  <2>. SUFFICES ASSUME NEW r \in Row PROVE reserved'[r] = HeldUnits(r)' + ticketed'[r]
    BY DEF ReservedMatchesApprovals
  <2>1. HeldUnits(r)' = HeldUnits(r)
    BY HeldUnitsKept
  <2>. QED
    BY <2>1 DEF ReservedMatchesApprovals
<1>4. MachineInOneTransfer'
  BY DEF MachineInOneTransfer, CarriesNow, Carried
<1>5. LotFollowsTransfer'
  <2>1. \A u \in Transfer : lot'[u] = IF u = t THEN "RECEIVING" ELSE lot[u]
    BY DEF TypeOK
  <2>2. lot[t] # "RECEIVED" /\ lot[t] # "NONE"
    BY DEF LotStatus
  <2>. QED
    BY <2>1, <2>2 DEF LotFollowsTransfer
<1>. QED
  BY <1>1, <1>2, <1>3, <1>4, <1>5

(* A receipt frees the machines of one transfer and only adds stock.       *)
LEMMA ConfirmReceivedStep ==
    ASSUME IInv, NEW t \in Transfer, ConfirmReceived(t)
    PROVE  IInv'
<1>. USE DEF IInv, ConfirmReceived
<1>0. \A u \in Transfer : /\ status'[u] = IF u = t THEN "COMPLETED" ELSE status[u]
                          /\ lot'[u] = IF u = t THEN "RECEIVED" ELSE lot[u]
  BY DEF TypeOK
<1>b. body[t].dst \in Warehouse
  BY ConstantsAssumption DEF TypeOK, BodyType
<1>r. \A r \in Row : quantity'[r] \in Int
  <2>. SUFFICES ASSUME NEW r \in Row PROVE quantity'[r] \in Int
    OBVIOUS
  <2>1. LandingUnits(t, r) \in Nat /\ quantity[r] \in Int
    BY LandingUnitsType DEF TypeOK
  <2>. QED
    BY <2>1
<1>1. TypeOK'
  <2>1. quantity' \in [Row -> Int]
    BY <1>r
  <2>2. warehouse' \in [Machine -> Warehouse] /\ transferStatus' \in [Machine -> TransferStatus]
    BY <1>b DEF TypeOK, TransferStatus
  <2>. QED
    BY <2>1, <2>2 DEF TypeOK, Status, LotStatus
<1>2. SentIsInter'
  BY <1>0 DEF SentIsInter
<1>3. ReservedMatchesApprovals'
  <2>. SUFFICES ASSUME NEW r \in Row PROVE reserved'[r] = HeldUnits(r)' + ticketed'[r]
    BY DEF ReservedMatchesApprovals
  <2>1. HeldUnits(r)' = HeldUnits(r)
    BY <1>0, HeldUnitsKept
  <2>. QED
    BY <2>1 DEF ReservedMatchesApprovals
<1>4. TakenStandsAtSource'
  <2>1. \A u \in Transfer, m \in Machine :
          /\ CarriesNow(u, m, "IN_TRANSIT")' => u # t /\ CarriesNow(u, m, "IN_TRANSIT")
          /\ CarriesNow(u, m, "APPROVED")' => u # t /\ CarriesNow(u, m, "APPROVED")
    BY <1>0 DEF CarriesNow, Carried
  <2>2. \A u \in Transfer, m \in Carried(t) \cap Machine :
          CarriesNow(u, m, "IN_TRANSIT") \/ CarriesNow(u, m, "APPROVED") => u = t
    BY DEF MachineInOneTransfer, CarriesNow
  <2>3. \A m \in Machine : m \notin Carried(t) => warehouse'[m] = warehouse[m]
    OBVIOUS
  <2>. QED
    BY <2>1, <2>2, <2>3, SourceKept
<1>5. MachineInOneTransfer'
  <2>1. \A u \in Transfer, m \in Machine :
          /\ CarriesNow(u, m, "IN_TRANSIT")' <=> u # t /\ CarriesNow(u, m, "IN_TRANSIT")
          /\ CarriesNow(u, m, "APPROVED")' <=> CarriesNow(u, m, "APPROVED")
    BY <1>0 DEF CarriesNow, Carried
  <2>2. \A m \in Machine : CarriesNow(t, m, "IN_TRANSIT") <=> m \in Carried(t)
    BY DEF CarriesNow
  <2>3. \A m \in Machine : transferStatus'[m] = IF m \in Carried(t) THEN "NONE" ELSE transferStatus[m]
    OBVIOUS
  <2>. QED
    BY <2>1, <2>2, <2>3 DEF MachineInOneTransfer
<1>6. LotFollowsTransfer'
  BY <1>0 DEF LotFollowsTransfer
<1>. QED
  BY <1>1, <1>2, <1>3, <1>4, <1>5, <1>6

(* A step that writes nothing but products rows, and a stuttering step.    *)
LEMMA MachineWriteStep ==
    ASSUME IInv, available' \in [Machine -> BOOLEAN], warehouse' \in [Machine -> Warehouse],
           moved' \subseteq Machine, moved \subseteq moved',
           \A m \in Machine \ moved' : warehouse'[m] # warehouse[m] => transferStatus[m] = "NONE",
           UNCHANGED <<transferVars, body, partVars, transferStatus>>
    PROVE  IInv'
<1>. USE DEF IInv, transferVars, partVars
<1>1. TypeOK' /\ SentIsInter' /\ LotFollowsTransfer'
  BY DEF TypeOK, SentIsInter, LotFollowsTransfer
<1>2. ReservedMatchesApprovals'
  <2>. SUFFICES ASSUME NEW r \in Row PROVE reserved'[r] = HeldUnits(r)' + ticketed'[r]
    BY DEF ReservedMatchesApprovals
  <2>1. HeldUnits(r)' = HeldUnits(r)
    BY HeldUnitsKept
  <2>. QED
    BY <2>1 DEF ReservedMatchesApprovals
<1>3. \A u \in Transfer, m \in Machine, s \in {"APPROVED", "IN_TRANSIT"} :
        CarriesNow(u, m, s)' <=> CarriesNow(u, m, s)
  BY DEF CarriesNow, Carried
<1>4. MachineInOneTransfer'
  BY <1>3 DEF MachineInOneTransfer
<1>5. TakenStandsAtSource'
  <2>1. \A u \in Transfer, m \in Machine :
          CarriesNow(u, m, "APPROVED") \/ CarriesNow(u, m, "IN_TRANSIT") => transferStatus[m] # "NONE"
    BY DEF MachineInOneTransfer
  <2>. QED
    BY <1>3, <2>1, SourceKept
<1>. QED
  BY <1>1, <1>2, <1>4, <1>5

LEMMA EditProductStep ==
    ASSUME IInv, NEW m \in Machine, NEW w \in Warehouse, NEW a \in BOOLEAN, EditProduct(m, w, a)
    PROVE  IInv'
<1>1. /\ available' \in [Machine -> BOOLEAN] /\ warehouse' \in [Machine -> Warehouse]
      /\ moved' \subseteq Machine /\ moved \subseteq moved'
  BY DEF EditProduct, IInv, TypeOK
<1>2. \A n \in Machine \ moved' : warehouse'[n] # warehouse[n] => transferStatus[n] = "NONE"
  BY DEF EditProduct, IInv, TypeOK
<1>. QED
  BY <1>1, <1>2, MachineWriteStep DEF EditProduct

(* What the other services do to a row is a number of units.               *)
LEMMA ChangeType == \A c \in Change : c.shelf \in Int /\ c.held \in Int
<1>1. \A n \in 1..MaxQty : n \in Int /\ -n \in Int
  BY ConstantsAssumption DEF ConstantsAssumption
<1>. QED
  BY <1>1 DEF Change, Sale, Return, TicketReserve, TicketRelease, TicketConsume

(* A sale, a return or a ticket: what tickets hold and what is reserved    *)
(* change by the same units, and Math.max clips nothing.                   *)
LEMMA OtherChangeStep ==
    ASSUME IInv, NEW r \in Row, NEW c \in Change, OtherChange(r, c)
    PROVE  IInv'
<1>. USE DEF IInv, transferVars, machineVars
<1>1. c.shelf \in Int /\ c.held \in Int
  BY ChangeType
<1>2. /\ HeldUnits(r) \in Nat /\ ticketed[r] \in Nat /\ reserved[r] \in Nat
      /\ quantity[r] \in Int /\ others[r] \in Int
      /\ reserved[r] = HeldUnits(r) + ticketed[r]
  BY HeldUnitsType DEF ReservedMatchesApprovals, TypeOK, ApprovedTypes
<1>3. ticketed[r] + c.held \in Nat
  BY ConstantsAssumption DEF ConstantsAssumption, OtherChange, MayChange
<1>4. PutHeld(reserved[r], c.held) = reserved[r] + c.held
  BY <1>1, <1>2, <1>3 DEF PutHeld, Monus
<1>5. /\ quantity' = [quantity EXCEPT ![r] = quantity[r] + c.shelf]
      /\ reserved' = [reserved EXCEPT ![r] = reserved[r] + c.held]
      /\ ticketed' = [ticketed EXCEPT ![r] = ticketed[r] + c.held]
      /\ others' = [others EXCEPT ![r] = others[r] + c.shelf]
      /\ UNCHANGED <<transferVars, body, machineVars>>
  BY <1>4 DEF OtherChange
<1>6. TypeOK'
  <2>1. quantity[r] + c.shelf \in Int /\ others[r] + c.shelf \in Int /\ reserved[r] + c.held \in Nat
    BY <1>1, <1>2, <1>3
  <2>2. quantity' \in [Row -> Int] /\ others' \in [Row -> Int]
    BY <1>5, <2>1 DEF TypeOK
  <2>3. reserved' \in [Row -> Nat] /\ ticketed' \in [Row -> Nat]
    BY <1>3, <1>5, <2>1 DEF TypeOK
  <2>. QED
    BY <1>5, <2>2, <2>3 DEF TypeOK
<1>7. ReservedMatchesApprovals'
  <2>. SUFFICES ASSUME NEW x \in Row PROVE reserved'[x] = HeldUnits(x)' + ticketed'[x]
    BY DEF ReservedMatchesApprovals
  <2>1. HeldUnits(x)' = HeldUnits(x)
    BY <1>5, HeldUnitsKept
  <2>2. CASE x = r
    <3>1. reserved'[x] = reserved[r] + c.held /\ ticketed'[x] = ticketed[r] + c.held
      BY <1>5, <2>2 DEF TypeOK
    <3>. QED
      BY <1>1, <1>2, <2>1, <2>2, <3>1
  <2>3. CASE x # r
    BY <1>5, <2>1, <2>3 DEF TypeOK, ReservedMatchesApprovals
  <2>. QED
    BY <2>2, <2>3
<1>8. SentIsInter' /\ LotFollowsTransfer'
  BY <1>5 DEF SentIsInter, LotFollowsTransfer
<1>9. \A u \in Transfer, m \in Machine, s \in {"APPROVED", "IN_TRANSIT"} :
        CarriesNow(u, m, s)' <=> CarriesNow(u, m, s)
  BY <1>5 DEF CarriesNow, Carried
<1>10. MachineInOneTransfer'
  BY <1>5, <1>9 DEF MachineInOneTransfer
<1>11. TakenStandsAtSource'
  BY <1>5, <1>9, SourceKept
<1>. QED
  BY <1>6, <1>7, <1>8, <1>10, <1>11

----------------------------------------------------------------------------
(* Every step keeps the inductive invariant.                               *)
LEMMA NextIInv == ASSUME IInv, [Next]_vars PROVE IInv'
<1>1. CASE UNCHANGED vars
  BY <1>1, MachineWriteStep DEF vars, machineVars, IInv, TypeOK
<1>2. ASSUME NEW m \in Machine, NEW a \in BOOLEAN, ProductStatusUpdate(m, a) PROVE IInv'
  BY <1>2, MachineWriteStep DEF ProductStatusUpdate, IInv, TypeOK
<1>13. ASSUME NEW e \in Edit, NEW a \in BOOLEAN, EditProduct(e[1], e[2], a) PROVE IInv'
  <2>1. e[1] \in Machine /\ e[2] \in Warehouse
    BY ConstantsAssumption DEF ConstantsAssumption
  <2>. QED
    BY <1>13, <2>1, EditProductStep
<1>14. ASSUME NEW r \in SharedRow, NEW c \in Change, OtherChange(r, c) PROVE IInv'
  <2>1. r \in Row
    BY ConstantsAssumption DEF ConstantsAssumption
  <2>. QED
    BY <1>14, <2>1, OtherChangeStep
<1>3. ASSUME NEW t \in Transfer, CreateDraft(t) PROVE IInv'
  BY <1>3, PaperworkStep DEF CreateDraft
<1>4. ASSUME NEW t \in Transfer, Submit(t) PROVE IInv'
  BY <1>4, PaperworkStep DEF Submit
<1>5. ASSUME NEW t \in Transfer, NEW S \in SUBSET Machine, NEW q \in [Row -> 0..MaxQty],
             Approve(t, S, q)
      PROVE  IInv'
  BY <1>5, ApproveStep
<1>6. ASSUME NEW t \in Transfer, Reject(t) PROVE IInv'
  BY <1>6, PaperworkStep DEF Reject
<1>7. ASSUME NEW t \in Transfer, DispatchIntra(t) PROVE IInv'
  BY <1>7, DispatchIntraStep
<1>8. ASSUME NEW t \in Transfer, DispatchInter(t) PROVE IInv'
  BY <1>8, DispatchInterStep
<1>9. ASSUME NEW t \in Transfer, CancelUnapproved(t) PROVE IInv'
  BY <1>9, PaperworkStep DEF CancelUnapproved
<1>10. ASSUME NEW t \in Transfer, CancelApproved(t) PROVE IInv'
  BY <1>10, CancelApprovedStep
<1>11. ASSUME NEW t \in Transfer, UpdateReceiving(t) PROVE IInv'
  BY <1>11, UpdateReceivingStep
<1>12. ASSUME NEW t \in Transfer, ConfirmReceived(t) PROVE IInv'
  BY <1>12, ConfirmReceivedStep
<1>. QED
  BY <1>1, <1>2, <1>3, <1>4, <1>5, <1>6, <1>7, <1>8, <1>9, <1>10, <1>11, <1>12,
     <1>13, <1>14 DEF Next

(* The inductive invariant holds of every behaviour.                       *)
THEOREM InvariantHolds == Spec => []IInv
<1>1. Init => IInv
  BY InitIInv
<1>2. IInv /\ [Next]_vars => IInv'
  BY NextIInv
<1>. QED
  BY <1>1, <1>2, PTL DEF Spec

(* Rows keep their types: whatever transfers, sales, returns, tickets and  *)
(* product edits come together on them, reserved_quantity is never below   *)
(* zero (quantity may be).                                                 *)
THEOREM TypeCorrect == Spec => []TypeOK
<1>1. IInv => TypeOK
  BY DEF IInv
<1>. QED
  BY <1>1, InvariantHolds, PTL

(* reserved_quantity is exactly what approved transfers and tickets hold.  *)
THEOREM ReservationsExact == Spec => []ReservedMatchesApprovals
<1>1. IInv => ReservedMatchesApprovals
  BY DEF IInv
<1>. QED
  BY <1>1, InvariantHolds, PTL

(* A machine is in at most one live transfer and its flag says which stage.*)
THEOREM MachineExclusive == Spec => []MachineInOneTransfer
<1>1. IInv => MachineInOneTransfer
  BY DEF IInv
<1>. QED
  BY <1>1, InvariantHolds, PTL

(* Lots and transfers agree: completed exactly when received.              *)
THEOREM LotsAgree == Spec => []LotFollowsTransfer
<1>1. IInv => LotFollowsTransfer
  BY DEF IInv
<1>. QED
  BY <1>1, InvariantHolds, PTL

(* A machine that a transfer has taken stands at its source until it is    *)
(* received, unless staff move it in the product form.                     *)
THEOREM TakenMachinesStay == Spec => []TakenStandsAtSource
<1>1. IInv => TakenStandsAtSource
  BY DEF IInv
<1>. QED
  BY <1>1, InvariantHolds, PTL

----------------------------------------------------------------------------
(* Promises to approved transfers.                                         *)

RowPromise(r) == Shortage(r)' > 0 => Shortage(r)' <= Shortage(r) \/ others'[r] < others[r]

LEMMA ShortageTypes ==
    ASSUME IInv, IInv', NEW r \in Row
    PROVE  /\ HeldUnits(r) \in Nat /\ HeldUnits(r)' \in Nat
           /\ quantity[r] \in Int /\ quantity'[r] \in Int
           /\ reserved[r] \in Nat /\ ticketed[r] \in Nat /\ others[r] \in Int
           /\ reserved[r] = HeldUnits(r) + ticketed[r]
           /\ Shortage(r) = HeldUnits(r) - quantity[r]
           /\ Shortage(r)' = HeldUnits(r)' - quantity'[r]
BY HeldUnitsType DEF IInv, TypeOK, ApprovedTypes, ReservedMatchesApprovals, Shortage

(* A step that promises nothing more and takes nothing off the row.        *)
LEMMA NoMorePromised ==
    ASSUME IInv, IInv', NEW r \in Row,
           HeldUnits(r)' <= HeldUnits(r), quantity'[r] >= quantity[r]
    PROVE  RowPromise(r)
BY ShortageTypes DEF RowPromise

(* Approving promises what no promise and no ticket holds.                 *)
LEMMA ApproveKeepsPromises ==
    ASSUME IInv, IInv', NEW r \in Row, NEW t \in Transfer, NEW S \in SUBSET Machine,
           NEW q \in [Row -> 0..MaxQty], Approve(t, S, q)
    PROVE  RowPromise(r)
<1>1. q[r] \in Nat /\ quantity'[r] = quantity[r]
  BY ConstantsAssumption DEF ConstantsAssumption, Approve
<1>2. HeldUnits(r)' = HeldUnits(r) + q[r]
  BY HeldUnitsTaken DEF Approve, IInv, TypeOK, ApprovedTypes
<1>3. q[r] > 0 => q[r] <= quantity[r] - reserved[r]
  BY DEF Approve, ApprovableParts, Free
<1>. QED
  BY <1>1, <1>2, <1>3, ShortageTypes DEF RowPromise

(* An INTRA dispatch takes what no promise holds.                          *)
LEMMA DispatchIntraKeepsPromises ==
    ASSUME IInv, IInv', NEW r \in Row, NEW t \in Transfer, DispatchIntra(t)
    PROVE  RowPromise(r)
<1>1. body[t].parts[r] \in Nat /\ quantity'[r] = quantity[r] - body[t].parts[r]
  BY ConstantsAssumption DEF ConstantsAssumption, DispatchIntra, IInv, TypeOK, BodyType
<1>2. HeldUnits(r)' = HeldUnits(r)
  BY HeldUnitsKept DEF DispatchIntra, IInv, TypeOK
<1>3. body[t].parts[r] > 0 => body[t].parts[r] <= quantity[r] - reserved[r]
  BY DEF DispatchIntra, Free
<1>. QED
  BY <1>1, <1>2, <1>3, ShortageTypes DEF RowPromise

(* Leaving APPROVED gives the promise up, at dispatch with its units.      *)
LEMMA ReleaseKeepsPromises ==
    ASSUME IInv, IInv', NEW r \in Row, NEW t \in Transfer, DispatchInter(t) \/ CancelApproved(t)
    PROVE  RowPromise(r)
<1>1. /\ HeldUnits(r) = HeldUnits(r)' + approved[t][r]
      /\ approved[t][r] \in Nat
  <2>1. /\ status[t] = "APPROVED" /\ status'[t] # "APPROVED" /\ approved' = approved
        /\ \A u \in Transfer \ {t} : status'[u] = status[u]
    BY DEF DispatchInter, CancelApproved, IInv, TypeOK
  <2>. QED
    BY <2>1, HeldUnitsReturned, ApprovalReleased DEF IInv
<1>2. quantity'[r] = quantity[r] \/ quantity'[r] = quantity[r] - approved[t][r]
  BY DEF DispatchInter, CancelApproved
<1>. QED
  BY <1>1, <1>2, ShortageTypes DEF RowPromise

(* No step of a transfer takes units that another was promised: only a     *)
(* sale or a ticket leaves a row short of what approvals were given.       *)
THEOREM PromisesAreKept == Spec => PromisesKept
<1>1. IInv /\ IInv' /\ [Next]_vars => [\A r \in Row : RowPromise(r)]_vars
  <2>. SUFFICES ASSUME IInv, IInv', Next, NEW r \in Row PROVE RowPromise(r)
    OBVIOUS
  <2>1. CASE UNCHANGED <<status, approved, quantity>>
    <3>1. HeldUnits(r)' = HeldUnits(r)
      BY <2>1, HeldUnitsKept
    <3>. QED
      BY <2>1, <3>1, NoMorePromised, ShortageTypes
  <2>2. ASSUME NEW t \in Transfer,
               CreateDraft(t) \/ Submit(t) \/ Reject(t) \/ CancelUnapproved(t)
               \/ UpdateReceiving(t) \/ ConfirmReceived(t)
        PROVE  RowPromise(r)
    <3>1. /\ \A u \in Transfer : status'[u] = "APPROVED" <=> status[u] = "APPROVED"
          /\ approved' = approved
      BY <2>2 DEF CreateDraft, Submit, Reject, CancelUnapproved, UpdateReceiving,
         ConfirmReceived, IInv, TypeOK
    <3>2. HeldUnits(r)' = HeldUnits(r)
      BY <3>1, HeldUnitsKept
    <3>3. quantity'[r] = quantity[r] \/ quantity'[r] = quantity[r] + LandingUnits(t, r)
      BY <2>2 DEF CreateDraft, Submit, Reject, CancelUnapproved, UpdateReceiving,
         ConfirmReceived, partVars
    <3>4. LandingUnits(t, r) \in Nat
      BY LandingUnitsType DEF IInv
    <3>. QED
      BY <3>2, <3>3, <3>4, NoMorePromised, ShortageTypes
  <2>3. ASSUME NEW t \in Transfer, NEW S \in SUBSET Machine, NEW q \in [Row -> 0..MaxQty],
               Approve(t, S, q)
        PROVE  RowPromise(r)
    BY <2>3, ApproveKeepsPromises
  <2>4. ASSUME NEW t \in Transfer, DispatchIntra(t) PROVE RowPromise(r)
    BY <2>4, DispatchIntraKeepsPromises
  <2>5. ASSUME NEW t \in Transfer, DispatchInter(t) \/ CancelApproved(t) PROVE RowPromise(r)
    BY <2>5, ReleaseKeepsPromises
  <2>6. ASSUME NEW x \in SharedRow, NEW c \in Change, OtherChange(x, c) PROVE RowPromise(r)
    <3>1. HeldUnits(r)' = HeldUnits(r)
      BY <2>6, HeldUnitsKept DEF OtherChange, transferVars
    <3>2. c.shelf \in Int
      BY ChangeType
    <3>3. \/ quantity'[r] = quantity[r]
          \/ quantity'[r] = quantity[r] + c.shelf /\ others'[r] = others[r] + c.shelf
      BY <2>6 DEF OtherChange, IInv, TypeOK
    <3>. QED
      BY <3>1, <3>2, <3>3, ShortageTypes DEF RowPromise
  <2>7. ASSUME NEW m \in Machine, NEW a \in BOOLEAN, ProductStatusUpdate(m, a)
        PROVE  RowPromise(r)
    BY <2>1, <2>7 DEF ProductStatusUpdate, transferVars, partVars
  <2>8. ASSUME NEW e \in Edit, NEW a \in BOOLEAN, EditProduct(e[1], e[2], a)
        PROVE  RowPromise(r)
    BY <2>1, <2>8 DEF EditProduct, transferVars, partVars
  <2>. QED
    BY <2>2, <2>3, <2>4, <2>5, <2>6, <2>7, <2>8 DEF Next
<1>. QED
  BY <1>1, InvariantHolds, PTL DEF Spec, PromisesKept, RowPromise

----------------------------------------------------------------------------
(* Conservation of stock.                                                  *)

TravelsBy(t, k, s, a) == IF s[t] = "IN_TRANSIT" THEN UnitsOf(k, a[t]) ELSE 0

LEMMA OnTheWaySum ==
    ASSUME NEW k
    PROVE  /\ OnTheWay(k) =
                SumFunctionOnSet([t \in Transfer |-> TravelsBy(t, k, status, approved)], Transfer)
           /\ OnTheWay(k)' =
                SumFunctionOnSet([t \in Transfer |-> TravelsBy(t, k, status', approved')], Transfer)
<1>. DEFINE f == [t \in Transfer |-> TravelsBy(t, k, status, approved)]
            g == [t \in Transfer |-> TravelsBy(t, k, status', approved')]
<1>1. OnTheWay(k) = SumFunction(f)
  BY DEF OnTheWay, TravelsBy
<1>2. OnTheWay(k)' = SumFunction(g)
  BY DEF OnTheWay, TravelsBy, UnitsOf
<1>3. /\ SumFunction(f) = SumFunctionOnSet(f, Transfer)
      /\ SumFunction(g) = SumFunctionOnSet(g, Transfer)
  <2>1. DOMAIN f = Transfer /\ DOMAIN g = Transfer
    OBVIOUS
  <2>. HIDE DEF f, g
  <2>. QED
    BY <2>1, SumOver
<1>. QED
  BY <1>1, <1>2, <1>3

LEMMA TravelsByType ==
    ASSUME NEW k \in Kind, NEW s, NEW a, ApprovedTypes(a), NEW t \in Transfer
    PROVE  TravelsBy(t, k, s, a) \in Nat
<1>1. a[t] \in Counts /\ a[t] \in [Row -> Nat]
  BY ConstantsAssumption DEF ConstantsAssumption, ApprovedTypes, Counts
<1>2. UnitsOf(k, a[t]) \in Nat
  BY <1>1, UnitsOfType
<1>. QED
  BY <1>2 DEF TravelsBy

(* A step of one transfer changes what is on the way by the change of what *)
(* that transfer carries.                                                  *)
LEMMA OnTheWayChange ==
    ASSUME ApprovedTypes(approved), ApprovedTypes(approved'),
           NEW t \in Transfer, NEW k \in Kind,
           \A u \in Transfer \ {t} : status'[u] = status[u] /\ approved'[u] = approved[u]
    PROVE  /\ OnTheWay(k) \in Nat
           /\ OnTheWay(k)' = OnTheWay(k) + (TravelsBy(t, k, status', approved')
                                            - TravelsBy(t, k, status, approved))
<1>. DEFINE f == [u \in Transfer |-> TravelsBy(u, k, status, approved)]
            g == [u \in Transfer |-> TravelsBy(u, k, status', approved')]
<1>1. IsFiniteSet(Transfer)
  BY ConstantsAssumption DEF ConstantsAssumption
<1>2. \A u \in Transfer : /\ TravelsBy(u, k, status, approved) \in Nat
                          /\ TravelsBy(u, k, status', approved') \in Nat
  BY TravelsByType
<1>3. \A u \in Transfer : f[u] \in Nat /\ f[u] \in Int /\ g[u] \in Int
  BY <1>2
<1>4. \A u \in Transfer \ {t} : g[u] = f[u]
  BY DEF TravelsBy
<1>5. OnTheWay(k) = SumFunctionOnSet(f, Transfer) /\ OnTheWay(k)' = SumFunctionOnSet(g, Transfer)
  BY OnTheWaySum
<1>6. f[t] = TravelsBy(t, k, status, approved) /\ g[t] = TravelsBy(t, k, status', approved')
  OBVIOUS
<1>. HIDE DEF f, g
<1>7. SumFunctionOnSet(f, Transfer) \in Nat
  BY <1>1, <1>3, SumNat
<1>8. SumFunctionOnSet(g, Transfer) = SumFunctionOnSet(f, Transfer) + (g[t] - f[t])
  BY <1>1, <1>3, <1>4, SumChange
<1>. QED
  BY <1>5, <1>6, <1>7, <1>8

LEMMA OnTheWayType ==
    ASSUME ApprovedTypes(approved), NEW k \in Kind
    PROVE  OnTheWay(k) \in Nat
<1>. DEFINE f == [u \in Transfer |-> TravelsBy(u, k, status, approved)]
<1>1. IsFiniteSet(Transfer)
  BY ConstantsAssumption DEF ConstantsAssumption
<1>2. \A u \in Transfer : f[u] \in Nat
  BY TravelsByType
<1>3. OnTheWay(k) = SumFunctionOnSet(f, Transfer)
  BY OnTheWaySum
<1>. HIDE DEF f
<1>. QED
  BY <1>1, <1>2, <1>3, SumNat

(* A step that moves no transfer in or out of transit and no shelf.        *)
LEMMA NothingMoves ==
    ASSUME StockConserved, UNCHANGED <<quantity, others>>,
           \A u \in Transfer : status'[u] = "IN_TRANSIT" <=> status[u] = "IN_TRANSIT",
           \A u \in Transfer : status[u] = "IN_TRANSIT" => approved'[u] = approved[u]
    PROVE  StockConserved'
<1>. SUFFICES ASSUME NEW k \in Kind
              PROVE  UnitsOf(k, quantity') + OnTheWay(k)' = UnitsOf(k, InitQuantity) + UnitsOf(k, others')
  BY DEF StockConserved, UnitsOf
<1>1. \A u \in Transfer : TravelsBy(u, k, status', approved') = TravelsBy(u, k, status, approved)
  BY DEF TravelsBy
<1>2. [u \in Transfer |-> TravelsBy(u, k, status', approved')]
        = [u \in Transfer |-> TravelsBy(u, k, status, approved)]
  BY <1>1
<1>3. OnTheWay(k)' = OnTheWay(k)
  BY <1>2, OnTheWaySum
<1>. QED
  BY <1>3 DEF StockConserved

(* A dispatch: what leaves the shelves is on the way.                      *)
LEMMA DepartureConserves ==
    ASSUME TypeOK, TypeOK', StockConserved, NEW t \in Transfer,
           status[t] # "IN_TRANSIT", status'[t] = "IN_TRANSIT",
           \A u \in Transfer \ {t} : status'[u] = status[u] /\ approved'[u] = approved[u],
           others' = others,
           \A r \in Row : quantity[r] = quantity'[r] + approved'[t][r]
    PROVE  StockConserved'
<1>. SUFFICES ASSUME NEW k \in Kind
              PROVE  UnitsOf(k, quantity') + OnTheWay(k)' = UnitsOf(k, InitQuantity) + UnitsOf(k, others')
  BY DEF StockConserved, UnitsOf
<1>1. ApprovedTypes(approved) /\ ApprovedTypes(approved')
  BY DEF TypeOK, ApprovedTypes
<1>2. quantity \in Counts /\ quantity' \in Counts /\ approved'[t] \in Counts
  BY ConstantsAssumption DEF ConstantsAssumption, TypeOK, Counts
<1>o. others \in Counts /\ InitQuantity \in Counts
  BY ConstantsAssumption DEF ConstantsAssumption, TypeOK, Counts
<1>i. UnitsOf(k, others) \in Int /\ UnitsOf(k, InitQuantity) \in Int
  BY <1>o, UnitsOfType
<1>3. UnitsOf(k, quantity) = UnitsOf(k, quantity') + UnitsOf(k, approved'[t])
  BY <1>2, UnitsOfPlus
<1>4. TravelsBy(t, k, status, approved) = 0
      /\ TravelsBy(t, k, status', approved') = UnitsOf(k, approved'[t])
  BY DEF TravelsBy
<1>5. /\ OnTheWay(k) \in Nat
      /\ OnTheWay(k)' = OnTheWay(k) + (TravelsBy(t, k, status', approved')
                                       - TravelsBy(t, k, status, approved))
  BY <1>1, OnTheWayChange
<1>6. UnitsOf(k, quantity') \in Int /\ UnitsOf(k, approved'[t]) \in Int
  BY <1>2, UnitsOfType
<1>7. UnitsOf(k, quantity) + OnTheWay(k) = UnitsOf(k, InitQuantity) + UnitsOf(k, others)
  BY DEF StockConserved
<1>. QED
  BY <1>i, <1>3, <1>4, <1>5, <1>6, <1>7

(* A receipt: the units of every source row land in one row of each part.  *)
LEMMA ArrivalConserves ==
    ASSUME TypeOK, TypeOK', StockConserved, NEW t \in Transfer, ConfirmReceived(t)
    PROVE  StockConserved'
<1>. SUFFICES ASSUME NEW k \in Kind
              PROVE  UnitsOf(k, quantity') + OnTheWay(k)' = UnitsOf(k, InitQuantity) + UnitsOf(k, others')
  BY DEF StockConserved, UnitsOf
<1>. DEFINE d == body[t].dst
            n == UnitsOf(k, approved[t])
<1>1. ApprovedTypes(approved) /\ ApprovedTypes(approved')
  BY DEF TypeOK, ApprovedTypes
<1>2. quantity \in Counts /\ quantity' \in Counts /\ approved[t] \in Counts
  BY ConstantsAssumption DEF ConstantsAssumption, TypeOK, Counts
<1>o. others \in Counts /\ InitQuantity \in Counts
  BY ConstantsAssumption DEF ConstantsAssumption, TypeOK, Counts
<1>i. UnitsOf(k, others) \in Int /\ UnitsOf(k, InitQuantity) \in Int
  BY <1>o, UnitsOfType
<1>3. d \in Warehouse
  BY ConstantsAssumption DEF ConstantsAssumption, TypeOK, BodyType
<1>4. n \in Int /\ UnitsOf(k, quantity) \in Int
  BY <1>2, UnitsOfType
<1>5. UnitsOf(k, quantity') = UnitsOf(k, quantity) + n
  <2>1. \A w \in Warehouse : <<k, w>> \in Row /\ quantity[<<k, w>>] \in Int
    BY <1>2 DEF Row, Counts
  <2>2. \A w \in Warehouse : quantity'[<<k, w>>] = quantity[<<k, w>>] + LandingUnits(t, <<k, w>>)
    BY <2>1 DEF ConfirmReceived
  <2>3. \A w \in Warehouse : LandingUnits(t, <<k, w>>) = IF w = d THEN n ELSE 0
    BY DEF LandingUnits
  <2>. HIDE DEF n, d
  <2>4. quantity'[<<k, d>>] = quantity[<<k, d>>] + n
    BY <1>3, <2>2, <2>3
  <2>5. \A w \in Warehouse \ {d} : quantity'[<<k, w>>] = quantity[<<k, w>>]
    BY <2>1, <2>2, <2>3
  <2>. QED
    BY <1>2, <1>3, <1>4, <2>4, <2>5, UnitsOfLanding
<1>6. /\ TravelsBy(t, k, status, approved) = n
      /\ TravelsBy(t, k, status', approved') = 0
  BY DEF TravelsBy, ConfirmReceived, TypeOK
<1>7. /\ OnTheWay(k) \in Nat
      /\ OnTheWay(k)' = OnTheWay(k) + (TravelsBy(t, k, status', approved')
                                       - TravelsBy(t, k, status, approved))
  <2>1. \A u \in Transfer \ {t} : status'[u] = status[u] /\ approved'[u] = approved[u]
    BY DEF ConfirmReceived, TypeOK
  <2>. QED
    BY <1>1, <2>1, OnTheWayChange
<1>8. UnitsOf(k, quantity) + OnTheWay(k) = UnitsOf(k, InitQuantity) + UnitsOf(k, others)
  BY DEF StockConserved
<1>. HIDE DEF n
<1>. QED
  BY <1>i, <1>4, <1>5, <1>6, <1>7, <1>8 DEF ConfirmReceived

(* Both dispatches are departures.                                         *)
LEMMA DispatchConserves ==
    ASSUME IInv, IInv', StockConserved, NEW t \in Transfer, DispatchIntra(t) \/ DispatchInter(t)
    PROVE  StockConserved'
<1>1. CASE DispatchIntra(t)
  <2>1. approved'[t] = body[t].parts
    BY <1>1 DEF DispatchIntra, IInv, TypeOK
  <2>2. body[t].parts \in [Row -> Nat]
    BY ConstantsAssumption DEF ConstantsAssumption, IInv, TypeOK, BodyType
  <2>3. \A r \in Row : quantity'[r] = quantity[r] - body[t].parts[r]
    BY <1>1 DEF DispatchIntra
  <2>4. \A r \in Row : quantity[r] \in Int
    BY DEF IInv, TypeOK
  <2>5. \A r \in Row : quantity[r] = quantity'[r] + approved'[t][r]
    BY <2>1, <2>2, <2>3, <2>4
  <2>6. /\ status[t] # "IN_TRANSIT" /\ status'[t] = "IN_TRANSIT" /\ others' = others
        /\ \A u \in Transfer \ {t} : status'[u] = status[u] /\ approved'[u] = approved[u]
    BY <1>1 DEF DispatchIntra, IInv, TypeOK
  <2>. QED
    BY <2>5, <2>6, DepartureConserves DEF IInv
<1>2. CASE DispatchInter(t)
  <2>1. approved'[t] = approved[t]
    BY <1>2 DEF DispatchInter
  <2>2. \A r \in Row : approved[t][r] \in Nat
    BY ConstantsAssumption DEF ConstantsAssumption, IInv, TypeOK
  <2>3. \A r \in Row : quantity'[r] = quantity[r] - approved[t][r]
    BY <1>2 DEF DispatchInter
  <2>4. \A r \in Row : quantity[r] \in Int
    BY DEF IInv, TypeOK
  <2>5. \A r \in Row : quantity[r] = quantity'[r] + approved'[t][r]
    BY <2>1, <2>2, <2>3, <2>4
  <2>6. /\ status[t] # "IN_TRANSIT" /\ status'[t] = "IN_TRANSIT" /\ others' = others
        /\ \A u \in Transfer \ {t} : status'[u] = status[u] /\ approved'[u] = approved[u]
    BY <1>2 DEF DispatchInter, IInv, TypeOK
  <2>. QED
    BY <2>5, <2>6, DepartureConserves DEF IInv
<1>. QED
  BY <1>1, <1>2

(* What the other services do to a shelf is counted as theirs.             *)
LEMMA OthersConserve ==
    ASSUME IInv, IInv', StockConserved, NEW r \in SharedRow, NEW c \in Change, OtherChange(r, c)
    PROVE  StockConserved'
<1>. SUFFICES ASSUME NEW k \in Kind
              PROVE  UnitsOf(k, quantity') + OnTheWay(k)' = UnitsOf(k, InitQuantity) + UnitsOf(k, others')
  BY DEF StockConserved, UnitsOf
<1>. USE DEF IInv
<1>1. /\ quantity \in Counts /\ quantity' \in Counts /\ others \in Counts /\ others' \in Counts
      /\ InitQuantity \in Counts
  BY ConstantsAssumption DEF ConstantsAssumption, TypeOK, Counts
<1>2. c.shelf \in Int
  BY ChangeType
<1>3. r \in Row
  BY ConstantsAssumption DEF ConstantsAssumption
<1>4. PICK j \in Kind, d \in Warehouse : r = <<j, d>>
  BY <1>3 DEF Row
<1>5. \A x \in Row : /\ quantity'[x] = IF x = r THEN quantity[x] + c.shelf ELSE quantity[x]
                     /\ others'[x] = IF x = r THEN others[x] + c.shelf ELSE others[x]
  BY <1>1 DEF OtherChange, Counts
<1>6. OnTheWay(k)' = OnTheWay(k)
  <2>1. [u \in Transfer |-> TravelsBy(u, k, status', approved')]
          = [u \in Transfer |-> TravelsBy(u, k, status, approved)]
    BY DEF OtherChange, transferVars
  <2>. QED
    BY <2>1, OnTheWaySum
<1>7. /\ UnitsOf(k, quantity) \in Int /\ UnitsOf(k, quantity') \in Int
      /\ UnitsOf(k, others) \in Int /\ UnitsOf(k, others') \in Int
      /\ UnitsOf(k, InitQuantity) \in Int
  BY <1>1, UnitsOfType
<1>8. OnTheWay(k) \in Int
  BY OnTheWayType DEF TypeOK, ApprovedTypes
<1>9. /\ \A w \in Warehouse : <<k, w>> \in Row
      /\ \A w \in Warehouse : <<k, w>> = r <=> k = j /\ w = d
  BY <1>4 DEF Row
<1>10. PICK n \in Int : /\ UnitsOf(k, quantity') = UnitsOf(k, quantity) + n
                        /\ UnitsOf(k, others') = UnitsOf(k, others) + n
  <2>1. PICK n \in Int : n = IF k = j THEN c.shelf ELSE 0
    BY <1>2
  <2>2. /\ quantity'[<<k, d>>] = quantity[<<k, d>>] + n
        /\ others'[<<k, d>>] = others[<<k, d>>] + n
    <3>1. quantity[<<k, d>>] \in Int /\ others[<<k, d>>] \in Int
      BY <1>1, <1>9 DEF Counts
    <3>. QED
      BY <1>2, <1>5, <1>9, <2>1, <3>1
  <2>3. \A w \in Warehouse \ {d} : /\ quantity'[<<k, w>>] = quantity[<<k, w>>]
                                  /\ others'[<<k, w>>] = others[<<k, w>>]
    BY <1>5, <1>9
  <2>4. UnitsOf(k, quantity') = UnitsOf(k, quantity) + n /\ UnitsOf(k, others') = UnitsOf(k, others) + n
    BY <1>1, <2>2, <2>3, UnitsOfLanding
  <2>. QED
    BY <2>4
<1>11. UnitsOf(k, quantity) + OnTheWay(k) = UnitsOf(k, InitQuantity) + UnitsOf(k, others)
  BY DEF StockConserved
<1>. QED
  BY <1>6, <1>7, <1>8, <1>10, <1>11

LEMMA InitConserved == Init => StockConserved
<1>. SUFFICES ASSUME Init, NEW k \in Kind
              PROVE  UnitsOf(k, quantity) + OnTheWay(k) = UnitsOf(k, InitQuantity) + UnitsOf(k, others)
  BY DEF StockConserved
<1>z. UnitsOf(k, others) = 0
  <2>1. \A w \in Warehouse : RowUnits(k, others)[w] = 0
    BY DEF Init, RowUnits, NoParts, Row
  <2>. QED
    BY <2>1, ConstantsAssumption, UnitsOfSum, SumZero DEF ConstantsAssumption
<1>. DEFINE f == [t \in Transfer |-> TravelsBy(t, k, status, approved)]
<1>1. \A t \in Transfer : f[t] = 0
  BY DEF Init, TravelsBy
<1>2. OnTheWay(k) = SumFunctionOnSet(f, Transfer)
  BY OnTheWaySum
<1>3. IsFiniteSet(Transfer) /\ InitQuantity \in Counts
  BY ConstantsAssumption DEF ConstantsAssumption, Counts
<1>4. OnTheWay(k) = 0
  <2>. HIDE DEF f
  <2>. QED
    BY <1>1, <1>2, <1>3, SumZero
<1>5. UnitsOf(k, InitQuantity) \in Int
  BY <1>3, UnitsOfType
<1>. QED
  BY <1>z, <1>4, <1>5 DEF Init

(* No unit of a part is created or lost, through partial approvals,        *)
(* cancellations and receipts on a shared row.                             *)
THEOREM StockIsConserved == Spec => []StockConserved
<1>1. Init => StockConserved
  BY InitConserved
<1>2. IInv /\ IInv' /\ StockConserved /\ [Next]_vars => StockConserved'
  <2>. SUFFICES ASSUME IInv, IInv', StockConserved, [Next]_vars PROVE StockConserved'
    OBVIOUS
  <2>. USE DEF IInv, TypeOK
  <2>1. CASE UNCHANGED vars
    BY <2>1, NothingMoves DEF vars, transferVars, partVars
  <2>2. ASSUME NEW m \in Machine, NEW a \in BOOLEAN, ProductStatusUpdate(m, a)
        PROVE  StockConserved'
    BY <2>2, NothingMoves DEF ProductStatusUpdate, transferVars, partVars
  <2>12. ASSUME NEW e \in Edit, NEW a \in BOOLEAN, EditProduct(e[1], e[2], a)
         PROVE  StockConserved'
    BY <2>12, NothingMoves DEF EditProduct, transferVars, partVars
  <2>13. ASSUME NEW r \in SharedRow, NEW c \in Change, OtherChange(r, c) PROVE StockConserved'
    BY <2>13, OthersConserve
  <2>3. ASSUME NEW t \in Transfer, CreateDraft(t) PROVE StockConserved'
    BY <2>3, NothingMoves DEF CreateDraft, partVars
  <2>4. ASSUME NEW t \in Transfer, Submit(t) PROVE StockConserved'
    BY <2>4, NothingMoves DEF Submit, partVars
  <2>5. ASSUME NEW t \in Transfer, NEW S \in SUBSET Machine, NEW q \in [Row -> 0..MaxQty],
               Approve(t, S, q)
        PROVE  StockConserved'
    BY <2>5, NothingMoves DEF Approve
  <2>6. ASSUME NEW t \in Transfer, Reject(t) PROVE StockConserved'
    BY <2>6, NothingMoves DEF Reject, partVars
  <2>7. ASSUME NEW t \in Transfer, DispatchIntra(t) \/ DispatchInter(t) PROVE StockConserved'
    BY <2>7, DispatchConserves
  <2>8. ASSUME NEW t \in Transfer, CancelUnapproved(t) PROVE StockConserved'
    BY <2>8, NothingMoves DEF CancelUnapproved, partVars
  <2>9. ASSUME NEW t \in Transfer, CancelApproved(t) PROVE StockConserved'
    BY <2>9, NothingMoves DEF CancelApproved
  <2>10. ASSUME NEW t \in Transfer, UpdateReceiving(t) PROVE StockConserved'
    BY <2>10, NothingMoves DEF UpdateReceiving, partVars
  <2>11. ASSUME NEW t \in Transfer, ConfirmReceived(t) PROVE StockConserved'
    BY <2>11, ArrivalConserves
  <2>. QED
    BY <2>1, <2>2, <2>3, <2>4, <2>5, <2>6, <2>7, <2>8, <2>9, <2>10, <2>11,
       <2>12, <2>13 DEF Next
<1>. QED
  BY <1>1, <1>2, InvariantHolds, PTL DEF Spec
============================================================================
