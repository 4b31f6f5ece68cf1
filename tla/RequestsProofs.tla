--------------------------- MODULE RequestsProofs ---------------------------
(***************************************************************************)
(* What overlapping requests to the backend's services keep, for every     *)
(* number of rows, requests and approvers and every limit.  A request      *)
(* holds a copy of the row it read, and saves it whatever others saved     *)
(* meanwhile; so each inductive invariant says of every copy that is held, *)
(* at the place where it is held, what it may say when it is saved.        *)
(***************************************************************************)
EXTENDS MCRequests, Sequences, SumLemmas, TLAPS, FiniteSetTheorems

(* The instances count as this module does. *)
LEMMA SameCardinality ==
  ASSUME NEW X
  PROVE  /\ R!Cardinality(X) = Cardinality(X)
         /\ S!Cardinality(X) = Cardinality(X)
         /\ T!Cardinality(X) = Cardinality(X)
         /\ C!Cardinality(X) = Cardinality(X)
         /\ Q!Cardinality(X) = Cardinality(X)
BY DEF R!Cardinality, S!Cardinality, T!Cardinality, C!Cardinality, Q!Cardinality, Cardinality

(* A subset of a finite set is finite and has no more elements. *)
LEMMA SubsetCount ==
  ASSUME NEW X, NEW Y, IsFiniteSet(Y), X \subseteq Y
  PROVE  /\ IsFiniteSet(X) /\ Cardinality(X) \in Nat /\ Cardinality(Y) \in Nat
         /\ Cardinality(X) <= Cardinality(Y)
BY FS_Subset, FS_CardinalityType

(* A set that loses an element loses one of its number. *)
LEMMA WithoutCount ==
  ASSUME NEW X, NEW Y, NEW x, IsFiniteSet(X), x \in X, Y \subseteq X \ {x}
  PROVE  /\ IsFiniteSet(Y) /\ Cardinality(Y) \in Nat /\ Cardinality(X) \in Nat
         /\ Cardinality(Y) + 1 <= Cardinality(X)
<1>1. IsFiniteSet(X \ {x}) /\ Cardinality(X \ {x}) = Cardinality(X) - 1
  BY FS_RemoveElement
<1> QED BY <1>1, SubsetCount, FS_CardinalityType

(* One that gains an element gains at most one. *)
LEMMA WithCount ==
  ASSUME NEW X, NEW x, IsFiniteSet(X)
  PROVE  /\ IsFiniteSet(X \cup {x}) /\ Cardinality(X) \in Nat /\ Cardinality(X \cup {x}) \in Nat
         /\ Cardinality(X \cup {x}) <= Cardinality(X) + 1
BY FS_AddElement, FS_CardinalityType

-----------------------------------------------------------------------------

(***************************************************************************)
(* Splits.  SplitInv: the row stored and every copy of it that a request   *)
(* holds credits a recipient with no more than the distributions stored    *)
(* for him, but for the one a request is about to store (DistributingOK);  *)
(* it says COMPLETED, of a recipient or of the split, only if the          *)
(* distributions confirmed so far or the milestones completed justify it.  *)
(***************************************************************************)

-----------------------------------------------------------------------------
Stored(r, rows) == {d \in Distributions : rows[d] # S!NotStored /\ rows[d].to = r}
AllConfirmed(rows, cfm) == \A r \in Recipients : Stored(r, rows) \cap cfm # {}

(* What a row of the split, stored or read, may say. *)
SplitRowSound(row, rows, cfm, cpl) ==
  /\ row \in S!Split
  /\ \A r \in Recipients : row.part[r] = "COMPLETED" => Stored(r, rows) \cap cfm # {}
  /\ row.status = "COMPLETED" =>
       AllConfirmed(rows, cfm) \/ (Milestones # {} /\ cpl = Milestones)
  /\ row.status = "PENDING" => row.retries = 0
  /\ row.status = "EXECUTING" => row.retries <= SplitMaxRetries
Backed(row, rows) == \A r \in Recipients : row.amount[r] <= Cardinality(Stored(r, rows))
SplitRowOK(row, rows, cfm, cpl) == SplitRowSound(row, rows, cfm, cpl) /\ Backed(row, rows)

SavingSplit == [does : {"split"}, pc : {"split"}, copy : S!Split]
Distributing ==
  [does : {"distribute"}, pc : {"distribution", "split"}, d : Distributions,
   row : [status : {"EXECUTING"}, to : Recipients], copy : S!Split]
ChangingRow ==
  [does : {"confirm", "fail", "refund"}, pc : {"distribution", "read", "split"},
   d : Distributions, copy : S!Split, row : [status : {"COMPLETED", "FAILED"}, to : Recipients]]
OnMilestone ==
  [does : {"trigger", "complete"}, pc : {"milestone", "milestones", "split"},
   m : Milestones, copy : S!Split]

DistributingOK(q, rows, cfm, cpl) ==
  /\ SplitRowSound(q.copy, rows, cfm, cpl)
  /\ \A r \in Recipients :
       q.copy.amount[r] <= Cardinality(Stored(r, rows))
                           + (IF q.pc = "distribution" /\ q.row.to = r THEN 1 ELSE 0)
ChangingRowOK(q, rows, cfm) ==
  /\ rows[q.d] # S!NotStored /\ rows[q.d].to = q.row.to
  /\ q.does = "confirm" /\ q.pc = "read" => q.d \in cfm

SplitRequestOK(q, rows, cfm, cpl) ==
  \/ q = S!NoRequest
  \/ q \in SavingSplit /\ SplitRowOK(q.copy, rows, cfm, cpl)
  \/ q \in Distributing /\ DistributingOK(q, rows, cfm, cpl)
  \/ q \in ChangingRow /\ ChangingRowOK(q, rows, cfm) /\ SplitRowOK(q.copy, rows, cfm, cpl)
  \/ q \in OnMilestone /\ SplitRowOK(q.copy, rows, cfm, cpl)

SplitTables ==
  /\ distribution \in [Distributions -> S!Distribution]
  /\ milestone \in [Milestones -> S!MilestoneStatus]
  /\ \A m \in Milestones : milestone[m] = "COMPLETED" => m \in completed
  /\ completed \subseteq Milestones
SplitRequestsOK ==
  /\ splitRequest = [q \in SplitRequests |-> splitRequest[q]]
  /\ \A q \in SplitRequests :
       SplitRequestOK(splitRequest[q], distribution, confirmed, completed)
SplitInv ==
  /\ SplitRowOK(split, distribution, confirmed, completed)
  /\ SplitTables
  /\ SplitRequestsOK

(* Distributions stay stored, and for whom they are. *)
RowsStay(rows, later) ==
  /\ later \in [Distributions -> S!Distribution]
  /\ \A d \in Distributions :
       rows[d] # S!NotStored => later[d] # S!NotStored /\ later[d].to = rows[d].to

(* A recipient's stored distributions only become more. *)
LEMMA StoredStay ==
  ASSUME NEW rows, NEW later, RowsStay(rows, later), NEW r
  PROVE  /\ Stored(r, rows) \subseteq Stored(r, later)
         /\ Cardinality(Stored(r, rows)) \in Nat /\ Cardinality(Stored(r, later)) \in Nat
         /\ Cardinality(Stored(r, rows)) <= Cardinality(Stored(r, later))
<1>1. Stored(r, rows) \subseteq Stored(r, later) /\ Stored(r, later) \subseteq Distributions
  BY DEF Stored, RowsStay
<1>2. IsFiniteSet(Stored(r, later))
  BY <1>1, SubsetCount, SplitsAssumption
<1> QED BY <1>1, <1>2, SubsetCount

(* A row stays sound as distributions, confirmations and milestones are added. *)
LEMMA SplitRowStays ==
  ASSUME NEW row, NEW rows, NEW later, NEW cfm, NEW cfm2, NEW cpl, NEW cpl2,
         RowsStay(rows, later), cfm \subseteq cfm2,
         cpl \subseteq cpl2, cpl2 \subseteq Milestones,
         SplitRowSound(row, rows, cfm, cpl)
  PROVE  SplitRowSound(row, later, cfm2, cpl2)
<1>1. \A r \in Recipients :
        Stored(r, rows) \cap cfm # {} => Stored(r, later) \cap cfm2 # {}
  <2> SUFFICES ASSUME NEW r \in Recipients, Stored(r, rows) \cap cfm # {}
               PROVE  Stored(r, later) \cap cfm2 # {}
    OBVIOUS
  <2>1. Stored(r, rows) \subseteq Stored(r, later)
    BY StoredStay
  <2> QED BY <2>1
<1>2. AllConfirmed(rows, cfm) => AllConfirmed(later, cfm2)
  BY <1>1 DEF AllConfirmed
<1>3. cpl = Milestones => cpl2 = Milestones
  OBVIOUS
<1> QED BY <1>1, <1>2, <1>3 DEF SplitRowSound

(* A recipient's amount stays backed as distributions are added. *)
LEMMA BackedStays ==
  ASSUME NEW row \in S!Split, NEW rows, NEW later, RowsStay(rows, later), Backed(row, rows)
  PROVE  Backed(row, later)
<1> SUFFICES ASSUME NEW r \in Recipients
             PROVE  row.amount[r] <= Cardinality(Stored(r, later))
  BY DEF Backed
<1>1. row.amount[r] \in Nat /\ row.amount[r] <= Cardinality(Stored(r, rows))
  BY DEF Backed, S!Split
<1> QED BY <1>1, StoredStay

(* Both together. *)
LEMMA SplitRowOKStays ==
  ASSUME NEW row, NEW rows, NEW later, NEW cfm, NEW cfm2, NEW cpl, NEW cpl2,
         RowsStay(rows, later), cfm \subseteq cfm2,
         cpl \subseteq cpl2, cpl2 \subseteq Milestones,
         SplitRowOK(row, rows, cfm, cpl)
  PROVE  SplitRowOK(row, later, cfm2, cpl2)
<1>1. SplitRowSound(row, rows, cfm, cpl) /\ Backed(row, rows)
  BY DEF SplitRowOK
<1>2. SplitRowSound(row, later, cfm2, cpl2)
  BY <1>1, SplitRowStays
<1>3. row \in S!Split
  BY <1>1 DEF SplitRowSound
<1>4. Backed(row, later)
  BY <1>1, <1>3, BackedStays
<1> QED BY <1>2, <1>4 DEF SplitRowOK

(* What a request holds stays sound likewise. *)
LEMMA SplitRequestStays ==
  ASSUME NEW q, NEW rows, NEW later, NEW cfm, NEW cfm2, NEW cpl, NEW cpl2,
         RowsStay(rows, later), cfm \subseteq cfm2,
         cpl \subseteq cpl2, cpl2 \subseteq Milestones,
         SplitRequestOK(q, rows, cfm, cpl)
  PROVE  SplitRequestOK(q, later, cfm2, cpl2)
<1>1. ASSUME SplitRowOK(q.copy, rows, cfm, cpl) PROVE SplitRowOK(q.copy, later, cfm2, cpl2)
  BY <1>1, SplitRowOKStays
<1>2. ASSUME q \in Distributing, DistributingOK(q, rows, cfm, cpl)
      PROVE  DistributingOK(q, later, cfm2, cpl2)
  <2>1. SplitRowSound(q.copy, later, cfm2, cpl2)
    BY <1>2, SplitRowStays DEF DistributingOK
  <2>2. ASSUME NEW r \in Recipients
        PROVE  q.copy.amount[r] <= Cardinality(Stored(r, later))
                           + (IF q.pc = "distribution" /\ q.row.to = r THEN 1 ELSE 0)
    <3>1. q.copy.amount[r] \in Nat
      BY <1>2 DEF Distributing, S!Split
    <3>2. q.copy.amount[r] <= Cardinality(Stored(r, rows))
                           + (IF q.pc = "distribution" /\ q.row.to = r THEN 1 ELSE 0)
      BY <1>2 DEF DistributingOK
    <3> QED BY <3>1, <3>2, StoredStay
  <2> QED BY <2>1, <2>2 DEF DistributingOK
<1>3. ASSUME q \in ChangingRow, ChangingRowOK(q, rows, cfm)
      PROVE  ChangingRowOK(q, later, cfm2)
  BY <1>3 DEF ChangingRow, ChangingRowOK, RowsStay
<1> QED BY <1>1, <1>2, <1>3 DEF SplitRequestOK

(* A request moves on, and rows, stored or about to be, stay sound. *)
LEMMA SplitStep ==
  ASSUME SplitInv, NEW q \in SplitRequests, NEW r,
         splitRequest' = [splitRequest EXCEPT ![q] = r],
         RowsStay(distribution, distribution'), confirmed \subseteq confirmed',
         completed \subseteq completed', SplitTables',
         SplitRequestOK(r, distribution', confirmed', completed'),
         split' = split \/ SplitRowOK(split', distribution', confirmed', completed')
  PROVE  SplitInv'
<1>0. completed' \subseteq Milestones
  BY DEF SplitTables
<1>1. SplitRowOK(split, distribution', confirmed', completed')
  BY <1>0, SplitRowOKStays DEF SplitInv
<1>2. ASSUME NEW p \in SplitRequests
      PROVE  SplitRequestOK(splitRequest'[p], distribution', confirmed', completed')
  <2>1. SplitRequestOK(splitRequest[p], distribution', confirmed', completed')
    BY <1>0, SplitRequestStays DEF SplitInv, SplitRequestsOK
  <2>2. splitRequest'[p] = IF p = q THEN r ELSE splitRequest[p]
    BY DEF SplitInv, SplitRequestsOK
  <2> QED BY <2>1, <2>2
<1>3. splitRequest' = [p \in SplitRequests |-> splitRequest'[p]]
  BY DEF SplitInv, SplitRequestsOK
<1> QED BY <1>1, <1>2, <1>3 DEF SplitInv, SplitRequestsOK

(* A request moves on alone. *)
LEMMA SplitMoves ==
  ASSUME SplitInv, NEW q \in SplitRequests, NEW r,
         splitRequest' = [splitRequest EXCEPT ![q] = r],
         SplitRequestOK(r, distribution, confirmed, completed),
         UNCHANGED <<split, distribution, milestone, confirmed, completed>>
  PROVE  SplitInv'
<1>1. RowsStay(distribution, distribution')
  BY DEF SplitInv, SplitTables, RowsStay
<1>2. SplitTables'
  BY DEF SplitInv, SplitTables
<1>3. SplitRequestOK(r, distribution', confirmed', completed')
  OBVIOUS
<1> QED BY <1>1, <1>2, <1>3, SplitStep

(* What a request is, by where it is. *)
LEMMA SplitRequestAt ==
  ASSUME SplitInv, NEW q \in SplitRequests, splitRequest[q] # S!NoRequest
  PROVE  LET r == splitRequest[q] IN
         /\ r.pc = "distribution" \/ r.pc = "read" =>
              \/ r \in Distributing /\ DistributingOK(r, distribution, confirmed, completed)
                 /\ r.pc = "distribution"
              \/ /\ r \in ChangingRow /\ ChangingRowOK(r, distribution, confirmed)
                 /\ SplitRowOK(r.copy, distribution, confirmed, completed)
         /\ r.pc = "split" => SplitRowOK(r.copy, distribution, confirmed, completed)
         /\ r.pc \in {"milestone", "milestones"} =>
              r \in OnMilestone /\ SplitRowOK(r.copy, distribution, confirmed, completed)
<1> DEFINE r == splitRequest[q]
<1>1. SplitRequestOK(r, distribution, confirmed, completed)
  BY DEF SplitInv, SplitRequestsOK
<1>2. ASSUME r \in Distributing, DistributingOK(r, distribution, confirmed, completed), r.pc = "split"
      PROVE  SplitRowOK(r.copy, distribution, confirmed, completed)
  <2>1. ASSUME NEW p \in Recipients
        PROVE  r.copy.amount[p] <= Cardinality(Stored(p, distribution))
    <3>1. r.copy.amount[p] <= Cardinality(Stored(p, distribution)) + 0
      BY <1>2 DEF DistributingOK
    <3>2. Cardinality(Stored(p, distribution)) \in Nat
      BY SubsetCount, SplitsAssumption DEF Stored
    <3> QED BY <3>1, <3>2
  <2> QED BY <1>2, <2>1 DEF DistributingOK, SplitRowOK, Backed
<1> HIDE DEF r
<1>3. r.pc = "split" => SplitRowOK(r.copy, distribution, confirmed, completed)
  BY <1>1, <1>2 DEF SplitRequestOK, r
<1>4. r.pc \in {"milestone", "milestones"} =>
              r \in OnMilestone /\ SplitRowOK(r.copy, distribution, confirmed, completed)
  BY <1>1 DEF SplitRequestOK, SavingSplit, Distributing, ChangingRow, r
<1>5. r.pc = "distribution" \/ r.pc = "read" =>
              \/ r \in Distributing /\ DistributingOK(r, distribution, confirmed, completed)
                 /\ r.pc = "distribution"
              \/ /\ r \in ChangingRow /\ ChangingRowOK(r, distribution, confirmed)
                 /\ SplitRowOK(r.copy, distribution, confirmed, completed)
  BY <1>1 DEF SplitRequestOK, SavingSplit, Distributing, OnMilestone, r
<1> QED BY <1>3, <1>4, <1>5 DEF r

-----------------------------------------------------------------------------
(* A PENDING split that credits nobody, and no request, at first. *)
LEMMA InitSplit == S!Init => SplitInv
<1> SUFFICES ASSUME S!Init PROVE SplitInv
  OBVIOUS
<1>1. SplitRowOK(split, distribution, confirmed, completed)
  <2>1. split \in S!Split /\ split.status = "PENDING" /\ split.retries = 0
        /\ \A r \in Recipients : split.part[r] = "PENDING" /\ split.amount[r] = 0
    BY DEF S!Init, S!NewSplit, S!Split, S!SplitStatus
  <2>2. \A r \in Recipients : Cardinality(Stored(r, distribution)) \in Nat
    BY SubsetCount, SplitsAssumption DEF Stored
  <2> QED BY <2>1, <2>2 DEF SplitRowOK, SplitRowSound, Backed
<1> QED BY <1>1 DEF SplitInv, SplitTables, SplitRequestsOK, SplitRequestOK, S!Init,
                    S!Distribution, S!MilestoneStatus

(* What requests make of a row that is sound is sound. *)
LEMMA ExecutedIsSound ==
  ASSUME NEW row, row.status = "PENDING", SplitRowOK(row, distribution, confirmed, completed)
  PROVE  SplitRowOK(S!Executed(row), distribution, confirmed, completed)
<1>1. row \in S!Split /\ row.retries = 0
  BY DEF SplitRowOK, SplitRowSound
<1>2. /\ S!Executed(row) \in S!Split /\ S!Executed(row).status = "EXECUTING"
      /\ S!Executed(row).retries = row.retries /\ S!Executed(row).part = row.part
      /\ S!Executed(row).amount = row.amount
  BY <1>1 DEF S!Executed, S!Split, S!SplitStatus
<1> QED BY <1>1, <1>2, SplitsAssumption DEF SplitRowOK, SplitRowSound, Backed

(* cancelSplit changes no recipient's state for the better. *)
LEMMA CancelledIsSound ==
  ASSUME NEW row, SplitRowOK(row, distribution, confirmed, completed)
  PROVE  SplitRowOK(S!Cancelled(row), distribution, confirmed, completed)
<1>1. row \in S!Split
  BY DEF SplitRowOK, SplitRowSound
<1>2. /\ S!Cancelled(row) \in S!Split /\ S!Cancelled(row).status = "CANCELLED"
      /\ S!Cancelled(row).part = row.part /\ S!Cancelled(row).amount = row.amount
  BY <1>1 DEF S!Cancelled, S!Split, S!SplitStatus
<1> QED BY <1>1, <1>2 DEF SplitRowOK, SplitRowSound, Backed

(* A retry is counted only below the limit. *)
LEMMA RetriedIsSound ==
  ASSUME NEW row, row.retries < SplitMaxRetries,
         SplitRowOK(row, distribution, confirmed, completed)
  PROVE  SplitRowOK(S!Retried(row), distribution, confirmed, completed)
<1> DEFINE n == S!Retried(row)
           k == row.retries + 1
           parts == [r \in Recipients |-> IF row.part[r] = "FAILED" THEN "PENDING" ELSE row.part[r]]
<1>1. row \in S!Split /\ row.retries \in Nat /\ k \in Nat /\ k <= SplitMaxRetries
  BY SplitsAssumption DEF SplitRowOK, SplitRowSound, S!Split
<1>2. parts \in [Recipients -> S!SplitStatus]
      /\ \A r \in Recipients : parts[r] = "COMPLETED" => row.part[r] = "COMPLETED"
  BY <1>1 DEF S!Split, S!SplitStatus
<1>3. n = [row EXCEPT !.status = "EXECUTING", !.retries = k, !.part = parts]
  BY <1>1 DEF S!Retried, S!Split
<1> HIDE DEF n, k, parts
<1>4. /\ n \in S!Split /\ n.status = "EXECUTING" /\ n.retries = k /\ n.part = parts
      /\ n.amount = row.amount
  BY <1>1, <1>2, <1>3 DEF S!Split, S!SplitStatus
<1>5. SplitRowOK(n, distribution, confirmed, completed)
  BY <1>1, <1>2, <1>4 DEF SplitRowOK, SplitRowSound, Backed
<1> QED BY <1>5 DEF n

(* A recipient is credited with the distribution that is about to be stored. *)
LEMMA DistributedIsSound ==
  ASSUME NEW row, NEW r \in Recipients, row.status = "EXECUTING",
         SplitRowOK(row, distribution, confirmed, completed)
  PROVE  LET n == [row EXCEPT !.amount[r] = @ + 1, !.part[r] = "EXECUTING"] IN
         /\ SplitRowSound(n, distribution, confirmed, completed)
         /\ \A p \in Recipients :
              n.amount[p] <= Cardinality(Stored(p, distribution)) + (IF r = p THEN 1 ELSE 0)
<1> DEFINE n == [row EXCEPT !.amount[r] = @ + 1, !.part[r] = "EXECUTING"]
           amounts == [row.amount EXCEPT ![r] = @ + 1]
           parts == [row.part EXCEPT ![r] = "EXECUTING"]
<1>1. row \in S!Split
  BY DEF SplitRowOK, SplitRowSound
<1>2. amounts \in [Recipients -> Nat] /\ parts \in [Recipients -> S!SplitStatus]
  BY <1>1 DEF S!Split, S!SplitStatus
<1>3. \A p \in Recipients : /\ amounts[p] = row.amount[p] + (IF r = p THEN 1 ELSE 0)
                            /\ parts[p] = "COMPLETED" => row.part[p] = "COMPLETED"
  BY <1>1 DEF S!Split, S!SplitStatus
<1>0. n = [row EXCEPT !.amount = amounts, !.part = parts]
  BY <1>1 DEF S!Split
<1> HIDE DEF n, amounts, parts
<1>4. /\ n \in S!Split /\ n.status = row.status /\ n.retries = row.retries
      /\ n.part = parts /\ n.amount = amounts
  BY <1>0, <1>1, <1>2 DEF S!Split
<1>5. SplitRowSound(n, distribution, confirmed, completed)
  BY <1>1, <1>3, <1>4 DEF SplitRowOK, SplitRowSound
<1>6. ASSUME NEW p \in Recipients
      PROVE  n.amount[p] <= Cardinality(Stored(p, distribution)) + (IF r = p THEN 1 ELSE 0)
  <2>1. row.amount[p] \in Nat /\ Cardinality(Stored(p, distribution)) \in Nat
        /\ row.amount[p] <= Cardinality(Stored(p, distribution))
    BY <1>1, SubsetCount, SplitsAssumption DEF S!Split, Stored, SplitRowOK, Backed
  <2>2. n.amount[p] = row.amount[p] + (IF r = p THEN 1 ELSE 0)
    BY <1>3, <1>4
  <2> QED BY <2>1, <2>2
<1> QED BY <1>5, <1>6 DEF n

(* A split may be given a status that its distributions or milestones justify. *)
LEMMA StatusIsSound ==
  ASSUME NEW row, SplitRowOK(row, distribution, confirmed, completed),
         NEW status \in {"PARTIALLY_COMPLETED", "FAILED", "CANCELLED", "COMPLETED"},
         status = "COMPLETED" =>
           AllConfirmed(distribution, confirmed) \/ (Milestones # {} /\ completed = Milestones)
  PROVE  SplitRowOK([row EXCEPT !.status = status], distribution, confirmed, completed)
<1> DEFINE n == [row EXCEPT !.status = status]
<1>1. row \in S!Split
  BY DEF SplitRowOK, SplitRowSound
<1>2. /\ n \in S!Split /\ n.status = status /\ n.retries = row.retries
      /\ n.part = row.part /\ n.amount = row.amount
  BY <1>1 DEF S!Split, S!SplitStatus
<1> HIDE DEF n
<1>3. SplitRowOK(n, distribution, confirmed, completed)
  BY <1>2 DEF SplitRowOK, SplitRowSound, Backed
<1> QED BY <1>3 DEF n

(* A recipient may be COMPLETED once a distribution of his is confirmed. *)
LEMMA PartIsSound ==
  ASSUME NEW row, SplitRowOK(row, distribution, confirmed, completed),
         NEW r \in Recipients, NEW status \in S!SplitStatus,
         status = "COMPLETED" => Stored(r, distribution) \cap confirmed # {}
  PROVE  SplitRowOK([row EXCEPT !.part[r] = status], distribution, confirmed, completed)
<1> DEFINE n == [row EXCEPT !.part[r] = status]
           parts == [row.part EXCEPT ![r] = status]
<1>1. row \in S!Split
  BY DEF SplitRowOK, SplitRowSound
<1>2. /\ parts \in [Recipients -> S!SplitStatus] /\ n = [row EXCEPT !.part = parts]
      /\ \A p \in Recipients : parts[p] = IF p = r THEN status ELSE row.part[p]
  BY <1>1 DEF S!Split
<1> HIDE DEF n, parts
<1>3. /\ n \in S!Split /\ n.status = row.status /\ n.retries = row.retries
      /\ n.part = parts /\ n.amount = row.amount
  BY <1>1, <1>2 DEF S!Split
<1>4. SplitRowOK(n, distribution, confirmed, completed)
  BY <1>2, <1>3 DEF SplitRowOK, SplitRowSound, Backed
<1> QED BY <1>4 DEF n

(* handleDistributionFailure makes no split COMPLETED. *)
LEMMA FailureIsSound ==
  ASSUME NEW row, SplitRowOK(row, distribution, confirmed, completed)
  PROVE  SplitRowOK(S!FailureStatus(row), distribution, confirmed, completed)
<1> DEFINE n == S!FailureStatus(row)
           k == row.retries + 1
<1>1. row \in S!Split /\ k \in Nat
  BY DEF SplitRowOK, SplitRowSound, S!Split
<1>2. PICK s \in {"FAILED", "PARTIALLY_COMPLETED"} : n = [row EXCEPT !.retries = k, !.status = s]
  BY <1>1 DEF S!FailureStatus, S!Split
<1> HIDE DEF n, k
<1>3. /\ n \in S!Split /\ n.status = s /\ n.part = row.part /\ n.amount = row.amount
  BY <1>1, <1>2 DEF S!Split, S!SplitStatus
<1>4. SplitRowOK(n, distribution, confirmed, completed)
  BY <1>3 DEF SplitRowOK, SplitRowSound, Backed
<1> QED BY <1>4 DEF n

(* What the confirmation or the failure of a distribution makes of the split read. *)
LEMMA OutcomeIsSound ==
  ASSUME SplitInv, NEW r \in ChangingRow, ChangingRowOK(r, distribution, confirmed), r.pc = "read"
  PROVE  SplitRowOK(S!Outcome(r, split), distribution, confirmed, completed)
<1> DEFINE to == r.row.to
           OK(row) == SplitRowOK(row, distribution, confirmed, completed)
<1>1. OK(split) /\ to \in Recipients /\ r.d \in Distributions
  BY DEF SplitInv, ChangingRow
<1>2. CASE r.does = "confirm"
  <2> DEFINE n == [split EXCEPT !.part[to] = "COMPLETED"]
  <2>1. r.d \in Stored(to, distribution) \cap confirmed
    BY <1>1, <1>2 DEF ChangingRowOK, Stored
  <2>2. OK(n)
    BY <1>1, <2>1, PartIsSound DEF S!SplitStatus
  <2> HIDE DEF n
  <2>3. (\A p \in Recipients : n.part[p] = "COMPLETED") => AllConfirmed(distribution, confirmed)
    BY <2>2 DEF SplitRowOK, SplitRowSound, AllConfirmed
  <2>4. OK(S!CompletionStatus(n))
    BY <2>2, <2>3, StatusIsSound DEF S!CompletionStatus
  <2>5. S!Outcome(r, split) = S!CompletionStatus(n)
    BY <1>2 DEF S!Outcome, n
  <2> QED BY <2>4, <2>5
<1>3. CASE r.does = "fail"
  <2>1. S!Outcome(r, split) = S!FailureStatus([split EXCEPT !.part[to] = "FAILED"])
    BY <1>3 DEF S!Outcome
  <2>2. OK([split EXCEPT !.part[to] = "FAILED"])
    BY <1>1, PartIsSound DEF S!SplitStatus
  <2> QED BY <2>1, <2>2, FailureIsSound
<1>4. CASE r.does = "refund"
  <2>1. S!Outcome(r, split) \in {split, [split EXCEPT !.status = "PARTIALLY_COMPLETED"]}
    BY <1>4 DEF S!Outcome
  <2>2. OK([split EXCEPT !.status = "PARTIALLY_COMPLETED"])
    BY <1>1, StatusIsSound
  <2> QED BY <1>1, <2>1, <2>2
<1> QED BY <1>2, <1>3, <1>4 DEF ChangingRow

-----------------------------------------------------------------------------
(* The calls that start a request. *)
LEMMA SplitBegins ==
  ASSUME SplitInv, NEW q \in SplitRequests,
         \/ S!ExecuteSplit(q) \/ S!CancelSplit(q) \/ S!RetryFailedDistributions(q)
         \/ S!RefundSplit(q) \/ S!HandlePartialPayment(q)
         \/ \E d \in Distributions :
              \/ \E r \in Recipients : S!DistributeToRecipient(q, d, r)
              \/ S!ConfirmDistribution(q, d) \/ S!FailDistribution(q, d)
              \/ S!RefundSpecificDistribution(q, d)
         \/ \E m \in Milestones : S!TriggerMilestone(q, m) \/ S!CompleteMilestone(q, m)
  PROVE  SplitInv'
<1> USE DEF S!Begin
<1> DEFINE OK(row) == SplitRowOK(row, distribution, confirmed, completed)
<1>0. OK(split)
  BY DEF SplitInv
<1>1. ASSUME NEW row, OK(row), S!SaveLater(q, row) PROVE SplitInv'
  <2> DEFINE r == [does |-> "split", pc |-> "split", copy |-> row]
  <2>1. r \in SavingSplit /\ r.copy = row
    BY <1>1 DEF SavingSplit, SplitRowOK, SplitRowSound
  <2> HIDE DEF r
  <2>2. SplitRequestOK(r, distribution, confirmed, completed)
    BY <1>1, <2>1 DEF SplitRequestOK
  <2>3. splitRequest' = [splitRequest EXCEPT ![q] = r]
        /\ UNCHANGED <<split, distribution, milestone, confirmed, completed>>
    BY <1>1 DEF S!SaveLater, r
  <2> QED BY <2>2, <2>3, SplitMoves
<1>2. ASSUME S!ExecuteSplit(q) PROVE SplitInv'
  BY <1>0, <1>1, <1>2, ExecutedIsSound DEF S!ExecuteSplit
<1>3. ASSUME S!CancelSplit(q) PROVE SplitInv'
  BY <1>0, <1>1, <1>3, CancelledIsSound DEF S!CancelSplit
<1>4. ASSUME S!RetryFailedDistributions(q) PROVE SplitInv'
  BY <1>0, <1>1, <1>4, RetriedIsSound DEF S!RetryFailedDistributions
<1>5. ASSUME S!RefundSplit(q) \/ S!HandlePartialPayment(q) PROVE SplitInv'
  BY <1>0, <1>1, <1>5, CancelledIsSound DEF S!RefundSplit, S!HandlePartialPayment
<1>6. ASSUME NEW d \in Distributions, NEW p \in Recipients, S!DistributeToRecipient(q, d, p)
      PROVE  SplitInv'
  <2> DEFINE n == [split EXCEPT !.amount[p] = @ + 1, !.part[p] = "EXECUTING"]
             r == [does |-> "distribute", pc |-> "distribution", d |-> d,
                   row |-> [status |-> "EXECUTING", to |-> p], copy |-> n]
  <2>1. split.status = "EXECUTING"
    BY <1>6 DEF S!DistributeToRecipient
  <2>2. /\ SplitRowSound(n, distribution, confirmed, completed)
        /\ \A x \in Recipients :
             n.amount[x] <= Cardinality(Stored(x, distribution)) + (IF p = x THEN 1 ELSE 0)
    BY <1>0, <2>1, DistributedIsSound
  <2> HIDE DEF n
  <2>3. r \in Distributing /\ r.copy = n /\ r.pc = "distribution" /\ r.row.to = p
    BY <2>2 DEF Distributing, SplitRowSound
  <2> HIDE DEF r
  <2>4. DistributingOK(r, distribution, confirmed, completed)
    BY <2>2, <2>3 DEF DistributingOK
  <2>5. splitRequest' = [splitRequest EXCEPT ![q] = r]
        /\ UNCHANGED <<split, distribution, milestone, confirmed, completed>>
    BY <1>6 DEF S!DistributeToRecipient, r, n
  <2> QED BY <2>3, <2>4, <2>5, SplitMoves DEF SplitRequestOK
<1>7. ASSUME NEW d \in Distributions, NEW does \in {"confirm", "fail", "refund"},
             NEW status \in {"COMPLETED", "FAILED"}, S!ChangeDistribution(q, d, does, status)
      PROVE  SplitInv'
  <2> DEFINE n == [distribution[d] EXCEPT !.status = status]
             r == [does |-> does, pc |-> "distribution", d |-> d, copy |-> split, row |-> n]
  <2>1. distribution[d] \in S!Distribution /\ distribution[d] # S!NotStored
    BY <1>7 DEF S!ChangeDistribution, SplitInv, SplitTables
  <2>2. n \in [status : {"COMPLETED", "FAILED"}, to : Recipients] /\ n.to = distribution[d].to
    BY <2>1 DEF S!Distribution
  <2>3. split \in S!Split
    BY <1>0 DEF SplitRowOK, SplitRowSound
  <2> HIDE DEF n
  <2>4. r \in ChangingRow /\ r.copy = split /\ r.pc = "distribution" /\ r.row = n /\ r.d = d
    BY <2>2, <2>3 DEF ChangingRow
  <2> HIDE DEF r
  <2>5. ChangingRowOK(r, distribution, confirmed)
    BY <2>1, <2>2, <2>4 DEF ChangingRowOK
  <2>6. splitRequest' = [splitRequest EXCEPT ![q] = r]
        /\ UNCHANGED <<split, distribution, milestone, confirmed, completed>>
    BY <1>7 DEF S!ChangeDistribution, r, n
  <2> QED BY <1>0, <2>4, <2>5, <2>6, SplitMoves DEF SplitRequestOK
<1>8. ASSUME NEW m \in Milestones, S!TriggerMilestone(q, m) \/ S!CompleteMilestone(q, m)
      PROVE  SplitInv'
  <2> DEFINE r(does) == [does |-> does, pc |-> "milestone", m |-> m, copy |-> split]
  <2>1. PICK does \in {"trigger", "complete"} :
          splitRequest' = [splitRequest EXCEPT ![q] = r(does)]
    BY <1>8 DEF S!TriggerMilestone, S!CompleteMilestone
  <2>2. r(does) \in OnMilestone /\ r(does).copy = split
    BY <1>0 DEF OnMilestone, SplitRowOK, SplitRowSound
  <2> HIDE DEF r
  <2>3. SplitRequestOK(r(does), distribution, confirmed, completed)
    BY <1>0, <2>2 DEF SplitRequestOK
  <2> QED BY <1>8, <2>1, <2>3, SplitMoves DEF S!TriggerMilestone, S!CompleteMilestone
<1> QED
  BY <1>2, <1>3, <1>4, <1>5, <1>6, <1>7, <1>8
     DEF S!ConfirmDistribution, S!FailDistribution, S!RefundSpecificDistribution

(* A distribution is saved, and nobody stores it over another recipient's. *)
LEMMA SplitSaves ==
  ASSUME SplitInv, NEW q \in SplitRequests, S!SaveDistribution(q)
  PROVE  SplitInv'
<1> DEFINE r == splitRequest[q]
           n == [r EXCEPT !.pc = IF r.does = "distribute" THEN "split" ELSE "read"]
<1>0. /\ r # S!NoRequest /\ r.pc = "distribution"
      /\ r.does = "distribute" => distribution[r.d] = S!NotStored
      /\ distribution' = [distribution EXCEPT ![r.d] = r.row]
      /\ confirmed' = IF r.does = "confirm" THEN confirmed \cup {r.d} ELSE confirmed
      /\ splitRequest' = [splitRequest EXCEPT ![q] = n]
      /\ UNCHANGED <<split, milestone, completed>>
  BY DEF S!SaveDistribution
<1>1. /\ SplitTables /\ completed \subseteq Milestones
      /\ distribution \in [Distributions -> S!Distribution]
  BY DEF SplitInv, SplitTables
<1>2. ASSUME RowsStay(distribution, distribution'),
             SplitRequestOK(n, distribution', confirmed', completed')
      PROVE  SplitInv'
  <2>1. SplitTables'
    BY <1>0, <1>1, <1>2 DEF SplitTables, RowsStay
  <2>2. confirmed \subseteq confirmed' /\ completed \subseteq completed'
    BY <1>0
  <2> HIDE DEF n
  <2> QED BY <1>0, <1>2, <2>1, <2>2, SplitStep
<1>3. CASE r \in Distributing /\ DistributingOK(r, distribution, confirmed, completed)
  <2>1. /\ r.does = "distribute" /\ r.d \in Distributions /\ r.row.to \in Recipients
        /\ r.row \in S!Distribution /\ r.row # S!NotStored /\ r.copy \in S!Split
    BY <1>3 DEF Distributing, S!Distribution, S!NotStored
  <2>2. distribution'[r.d] = r.row /\ distribution[r.d] = S!NotStored
        /\ \A d \in Distributions \ {r.d} : distribution'[d] = distribution[d]
    BY <1>0, <1>1, <2>1
  <2>3. RowsStay(distribution, distribution')
    BY <1>0, <1>1, <2>1, <2>2 DEF RowsStay
  <2>4. n \in Distributing /\ n.pc = "split" /\ n.copy = r.copy
    BY <1>3, <2>1 DEF Distributing
  <2>5. SplitRowSound(r.copy, distribution', confirmed', completed')
    BY <1>0, <1>1, <1>3, <2>1, <2>3, SplitRowStays DEF DistributingOK
  <2>6. ASSUME NEW p \in Recipients
        PROVE  r.copy.amount[p] <= Cardinality(Stored(p, distribution'))
    <3>1. r.copy.amount[p] <= Cardinality(Stored(p, distribution))
                              + (IF r.row.to = p THEN 1 ELSE 0)
      BY <1>0, <1>3 DEF DistributingOK
    <3>2. r.copy.amount[p] \in Nat
      BY <2>1 DEF S!Split
    <3>3. CASE r.row.to = p
      <4>1. Stored(p, distribution') = Stored(p, distribution) \cup {r.d}
        BY <2>1, <2>2, <3>3 DEF Stored
      <4>2. r.d \notin Stored(p, distribution) /\ IsFiniteSet(Stored(p, distribution))
        BY <2>2, SubsetCount, SplitsAssumption DEF Stored
      <4>3. Cardinality(Stored(p, distribution')) = Cardinality(Stored(p, distribution)) + 1
        BY <4>1, <4>2, FS_AddElement
      <4> QED BY <3>1, <3>3, <4>3
    <3>4. CASE r.row.to # p
      BY <2>3, <3>1, <3>2, <3>4, StoredStay
    <3> QED BY <3>3, <3>4
  <2> HIDE DEF n
  <2>7. ASSUME NEW p \in Recipients
        PROVE  n.copy.amount[p] <= Cardinality(Stored(p, distribution'))
                   + (IF n.pc = "distribution" /\ n.row.to = p THEN 1 ELSE 0)
    <3>1. Cardinality(Stored(p, distribution')) \in Nat
      BY <2>3, StoredStay
    <3> QED BY <2>4, <2>6, <3>1
  <2>8. DistributingOK(n, distribution', confirmed', completed')
    BY <2>4, <2>5, <2>7 DEF DistributingOK
  <2> QED BY <1>2, <2>3, <2>4, <2>8 DEF SplitRequestOK
<1>4. CASE /\ r \in ChangingRow /\ ChangingRowOK(r, distribution, confirmed)
           /\ SplitRowOK(r.copy, distribution, confirmed, completed)
  <2>1. /\ r.does \in {"confirm", "fail", "refund"} /\ r.d \in Distributions
        /\ r.row \in S!Distribution /\ r.row # S!NotStored
        /\ distribution[r.d].to = r.row.to
    BY <1>4 DEF ChangingRow, ChangingRowOK, S!Distribution, S!NotStored
  <2>2. distribution'[r.d] = r.row
        /\ \A d \in Distributions \ {r.d} : distribution'[d] = distribution[d]
    BY <1>0, <1>1, <2>1
  <2>3. RowsStay(distribution, distribution')
    BY <1>0, <1>1, <2>1, <2>2 DEF RowsStay
  <2>4. n \in ChangingRow /\ n.copy = r.copy /\ n.row = r.row /\ n.d = r.d /\ n.does = r.does
    BY <1>4, <2>1 DEF ChangingRow
  <2>5. SplitRowOK(r.copy, distribution', confirmed', completed')
    BY <1>0, <1>1, <1>4, <2>3, SplitRowOKStays
  <2> HIDE DEF n
  <2>6. ChangingRowOK(n, distribution', confirmed')
    BY <1>0, <2>1, <2>2, <2>4 DEF ChangingRowOK
  <2> QED BY <1>2, <2>3, <2>4, <2>5, <2>6 DEF SplitRequestOK
<1> QED BY <1>0, <1>3, <1>4, SplitRequestAt

(* A request ends with a sound save of the split's row, or with none. *)
LEMMA SplitEnds ==
  ASSUME SplitInv, NEW q \in SplitRequests, splitRequest' = [splitRequest EXCEPT ![q] = S!NoRequest],
         UNCHANGED <<distribution, milestone, confirmed, completed>>,
         split' = split \/ SplitRowOK(split', distribution, confirmed, completed)
  PROVE  SplitInv'
<1>1. RowsStay(distribution, distribution') /\ SplitTables'
  BY DEF SplitInv, SplitTables, RowsStay
<1>2. SplitRequestOK(S!NoRequest, distribution', confirmed', completed')
  BY DEF SplitRequestOK
<1> QED BY <1>1, <1>2, SplitStep

(* The pieces of a request that touch no distribution and no milestone. *)
LEMMA SplitGoesOn ==
  ASSUME SplitInv, NEW q \in SplitRequests,
         S!ReadSplit(q) \/ S!SaveSplit(q) \/ S!ReadMilestones(q) \/ S!Throw(q)
  PROVE  SplitInv'
<1> DEFINE r == splitRequest[q]
<1>1. ASSUME S!ReadSplit(q) PROVE SplitInv'
  <2> DEFINE o == S!Outcome(r, split)
             n == [r EXCEPT !.pc = "split", !.copy = o]
  <2>1. /\ r \in ChangingRow /\ ChangingRowOK(r, distribution, confirmed) /\ r.pc = "read"
    BY <1>1, SplitRequestAt DEF S!ReadSplit
  <2>2. SplitRowOK(o, distribution, confirmed, completed)
    BY <2>1, OutcomeIsSound
  <2>3. splitRequest' = [splitRequest EXCEPT ![q] = n]
    BY <1>1 DEF S!ReadSplit, SplitInv, SplitRequestsOK
  <2> HIDE DEF o
  <2>4. o \in S!Split
    BY <2>2 DEF SplitRowOK, SplitRowSound
  <2>5. n \in ChangingRow /\ n.copy = o /\ n.row = r.row /\ n.d = r.d /\ n.pc = "split"
    BY <2>1, <2>4 DEF ChangingRow
  <2> HIDE DEF n
  <2>6. ChangingRowOK(n, distribution, confirmed)
    BY <2>1, <2>5 DEF ChangingRowOK
  <2>7. SplitRequestOK(n, distribution, confirmed, completed)
    BY <2>2, <2>5, <2>6 DEF SplitRequestOK
  <2> QED BY <1>1, <2>3, <2>7, SplitMoves DEF S!ReadSplit
<1>2. ASSUME S!SaveSplit(q) PROVE SplitInv'
  BY <1>2, SplitRequestAt, SplitEnds DEF S!SaveSplit
<1>3. ASSUME S!ReadMilestones(q) PROVE SplitInv'
  <2> DEFINE n == [r EXCEPT !.pc = "split", !.copy.status = "COMPLETED"]
             row == [r.copy EXCEPT !.status = "COMPLETED"]
  <2>1. r \in OnMilestone /\ SplitRowOK(r.copy, distribution, confirmed, completed)
    BY <1>3, SplitRequestAt DEF S!ReadMilestones
  <2>2. CASE \A m \in Milestones : milestone[m] = "COMPLETED"
    <3>1. Milestones # {} /\ completed = Milestones
      BY <2>1, <2>2 DEF SplitInv, SplitTables, OnMilestone
    <3>2. SplitRowOK(row, distribution, confirmed, completed)
      BY <2>1, <3>1, StatusIsSound
    <3>3. splitRequest' = [splitRequest EXCEPT ![q] = n]
      BY <1>3, <2>2 DEF S!ReadMilestones, SplitInv, SplitRequestsOK
    <3>4. n = [r EXCEPT !.pc = "split", !.copy = row]
      BY <2>1 DEF OnMilestone
    <3> HIDE DEF row, n
    <3>5. row \in S!Split
      BY <3>2 DEF SplitRowOK, SplitRowSound
    <3>6. n \in OnMilestone /\ n.copy = row
      BY <2>1, <3>4, <3>5 DEF OnMilestone
    <3>7. SplitRequestOK(n, distribution, confirmed, completed)
      BY <3>2, <3>6 DEF SplitRequestOK
    <3> QED BY <1>3, <3>3, <3>7, SplitMoves DEF S!ReadMilestones
  <2>3. CASE ~ \A m \in Milestones : milestone[m] = "COMPLETED"
    BY <1>3, <2>3, SplitEnds DEF S!ReadMilestones
  <2> QED BY <2>2, <2>3
<1>4. ASSUME S!Throw(q) PROVE SplitInv'
  BY <1>4, SplitEnds DEF S!Throw
<1> QED BY <1>1, <1>2, <1>3, <1>4

(* A milestone is saved. *)
LEMMA MilestoneSaves ==
  ASSUME SplitInv, NEW q \in SplitRequests, S!SaveMilestone(q)
  PROVE  SplitInv'
<1> DEFINE r == splitRequest[q]
           n == [r EXCEPT !.pc = "milestones"]
<1>1. r \in OnMilestone /\ SplitRowOK(r.copy, distribution, confirmed, completed)
  BY SplitRequestAt DEF S!SaveMilestone
<1>2. /\ completed \subseteq completed' /\ completed' \subseteq Milestones
      /\ \A m \in Milestones : milestone'[m] = "COMPLETED" => m \in completed'
      /\ milestone' \in [Milestones -> S!MilestoneStatus]
      /\ UNCHANGED <<split, distribution, confirmed>>
  BY <1>1 DEF S!SaveMilestone, OnMilestone, SplitInv, SplitTables, S!MilestoneStatus
<1>3. RowsStay(distribution, distribution') /\ SplitTables'
  BY <1>2 DEF SplitInv, SplitTables, RowsStay
<1>4. n \in OnMilestone /\ n.copy = r.copy
  BY <1>1 DEF OnMilestone
<1>5. splitRequest' = [splitRequest EXCEPT ![q] = S!NoRequest]
      \/ splitRequest' = [splitRequest EXCEPT ![q] = n]
  BY DEF S!SaveMilestone, SplitInv, SplitRequestsOK
<1> HIDE DEF n
<1>6. SplitRequestOK(n, distribution', confirmed', completed')
  <2>1. SplitRowOK(n.copy, distribution', confirmed', completed')
    BY <1>1, <1>2, <1>3, <1>4, SplitRowOKStays
  <2> QED BY <1>4, <2>1 DEF SplitRequestOK
<1>7. SplitRequestOK(S!NoRequest, distribution', confirmed', completed')
  BY DEF SplitRequestOK
<1> QED BY <1>2, <1>3, <1>5, <1>6, <1>7, SplitStep

(* Every step of the split service keeps its invariant. *)
LEMMA NextSplitInv == SplitInv /\ S!Next => SplitInv'
BY SplitBegins, SplitSaves, SplitGoesOn, MilestoneSaves DEF S!Next

(* Other parts leave the split alone. *)
LEMMA RestingSplit == SplitInv /\ UNCHANGED ofPaymentSplit => SplitInv'
BY DEF ofPaymentSplit, SplitInv, SplitTables, SplitRequestsOK

(* The inductive invariant gives every part of SplitsKeepBooks. *)
LEMMA SplitImplies == SplitInv => SplitsKeepBooks
<1> SUFFICES ASSUME SplitInv PROVE SplitsKeepBooks
  OBVIOUS
<1>1. SplitRowSound(split, distribution, confirmed, completed) /\ Backed(split, distribution)
  BY DEF SplitInv, SplitRowOK
<1>2. \A r \in Recipients : S!StoredFor(r) = Stored(r, distribution)
  BY DEF S!StoredFor, Stored
<1> QED
  BY <1>1, <1>2, SameCardinality
     DEF SplitRowSound, AllConfirmed, Backed, SplitsKeepBooks, S!CompletedMeansConfirmed,
         S!AmountsAreBacked, S!ExecutesWithinRetries

(* Whatever saves of a split's row cross: it is COMPLETED only if every recipient
   had a confirmed distribution or every milestone was completed, credits nobody
   with more than the distributions stored for him, and executes only within its
   retries (payment-split.service.ts). *)
THEOREM SplitsHold == SumSpec => []SplitsKeepBooks
<1>1. SumInit => SplitInv
  BY InitSplit DEF SumInit
<1>2. SplitInv /\ [SumNext]_sumVars => SplitInv'
  BY NextSplitInv, RestingSplit DEF SumNext, sumVars
<1>3. SplitInv => SplitsKeepBooks
  BY SplitImplies
<1> QED BY <1>1, <1>2, <1>3, PTL DEF SumSpec

-----------------------------------------------------------------------------

(***************************************************************************)
(* Refunds and disputes.  RefundInv: the hash in a row, stored or copied,  *)
(* is in the trail, a request that processes a refund has a transaction of *)
(* its own, and two requests that create refunds create different ones.    *)
(* DuplicateInv counts, for the refund and for the policy, what was done   *)
(* against the requests that did it or are about to; EvidenceInv counts    *)
(* the evidence stored against what a dispute counts and the uploads that  *)
(* have not counted theirs; ReportInv is the reconciliation's.             *)
(***************************************************************************)

RefundRow == [status : R!RefundStatus, hash : Nat]
Creating ==
  [does : {"create"}, pc : {"newPolicy", "store", "process"}, f : RefundIds, auto : BOOLEAN]
Disputing == [does : {"dispute"}, pc : {"newPolicy", "store"}]
Processing ==
  [does : {"process"}, pc : {"submit", "audit", "complete"}, f : RefundIds, copy : RefundRow,
   hash : Nat]
Changing == [does : {"change"}, pc : {"save"}, f : RefundIds, copy : RefundRow]
Counting == [does : {"upload"}, pc : {"count"}]
SavingDispute == [does : {"update", "upload"}, pc : {"saveDispute"}, copy : R!Dispute]

Pending == {"none", "PENDING"}
Audited(f, row, tr) == row.hash # R!NoHash => <<f, row.hash>> \in tr
StillCreates(r) == r.does = "create" /\ r.pc # "process"

ProcessingOK(r, rows, tr, tx) ==
  /\ Audited(r.f, r.copy, tr)
  /\ rows[r.f] # R!NoRefund
  /\ r.hash \in 1..tx
  /\ r.pc \in {"audit", "complete"} => rows[r.f].status \notin Pending
  /\ r.pc = "complete" => <<r.f, r.hash>> \in tr

ChangingOK(r, rows, tr) ==
  /\ Audited(r.f, r.copy, tr)
  /\ r.copy.status \in {"FAILED", "REVERSED"}
  /\ rows[r.f] # R!NoRefund

RefundRequestOK(r, rows, tr, tx) ==
  \/ r = R!NoRefundRequest
  \/ r \in Creating /\ (StillCreates(r) => rows[r.f] = R!NoRefund)
  \/ r \in Disputing
  \/ r \in Processing /\ ProcessingOK(r, rows, tr, tx)
  \/ r \in Changing /\ ChangingOK(r, rows, tr)
  \/ r \in Counting
  \/ r \in SavingDispute

RefundRows ==
  /\ refund \in [RefundIds -> RefundRow \cup {R!NoRefund}]
  /\ \A f \in RefundIds : Audited(f, refund[f], trail)
TrailOK ==
  /\ transactions \in Nat
  /\ trail \subseteq RefundIds \X (1..transactions)
  /\ IsFiniteSet(trail)
OneCreates ==
  \A p, q \in RefundRequests :
    p # q /\ StillCreates(refundRequest[p]) /\ StillCreates(refundRequest[q])
      => refundRequest[p].f # refundRequest[q].f
RefundRequestsOK ==
  /\ refundRequest = [q \in RefundRequests |-> refundRequest[q]]
  /\ \A q \in RefundRequests : RefundRequestOK(refundRequest[q], refund, trail, transactions)
RefundInv == RefundRows /\ TrailOK /\ RefundRequestsOK /\ OneCreates /\ dispute \in R!Dispute

(* A row of a refund may be saved. *)
MaySave(q, f, row) ==
  /\ f \in RefundIds /\ row \in RefundRow
  /\ \A p \in RefundRequests \ {q} : StillCreates(refundRequest[p]) => refundRequest[p].f # f
  /\ row.status = "PENDING" => refund[f] = R!NoRefund

(* Nothing is stored, in the trail or under way at first. *)
LEMMA InitRefund == R!Init => RefundInv
  BY FS_EmptySet DEF R!Init, RefundInv, RefundRows, TrailOK, RefundRequestsOK, RefundRequestOK,
     OneCreates, StillCreates, Audited, R!NoRefund, R!NoRefundRequest, R!NoHash, R!Dispute

(* What is known of a request that another one leaves alone. *)
LEMMA OthersStayOK ==
  ASSUME NEW p \in RefundRequests, RefundInv, TrailOK', trail \subseteq trail',
         transactions <= transactions', NEW q,
         p # q,
         \/ refund' = refund
         \/ \E f, row : MaySave(q, f, row) /\ refund' = [refund EXCEPT ![f] = row]
  PROVE  RefundRequestOK(refundRequest[p], refund', trail', transactions')
<1> DEFINE r == refundRequest[p]
<1>1. RefundRequestOK(r, refund, trail, transactions)
  BY DEF RefundInv, RefundRequestsOK
<1>2. refund \in [RefundIds -> RefundRow \cup {R!NoRefund}]
  BY DEF RefundInv, RefundRows
<1>3. ASSUME NEW f \in RefundIds, refund[f] # R!NoRefund PROVE refund'[f] # R!NoRefund
  BY <1>2, <1>3 DEF MaySave, RefundRow, R!RefundStatus, R!NoRefund
<1>4. ASSUME NEW f \in RefundIds, refund[f].status \notin Pending
      PROVE  refund'[f].status \notin Pending
  BY <1>2, <1>4 DEF MaySave, RefundRow, R!RefundStatus, R!NoRefund, Pending
<1>5. ASSUME r \in Creating, StillCreates(r), refund[r.f] = R!NoRefund
      PROVE  refund'[r.f] = R!NoRefund
  BY <1>2, <1>5 DEF MaySave, Creating
<1>6. ASSUME r \in Processing, ProcessingOK(r, refund, trail, transactions)
      PROVE  ProcessingOK(r, refund', trail', transactions')
  BY <1>3, <1>4, <1>6 DEF ProcessingOK, Processing, Audited, TrailOK, RefundInv
<1>7. ASSUME r \in Changing, ChangingOK(r, refund, trail)
      PROVE  ChangingOK(r, refund', trail')
  BY <1>3, <1>7 DEF ChangingOK, Changing, Audited
<1> HIDE DEF r
<1> QED BY <1>1, <1>5, <1>6, <1>7 DEF RefundRequestOK, r

(* One request moves, and saves at most one row that it may save. *)
LEMMA RefundStep ==
  ASSUME RefundInv, NEW q \in RefundRequests, NEW r,
         refundRequest' = [refundRequest EXCEPT ![q] = r],
         RefundRequestOK(r, refund', trail', transactions'),
         StillCreates(r) => \A p \in RefundRequests \ {q} :
                              StillCreates(refundRequest[p]) => refundRequest[p].f # r.f,
         TrailOK', trail \subseteq trail', transactions <= transactions', dispute' \in R!Dispute,
         \/ refund' = refund
         \/ \E f, row : /\ MaySave(q, f, row) /\ refund' = [refund EXCEPT ![f] = row]
                        /\ Audited(f, row, trail')
  PROVE  RefundInv'
<1>1. RefundRows'
  <2>1. CASE refund' = refund
    BY <2>1 DEF RefundInv, RefundRows, Audited
  <2>2. ASSUME NEW f, NEW row, MaySave(q, f, row), refund' = [refund EXCEPT ![f] = row],
               Audited(f, row, trail')
        PROVE  RefundRows'
    BY <2>2 DEF RefundInv, RefundRows, Audited, MaySave
  <2> QED BY <2>1, <2>2
<1>2. RefundRequestsOK'
  <2>1. ASSUME NEW p \in RefundRequests
        PROVE  RefundRequestOK(refundRequest'[p], refund', trail', transactions')
    <3>1. CASE p = q
      BY <3>1 DEF RefundInv, RefundRequestsOK
    <3>2. CASE p # q
      <4>1. refundRequest'[p] = refundRequest[p]
        BY <3>2 DEF RefundInv, RefundRequestsOK
      <4> QED BY <3>2, <4>1, OthersStayOK
    <3> QED BY <3>1, <3>2
  <2> QED BY <2>1 DEF RefundInv, RefundRequestsOK
<1>3. OneCreates'
  BY DEF RefundInv, OneCreates, RefundRequestsOK
<1> QED BY <1>1, <1>2, <1>3 DEF RefundInv

(* A request that ends without a save keeps the invariant. *)
LEMMA RefundIdles ==
  ASSUME RefundInv, NEW q \in RefundRequests, R!Done(q), UNCHANGED <<refund, trail, transactions>>,
         dispute' \in R!Dispute
  PROVE  RefundInv'
<1>1. RefundRequestOK(R!NoRefundRequest, refund', trail', transactions')
  BY DEF RefundRequestOK
<1>2. ~ StillCreates(R!NoRefundRequest)
  BY DEF StillCreates, R!NoRefundRequest
<1>3. TrailOK' /\ trail \subseteq trail' /\ transactions <= transactions'
  BY DEF RefundInv, TrailOK
<1> QED BY <1>1, <1>2, <1>3, RefundStep DEF R!Done

(* A request moves and no row, trail or transaction changes. *)
RefundMoves(q, r) ==
  /\ refundRequest' = [refundRequest EXCEPT ![q] = r]
  /\ RefundRequestOK(r, refund, trail, transactions)
  /\ StillCreates(r) => \A p \in RefundRequests \ {q} :
                          StillCreates(refundRequest[p]) => refundRequest[p].f # r.f
  /\ UNCHANGED <<refund, dispute, trail, transactions>>

(* A request that only moves keeps the invariant. *)
LEMMA RefundMovesKeep ==
  ASSUME RefundInv, NEW q \in RefundRequests, NEW r, RefundMoves(q, r)
  PROVE  RefundInv'
<1>1. TrailOK' /\ trail \subseteq trail' /\ transactions <= transactions'
  BY DEF RefundInv, TrailOK, RefundMoves
<1>2. RefundRequestOK(r, refund', trail', transactions')
  BY DEF RefundMoves
<1>3. dispute' \in R!Dispute
  BY DEF RefundInv, RefundMoves
<1> QED BY <1>1, <1>2, <1>3, RefundStep DEF RefundMoves

(* What a request is, by where it is. *)
LEMMA RefundRequestAt ==
  ASSUME RefundInv, NEW q \in RefundRequests
  PROVE  LET r == refundRequest[q] IN
         /\ R!At(q, "newPolicy") => r \in Creating \cup Disputing
         /\ R!At(q, "store") => r \in Creating \cup Disputing
         /\ R!At(q, "process") => r \in Creating
         /\ R!At(q, "submit") \/ R!At(q, "audit") \/ R!At(q, "complete") =>
              r \in Processing /\ ProcessingOK(r, refund, trail, transactions)
         /\ R!At(q, "save") => r \in Changing /\ ChangingOK(r, refund, trail)
         /\ R!At(q, "count") => r \in Counting
         /\ R!At(q, "saveDispute") => r \in SavingDispute
         /\ r \in Creating /\ StillCreates(r) => refund[r.f] = R!NoRefund
<1> DEFINE r == refundRequest[q]
<1>1. RefundRequestOK(r, refund, trail, transactions)
  BY DEF RefundInv, RefundRequestsOK
<1>2. R!At(q, "newPolicy") \/ R!At(q, "store") => r \in Creating \cup Disputing
  BY <1>1 DEF R!At, RefundRequestOK, Creating, Disputing, Processing, Changing, Counting, SavingDispute
<1>3. R!At(q, "process") => r \in Creating
  BY <1>1 DEF R!At, RefundRequestOK, Creating, Disputing, Processing, Changing, Counting, SavingDispute
<1>4. R!At(q, "submit") \/ R!At(q, "audit") \/ R!At(q, "complete") =>
        r \in Processing /\ ProcessingOK(r, refund, trail, transactions)
  BY <1>1 DEF R!At, RefundRequestOK, Creating, Disputing, Processing, Changing, Counting, SavingDispute
<1>5. R!At(q, "save") => r \in Changing /\ ChangingOK(r, refund, trail)
  BY <1>1 DEF R!At, RefundRequestOK, Creating, Disputing, Processing, Changing, Counting, SavingDispute
<1>6. R!At(q, "count") => r \in Counting
  BY <1>1 DEF R!At, RefundRequestOK, Creating, Disputing, Processing, Changing, Counting, SavingDispute
<1>7. R!At(q, "saveDispute") => r \in SavingDispute
  BY <1>1 DEF R!At, RefundRequestOK, Creating, Disputing, Processing, Changing, Counting, SavingDispute
<1>8. r \in Creating /\ StillCreates(r) => refund[r.f] = R!NoRefund
  BY <1>1 DEF StillCreates, RefundRequestOK, Creating, Disputing, Processing, Changing, Counting,
              SavingDispute, R!NoRefundRequest
<1> QED BY <1>2, <1>3, <1>4, <1>5, <1>6, <1>7, <1>8

(* processRefund reads a PENDING row and submits a new transaction. *)
LEMMA BeginsProcessing ==
  ASSUME RefundInv, NEW q \in RefundRequests, NEW f \in RefundIds, refund[f].status = "PENDING",
         refundRequest' = [refundRequest EXCEPT ![q] = R!Processing(f)],
         transactions' = transactions + 1, UNCHANGED <<refund, dispute, trail>>
  PROVE  RefundInv'
<1> DEFINE r == [does |-> "process", pc |-> "submit", f |-> f, copy |-> refund[f],
                 hash |-> transactions + 1]
<1>1. refund[f] \in RefundRow /\ Audited(f, refund[f], trail) /\ refund[f] # R!NoRefund
  BY DEF RefundInv, RefundRows, R!NoRefund
<1>2. /\ transactions \in Nat /\ transactions' \in Nat /\ TrailOK'
      /\ trail \subseteq trail' /\ transactions <= transactions' /\ dispute' \in R!Dispute
  BY DEF RefundInv, TrailOK
<1>3. r \in Processing /\ ProcessingOK(r, refund', trail', transactions') /\ ~ StillCreates(r)
  BY <1>1, <1>2 DEF Processing, ProcessingOK, StillCreates
<1>4. RefundRequestOK(r, refund', trail', transactions')
  BY <1>3 DEF RefundRequestOK
<1>5. refundRequest' = [refundRequest EXCEPT ![q] = r]
  BY DEF R!Processing
<1> HIDE DEF r
<1> QED BY <1>2, <1>3, <1>4, <1>5, RefundStep

(* The calls that start a request. *)
LEMMA RefundBegins ==
  ASSUME RefundInv, NEW q \in RefundRequests,
         \/ \E f \in RefundIds :
              \/ \E auto \in BOOLEAN : R!CreateRefund(q, f, auto)
              \/ R!ProcessRefund(q, f) \/ R!FailRefund(q, f) \/ R!ReverseRefund(q, f)
         \/ R!CreateDispute(q)
         \/ \E status \in {"RESPONDING", "WON"} : R!UpdateDispute(q, status)
         \/ \E e \in EvidenceIds : R!UploadEvidence(q, e)
  PROVE  RefundInv'
<1> USE DEF R!Begin
<1>1. ASSUME NEW f \in RefundIds, NEW auto \in BOOLEAN, R!CreateRefund(q, f, auto)
      PROVE  RefundInv'
  <2> DEFINE r == [does |-> "create", pc |-> R!AfterPolicy, f |-> f, auto |-> auto]
  <2>1. r \in Creating
    BY DEF Creating, R!AfterPolicy
  <2>2. RefundMoves(q, r)
    BY <1>1, <2>1 DEF R!CreateRefund, RefundMoves, RefundRequestOK, StillCreates
  <2> QED BY <2>2, RefundMovesKeep
<1>2. ASSUME NEW f \in RefundIds, R!ProcessRefund(q, f) PROVE RefundInv'
  BY <1>2, BeginsProcessing DEF R!ProcessRefund
<1>3. ASSUME NEW f \in RefundIds, NEW status \in {"FAILED", "REVERSED"},
             refund[f] # R!NoRefund, R!Change(q, f, status)
      PROVE  RefundInv'
  <2> DEFINE row == [refund[f] EXCEPT !.status = status]
             r == [does |-> "change", pc |-> "save", f |-> f, copy |-> row]
  <2>1. refund[f] \in RefundRow /\ Audited(f, refund[f], trail)
    BY <1>3 DEF RefundInv, RefundRows
  <2>2. row \in RefundRow /\ row.status = status /\ row.hash = refund[f].hash
    BY <2>1 DEF RefundRow, R!RefundStatus
  <2>3. r \in Changing /\ ChangingOK(r, refund, trail)
    BY <1>3, <2>1, <2>2 DEF Changing, ChangingOK, Audited
  <2>4. RefundMoves(q, r)
    BY <1>3, <2>3 DEF R!Change, RefundMoves, RefundRequestOK, StillCreates
  <2> QED BY <2>4, RefundMovesKeep
<1>4. ASSUME R!CreateDispute(q) PROVE RefundInv'
  <2> DEFINE r == [does |-> "dispute", pc |-> R!AfterPolicy]
  <2>1. r \in Disputing
    BY DEF Disputing, R!AfterPolicy
  <2>2. RefundMoves(q, r)
    BY <1>4, <2>1 DEF R!CreateDispute, RefundMoves, RefundRequestOK, StillCreates
  <2> QED BY <2>2, RefundMovesKeep
<1>5. ASSUME NEW status \in {"RESPONDING", "WON"}, R!UpdateDispute(q, status) PROVE RefundInv'
  <2> DEFINE row == [dispute EXCEPT !.status = status, !.resolvedAt = @ \/ status \in R!Resolved]
             r == [does |-> "update", pc |-> "saveDispute", copy |-> row]
  <2>1. dispute \in R!Dispute /\ dispute # R!NoDispute
    BY <1>5 DEF R!UpdateDispute, RefundInv
  <2>2. row \in R!Dispute
    BY <2>1 DEF R!Dispute, R!DisputeStatus, R!Resolved
  <2>3. RefundMoves(q, r)
    BY <1>5, <2>2 DEF R!UpdateDispute, RefundMoves, RefundRequestOK, SavingDispute, StillCreates
  <2> QED BY <2>3, RefundMovesKeep
<1>6. ASSUME NEW e \in EvidenceIds, R!UploadEvidence(q, e) PROVE RefundInv'
  <2> DEFINE r == [does |-> "upload", pc |-> "count"]
  <2>1. RefundMoves(q, r)
    BY <1>6 DEF R!UploadEvidence, RefundMoves, RefundRequestOK, Counting, StillCreates
  <2> QED BY <2>1, RefundMovesKeep
<1> QED
  BY <1>1, <1>2, <1>3, <1>4, <1>5, <1>6
     DEF R!FailRefund, R!ReverseRefund, R!NoRefund

(* The pieces of a request that save no refund. *)
LEMMA RefundGoesOn ==
  ASSUME RefundInv, NEW q \in RefundRequests,
         \/ R!SavePolicy(q) \/ R!AutoProcess(q) \/ R!AuditTransaction(q)
         \/ R!CountEvidence(q) \/ R!SaveDispute(q) \/ R!Throw(q)
  PROVE  RefundInv'
<1> DEFINE r == refundRequest[q]
<1>0. dispute \in R!Dispute
  BY DEF RefundInv
<1>1. ASSUME R!SavePolicy(q) PROVE RefundInv'
  <2> DEFINE n == [r EXCEPT !.pc = "store"]
  <2>1. r \in Creating \cup Disputing /\ r.pc = "newPolicy"
    BY <1>1, RefundRequestAt DEF R!SavePolicy, R!At
  <2>2. n \in Creating \cup Disputing /\ n.does = r.does /\ (r \in Creating => n.f = r.f)
    BY <2>1 DEF Creating, Disputing
  <2>3. ASSUME r \in Creating
        PROVE  StillCreates(r) /\ refund[n.f] = R!NoRefund /\ n \in Creating
    BY <2>1, <2>2, <2>3, RefundRequestAt DEF StillCreates, Creating
  <2>4. StillCreates(n) => r \in Creating
    BY <2>1, <2>2 DEF StillCreates, Disputing
  <2>5. RefundRequestOK(n, refund, trail, transactions)
    BY <2>1, <2>2, <2>3 DEF RefundRequestOK, Creating, Disputing
  <2>6. refundRequest' = [refundRequest EXCEPT ![q] = n]
        /\ UNCHANGED <<refund, dispute, trail, transactions>>
    BY <1>1 DEF R!SavePolicy, R!Goto
  <2>7. StillCreates(n) => \A p \in RefundRequests \ {q} :
                            StillCreates(refundRequest[p]) => refundRequest[p].f # n.f
    BY <2>2, <2>3, <2>4 DEF RefundInv, OneCreates
  <2> HIDE DEF n
  <2> QED BY <2>5, <2>6, <2>7, RefundMovesKeep DEF RefundMoves
<1>2. ASSUME R!AutoProcess(q) PROVE RefundInv'
  <2>1. r.f \in RefundIds
    BY <1>2, RefundRequestAt DEF R!AutoProcess, Creating
  <2> QED BY <1>0, <1>2, <2>1, BeginsProcessing, RefundIdles DEF R!AutoProcess
<1>3. ASSUME R!AuditTransaction(q) PROVE RefundInv'
  <2> DEFINE n == [r EXCEPT !.pc = "complete"]
  <2>1. /\ r \in Processing /\ ProcessingOK(r, refund, trail, transactions) /\ r.pc = "audit"
    BY <1>3, RefundRequestAt DEF R!AuditTransaction, R!At
  <2>2. n \in Processing /\ n.pc = "complete" /\ n.f = r.f /\ n.copy = r.copy /\ n.hash = r.hash
    BY <2>1 DEF Processing
  <2>3. /\ refundRequest' = [refundRequest EXCEPT ![q] = n] /\ trail' = trail \cup {<<r.f, r.hash>>}
        /\ UNCHANGED <<refund, dispute, transactions>>
    BY <1>3 DEF R!AuditTransaction, R!Goto
  <2>4. /\ TrailOK' /\ trail \subseteq trail' /\ transactions <= transactions'
        /\ dispute' \in R!Dispute
    <3>1. /\ IsFiniteSet(trail) /\ trail \subseteq RefundIds \X (1..transactions)
          /\ transactions \in Nat
      BY DEF RefundInv, TrailOK
    <3>2. IsFiniteSet(trail')
      BY <2>3, <3>1, FS_AddElement
    <3>3. r.f \in RefundIds /\ r.hash \in 1..transactions
      BY <2>1 DEF Processing, ProcessingOK
    <3> QED BY <1>0, <2>3, <3>1, <3>2, <3>3 DEF TrailOK
  <2>5. ProcessingOK(n, refund', trail', transactions')
    BY <2>1, <2>2, <2>3 DEF ProcessingOK, Audited
  <2>6. RefundRequestOK(n, refund', trail', transactions') /\ ~ StillCreates(n)
    BY <2>2, <2>5 DEF RefundRequestOK, StillCreates, Processing
  <2> HIDE DEF n
  <2> QED BY <2>3, <2>4, <2>6, RefundStep
<1>4. ASSUME R!CountEvidence(q) PROVE RefundInv'
  <2> DEFINE row == [dispute EXCEPT !.evidenceCount = @ + 1]
             n == [does |-> "upload", pc |-> "saveDispute", copy |-> row]
  <2>1. CASE dispute = R!NoDispute
    BY <1>0, <1>4, <2>1, RefundIdles DEF R!CountEvidence
  <2>2. CASE dispute # R!NoDispute
    <3>1. row \in R!Dispute
      BY <1>0, <2>2 DEF R!Dispute
    <3>2. RefundMoves(q, n)
      BY <1>4, <2>2, <3>1 DEF R!CountEvidence, RefundMoves, RefundRequestOK, SavingDispute,
                               StillCreates
    <3> QED BY <3>2, RefundMovesKeep
  <2> QED BY <2>1, <2>2
<1>5. ASSUME R!SaveDispute(q) PROVE RefundInv'
  <2>1. r.copy \in R!Dispute
    BY <1>5, RefundRequestAt DEF R!SaveDispute, SavingDispute
  <2> QED BY <1>5, <2>1, RefundIdles DEF R!SaveDispute
<1>6. ASSUME R!Throw(q) PROVE RefundInv'
  BY <1>0, <1>6, RefundIdles DEF R!Throw
<1> QED BY <1>1, <1>2, <1>3, <1>4, <1>5, <1>6

(* Nobody creates a refund that is stored. *)
LEMMA StoredIsNotCreated ==
  ASSUME RefundInv, NEW f, refund[f] # R!NoRefund, NEW p \in RefundRequests,
         StillCreates(refundRequest[p])
  PROVE  refundRequest[p].f # f
<1>1. RefundRequestOK(refundRequest[p], refund, trail, transactions)
  BY DEF RefundInv, RefundRequestsOK
<1> QED BY <1>1 DEF RefundRequestOK, StillCreates, Disputing, Processing, Changing, Counting,
                    SavingDispute, R!NoRefundRequest

(* The pieces that save a refund's row. *)
LEMMA RefundSaves ==
  ASSUME RefundInv, NEW q \in RefundRequests,
         R!Store(q) \/ R!SaveProcessing(q) \/ R!SaveCompleted(q) \/ R!SaveRefund(q)
  PROVE  RefundInv'
<1> DEFINE r == refundRequest[q]
<1>0. /\ dispute \in R!Dispute /\ refund \in [RefundIds -> RefundRow \cup {R!NoRefund}]
      /\ transactions \in Nat
  BY DEF RefundInv, RefundRows, TrailOK
<1>1. ASSUME NEW n, NEW f, NEW row, MaySave(q, f, row), Audited(f, row, trail),
             refund' = [refund EXCEPT ![f] = row],
             refundRequest' = [refundRequest EXCEPT ![q] = n], ~ StillCreates(n),
             RefundRequestOK(n, refund', trail, transactions),
             UNCHANGED <<dispute, trail, transactions>>
      PROVE  RefundInv'
  <2>1. /\ TrailOK' /\ trail \subseteq trail' /\ transactions <= transactions'
        /\ dispute' \in R!Dispute
    BY <1>0, <1>1 DEF RefundInv, TrailOK
  <2>2. RefundRequestOK(n, refund', trail', transactions') /\ Audited(f, row, trail')
    BY <1>1
  <2> QED BY <1>1, <2>1, <2>2, RefundStep
<1>2. ASSUME NEW f, NEW row, MaySave(q, f, row), Audited(f, row, trail),
             refund' = [refund EXCEPT ![f] = row], R!Done(q),
             UNCHANGED <<dispute, trail, transactions>>
      PROVE  RefundInv'
  BY <1>1, <1>2 DEF R!Done, StillCreates, RefundRequestOK, R!NoRefundRequest
<1>3. ASSUME R!Store(q), r.does = "create" PROVE RefundInv'
  <2> DEFINE row == [status |-> "PENDING", hash |-> R!NoHash]
             n == [r EXCEPT !.pc = "process"]
  <2>1. r \in Creating /\ r.pc = "store" /\ StillCreates(r) /\ refund[r.f] = R!NoRefund
    BY <1>3, RefundRequestAt DEF R!Store, R!At, Disputing, StillCreates
  <2>2. r.f \in RefundIds /\ n \in Creating /\ ~ StillCreates(n)
    BY <2>1 DEF Creating, StillCreates
  <2>3. MaySave(q, r.f, row) /\ Audited(r.f, row, trail)
    BY <2>1, <2>2 DEF MaySave, Audited, RefundRow, R!RefundStatus, R!NoHash, RefundInv, OneCreates
  <2>4. /\ refund' = [refund EXCEPT ![r.f] = row]
        /\ refundRequest' = [refundRequest EXCEPT ![q] = n] \/ R!Done(q)
        /\ UNCHANGED <<dispute, trail, transactions>>
    BY <1>3 DEF R!Store, R!Goto
  <2>5. RefundRequestOK(n, refund', trail, transactions)
    BY <2>2 DEF RefundRequestOK
  <2> HIDE DEF n, row
  <2> QED BY <1>1, <1>2, <2>2, <2>3, <2>4, <2>5
<1>4. ASSUME R!Store(q), r.does = "dispute" PROVE RefundInv'
  <2>1. dispute' \in R!Dispute
    <3>1. R!NoDispute \in [status : {"none"}, resolvedAt : BOOLEAN, evidenceCount : Nat]
      BY DEF R!NoDispute
    <3>2. ASSUME NEW row \in [status : {"none"}, resolvedAt : BOOLEAN, evidenceCount : Nat]
          PROVE  [row EXCEPT !.status = "OPEN"] \in R!Dispute
      BY DEF R!Dispute, R!DisputeStatus
    <3> QED BY <1>4, <3>1, <3>2 DEF R!Store
  <2> QED BY <1>4, <2>1, RefundIdles DEF R!Store
<1>5. ASSUME R!SaveProcessing(q) PROVE RefundInv'
  <2> DEFINE row == [r.copy EXCEPT !.status = "PROCESSING"]
             n == [r EXCEPT !.pc = "audit"]
  <2>1. /\ r \in Processing /\ ProcessingOK(r, refund, trail, transactions)
    BY <1>5, RefundRequestAt DEF R!SaveProcessing
  <2>2. /\ n \in Processing /\ n.pc = "audit" /\ n.f = r.f /\ n.copy = r.copy /\ n.hash = r.hash
        /\ r.f \in RefundIds /\ r.copy \in RefundRow
    BY <2>1 DEF Processing
  <2>3. row \in RefundRow /\ row.status = "PROCESSING" /\ row.hash = r.copy.hash
    BY <2>2 DEF RefundRow, R!RefundStatus
  <2>4. MaySave(q, r.f, row) /\ Audited(r.f, row, trail)
    BY <2>1, <2>2, <2>3, StoredIsNotCreated DEF MaySave, Audited, ProcessingOK
  <2>5. /\ refund' = [refund EXCEPT ![r.f] = row]
        /\ refundRequest' = [refundRequest EXCEPT ![q] = n]
        /\ UNCHANGED <<dispute, trail, transactions>>
    BY <1>5 DEF R!SaveProcessing, R!Goto
  <2>6. refund'[r.f].status = "PROCESSING"
    BY <1>0, <2>2, <2>3, <2>5
  <2>7. ProcessingOK(n, refund', trail, transactions)
    BY <2>1, <2>2, <2>6 DEF ProcessingOK, Pending, R!NoRefund
  <2>8. RefundRequestOK(n, refund', trail, transactions) /\ ~ StillCreates(n)
    BY <2>2, <2>7 DEF RefundRequestOK, Processing, StillCreates
  <2> HIDE DEF n, row
  <2> QED BY <1>1, <2>4, <2>5, <2>8
<1>6. ASSUME R!SaveCompleted(q) PROVE RefundInv'
  <2> DEFINE row == [status |-> "COMPLETED", hash |-> r.hash]
  <2>1. /\ r \in Processing /\ ProcessingOK(r, refund, trail, transactions) /\ r.pc = "complete"
    BY <1>6, RefundRequestAt DEF R!SaveCompleted, R!At
  <2>2. r.f \in RefundIds /\ row \in RefundRow
    BY <2>1 DEF Processing, RefundRow, R!RefundStatus
  <2>3. MaySave(q, r.f, row) /\ Audited(r.f, row, trail)
    BY <2>1, <2>2, StoredIsNotCreated DEF MaySave, Audited, ProcessingOK
  <2> QED BY <1>2, <1>6, <2>3 DEF R!SaveCompleted
<1>7. ASSUME R!SaveRefund(q) PROVE RefundInv'
  <2>1. r \in Changing /\ ChangingOK(r, refund, trail)
    BY <1>7, RefundRequestAt DEF R!SaveRefund
  <2>2. r.f \in RefundIds /\ r.copy \in RefundRow
    BY <2>1 DEF Changing
  <2>3. MaySave(q, r.f, r.copy) /\ Audited(r.f, r.copy, trail)
    BY <2>1, <2>2, StoredIsNotCreated DEF MaySave, ChangingOK
  <2> QED BY <1>2, <1>7, <2>3 DEF R!SaveRefund
<1> QED BY <1>3, <1>4, <1>5, <1>6, <1>7 DEF R!Store

(* Every step keeps the rows, the trail and the requests sound. *)
LEMMA NextRefundInv == RefundInv /\ R!Next => RefundInv'
<1>1. RefundInv /\ R!ReconcileWithProcessor => RefundInv'
  BY DEF R!ReconcileWithProcessor, RefundInv, RefundRows, TrailOK, RefundRequestsOK, OneCreates
<1> QED BY <1>1, RefundBegins, RefundGoesOn, RefundSaves DEF R!Next

-----------------------------------------------------------------------------
Audits(r, f) == r.does = "process" /\ r.pc \in {"submit", "audit"} /\ r.f = f
MakesPolicy(r) == r \in Creating \cup Disputing /\ r.pc = "newPolicy"

(* What one step of a request does to what is counted. *)
Recounts(q, r) ==
  LET old == refundRequest[q] IN
  /\ refundRequest' = [refundRequest EXCEPT ![q] = r]
  /\ \A f \in RefundIds : Audits(r, f) =>
       trail' = trail /\ (Audits(old, f) \/ (refund[f].status = "PENDING" /\ refund' = refund))
  /\ \/ trail' = trail
     \/ \E f, h : /\ trail' = trail \cup {<<f, h>>} /\ refund' = refund
                  /\ Audits(old, f) /\ refund[f].status \notin Pending
  /\ MakesPolicy(r) => policies = 0 /\ policies' = 0
  /\ policies' = policies \/ (policies' = policies + 1 /\ MakesPolicy(old))
  /\ \A f \in RefundIds : refund[f].status \notin Pending => refund'[f].status \notin Pending

(* A step that neither processes a refund nor makes a policy counts nothing. *)
LEMMA QuietRecounts ==
  ASSUME NEW q \in RefundRequests, NEW r, refundRequest' = [refundRequest EXCEPT ![q] = r],
         r.does # "process", ~ MakesPolicy(r), UNCHANGED <<refund, trail, policies>>
  PROVE  \E n : Recounts(q, n)
BY DEF Recounts, Audits

(* A call that starts counts only a refund that is still PENDING. *)
LEMMA BeginRecounts ==
  ASSUME RefundInv, NEW q \in RefundRequests,
         \/ \E f \in RefundIds :
              \/ \E auto \in BOOLEAN : R!CreateRefund(q, f, auto)
              \/ R!ProcessRefund(q, f) \/ R!FailRefund(q, f) \/ R!ReverseRefund(q, f)
         \/ R!CreateDispute(q)
         \/ \E status \in {"RESPONDING", "WON"} : R!UpdateDispute(q, status)
         \/ \E e \in EvidenceIds : R!UploadEvidence(q, e)
  PROVE  \E r : Recounts(q, r)
<1> USE DEF R!Begin, Recounts, Audits, MakesPolicy, Creating, Disputing
<1>1. ASSUME NEW f \in RefundIds, NEW auto \in BOOLEAN, R!CreateRefund(q, f, auto)
      PROVE  Recounts(q, [does |-> "create", pc |-> R!AfterPolicy, f |-> f, auto |-> auto])
  BY <1>1 DEF R!CreateRefund, R!AfterPolicy
<1>2. ASSUME NEW f \in RefundIds, R!ProcessRefund(q, f)
      PROVE  Recounts(q, R!Processing(f))
  BY <1>2 DEF R!ProcessRefund, R!Processing
<1>3. ASSUME NEW f \in RefundIds, NEW status, R!Change(q, f, status)
      PROVE  \E r : Recounts(q, r)
  <2> DEFINE r == [does |-> "change", pc |-> "save", f |-> f,
                   copy |-> [refund[f] EXCEPT !.status = status]]
  <2>1. r.does # "process" /\ ~ MakesPolicy(r)
    OBVIOUS
  <2> HIDE DEF r
  <2>2. refundRequest' = [refundRequest EXCEPT ![q] = r] /\ UNCHANGED <<refund, trail, policies>>
    BY <1>3 DEF R!Change, r
  <2> QED BY <2>1, <2>2, QuietRecounts
<1>4. ASSUME R!CreateDispute(q) PROVE Recounts(q, [does |-> "dispute", pc |-> R!AfterPolicy])
  BY <1>4 DEF R!CreateDispute, R!AfterPolicy
<1>5. ASSUME NEW status, R!UpdateDispute(q, status) PROVE \E r : Recounts(q, r)
  <2> DEFINE r == [does |-> "update", pc |-> "saveDispute",
                   copy |-> [dispute EXCEPT !.status = status,
                                            !.resolvedAt = @ \/ status \in R!Resolved]]
  <2>1. r.does # "process" /\ ~ MakesPolicy(r)
    OBVIOUS
  <2> HIDE DEF r
  <2>2. refundRequest' = [refundRequest EXCEPT ![q] = r] /\ UNCHANGED <<refund, trail, policies>>
    BY <1>5 DEF R!UpdateDispute, r
  <2> QED BY <2>1, <2>2, QuietRecounts
<1>6. ASSUME NEW e, R!UploadEvidence(q, e) PROVE \E r : Recounts(q, r)
  <2> DEFINE r == [does |-> "upload", pc |-> "count"]
  <2>1. r.does # "process" /\ ~ MakesPolicy(r)
    OBVIOUS
  <2> HIDE DEF r
  <2>2. refundRequest' = [refundRequest EXCEPT ![q] = r] /\ UNCHANGED <<refund, trail, policies>>
    BY <1>6 DEF R!UploadEvidence, r
  <2> QED BY <2>1, <2>2, QuietRecounts
<1> HIDE DEF R!Begin, Recounts, Audits, MakesPolicy, Creating, Disputing
<1>7. ASSUME NEW f \in RefundIds, R!FailRefund(q, f) \/ R!ReverseRefund(q, f)
      PROVE  \E r : Recounts(q, r)
  <2>1. \E status : R!Change(q, f, status)
    BY <1>7, Zenon DEF R!FailRefund, R!ReverseRefund
  <2> QED BY <1>3, <2>1, Zenon
<1> QED
  BY <1>1, <1>2, <1>4, <1>5, <1>6, <1>7, Zenon

(* A piece of a request counts what that request was about to do. *)
LEMMA GoRecounts ==
  ASSUME RefundInv, NEW q \in RefundRequests,
         \/ R!SavePolicy(q) \/ R!AutoProcess(q) \/ R!AuditTransaction(q)
         \/ R!CountEvidence(q) \/ R!SaveDispute(q) \/ R!Throw(q)
         \/ R!Store(q) \/ R!SaveProcessing(q) \/ R!SaveCompleted(q) \/ R!SaveRefund(q)
  PROVE  \E r : Recounts(q, r)
<1> DEFINE old == refundRequest[q]
<1>0. refund \in [RefundIds -> RefundRow \cup {R!NoRefund}]
  BY DEF RefundInv, RefundRows
<1>1. ASSUME R!SavePolicy(q) PROVE Recounts(q, [old EXCEPT !.pc = "store"])
  <2>1. old \in Creating \cup Disputing /\ old.pc = "newPolicy"
    BY <1>1, RefundRequestAt DEF R!SavePolicy, R!At
  <2>2. LET r == [old EXCEPT !.pc = "store"] IN r.does # "process" /\ r.pc = "store"
    BY <2>1 DEF Creating, Disputing
  <2> QED BY <1>1, <2>1, <2>2 DEF R!SavePolicy, R!Goto, Recounts, Audits, MakesPolicy
<1>2. R!NoRefundRequest.does # "process" /\ ~ MakesPolicy(R!NoRefundRequest)
  BY DEF R!NoRefundRequest, MakesPolicy, Creating, Disputing
<1>3. ASSUME R!Done(q), UNCHANGED <<refund, trail, policies>>
      PROVE  \E r : Recounts(q, r)
  BY <1>2, <1>3, QuietRecounts DEF R!Done
<1>4. ASSUME R!CountEvidence(q) PROVE \E r : Recounts(q, r)
  <2> DEFINE r == [does |-> "upload", pc |-> "saveDispute",
                   copy |-> [dispute EXCEPT !.evidenceCount = @ + 1]]
  <2>1. r.does # "process" /\ ~ MakesPolicy(r)
    BY DEF MakesPolicy, Creating, Disputing
  <2> HIDE DEF r
  <2>2. /\ R!Done(q) \/ refundRequest' = [refundRequest EXCEPT ![q] = r]
        /\ UNCHANGED <<refund, trail, policies>>
    BY <1>4 DEF R!CountEvidence, r
  <2> QED BY <1>3, <2>1, <2>2, QuietRecounts
<1>5. ASSUME R!SaveDispute(q) \/ R!Throw(q) PROVE \E r : Recounts(q, r)
  <2>1. R!Done(q) /\ UNCHANGED <<refund, trail, policies>>
    BY <1>5 DEF R!SaveDispute, R!Throw
  <2> QED BY <1>3, <2>1
<1>6. ASSUME R!AutoProcess(q) PROVE \E r : Recounts(q, r)
  <2>1. CASE refund[old.f].status = "PENDING"
    <3>1. refundRequest' = [refundRequest EXCEPT ![q] = R!Processing(old.f)]
          /\ UNCHANGED <<refund, trail, policies>>
      BY <1>6, <2>1 DEF R!AutoProcess
    <3>2. Recounts(q, R!Processing(old.f))
      BY <2>1, <3>1 DEF Recounts, Audits, MakesPolicy, R!Processing, Creating, Disputing
    <3> QED BY <3>2
  <2>2. CASE refund[old.f].status # "PENDING"
    BY <1>3, <1>6, <2>2 DEF R!AutoProcess
  <2> QED BY <2>1, <2>2
<1>7. ASSUME R!AuditTransaction(q) PROVE Recounts(q, [old EXCEPT !.pc = "complete"])
  <2>1. old \in Processing /\ ProcessingOK(old, refund, trail, transactions) /\ old.pc = "audit"
    BY <1>7, RefundRequestAt DEF R!AuditTransaction, R!At
  <2>2. LET r == [old EXCEPT !.pc = "complete"] IN r.does = "process" /\ r.pc = "complete"
    BY <2>1 DEF Processing
  <2>3. Audits(old, old.f) /\ refund[old.f].status \notin Pending
    BY <2>1 DEF Audits, Processing, ProcessingOK
  <2> QED BY <1>7, <2>2, <2>3 DEF R!AuditTransaction, R!Goto, Recounts, Audits, MakesPolicy
<1>8. ASSUME R!SaveProcessing(q) PROVE Recounts(q, [old EXCEPT !.pc = "audit"])
  <2>1. old \in Processing /\ old.pc = "submit"
    BY <1>8, RefundRequestAt DEF R!SaveProcessing, R!At
  <2>2. LET r == [old EXCEPT !.pc = "audit"] IN
        r.does = "process" /\ r.pc = "audit" /\ r.f = old.f
    BY <2>1 DEF Processing
  <2>3. old.does = "process" /\ old.f \in RefundIds /\ old.copy \in RefundRow
    BY <2>1 DEF Processing
  <2>4. ASSUME NEW f \in RefundIds, refund[f].status \notin Pending
        PROVE  refund'[f].status \notin Pending
    <3>1. [old.copy EXCEPT !.status = "PROCESSING"].status = "PROCESSING"
      BY <2>3 DEF RefundRow
    <3> QED BY <1>0, <1>8, <2>3, <2>4, <3>1 DEF R!SaveProcessing, Pending
  <2> QED BY <1>8, <2>1, <2>2, <2>3, <2>4 DEF R!SaveProcessing, R!Goto, Recounts, Audits, MakesPolicy
<1>9. ASSUME R!SaveCompleted(q) \/ R!SaveRefund(q) PROVE Recounts(q, R!NoRefundRequest)
  <2>1. PICK row : /\ refund' = [refund EXCEPT ![old.f] = row] /\ row.status \notin Pending
                   /\ R!Done(q) /\ UNCHANGED <<trail, policies>>
    BY <1>9, RefundRequestAt DEF R!SaveCompleted, R!SaveRefund, ChangingOK, Pending
  <2> QED BY <1>0, <1>2, <2>1 DEF R!Done, Recounts, Audits
<1>10. ASSUME R!Store(q) PROVE \E r : Recounts(q, r)
  <2>1. CASE old.does = "dispute"
    BY <1>3, <1>10, <2>1 DEF R!Store
  <2>2. CASE old.does = "create"
    <3>1. old \in Creating /\ refund[old.f] = R!NoRefund
      BY <1>10, <2>2, RefundRequestAt DEF R!Store, R!At, StillCreates, Disputing
    <3>2. LET r == [old EXCEPT !.pc = "process"] IN r.does = "create" /\ r.pc = "process"
      BY <3>1 DEF Creating
    <3>3. ASSUME NEW f \in RefundIds, refund[f].status \notin Pending
          PROVE  refund'[f].status \notin Pending
      BY <1>0, <1>10, <2>2, <3>1, <3>3 DEF R!Store, R!NoRefund, Pending
    <3>4. ASSUME NEW r, refundRequest' = [refundRequest EXCEPT ![q] = r],
                 r.does # "process", ~ MakesPolicy(r)
          PROVE  Recounts(q, r)
      BY <1>10, <2>2, <3>3, <3>4 DEF R!Store, Recounts, Audits
    <3> QED BY <1>2, <1>10, <2>2, <3>2, <3>4 DEF R!Store, R!Goto, R!Done, MakesPolicy
  <2> QED BY <1>10, <2>1, <2>2 DEF R!Store
<1> QED BY <1>1, <1>4, <1>5, <1>6, <1>7, <1>8, <1>9, <1>10

-----------------------------------------------------------------------------
TrailOf(f) == {t \in trail : t[1] = f}
Auditors(f) == {q \in RefundRequests : Audits(refundRequest[q], f)}
PolicyMakers == {q \in RefundRequests : MakesPolicy(refundRequest[q])}

DuplicateInv ==
  /\ \A f \in RefundIds :
       /\ refund[f].status \in Pending => TrailOf(f) = {}
       /\ Cardinality(TrailOf(f)) + Cardinality(Auditors(f)) <= Cardinality(RefundRequests)
  /\ policies \in Nat
  /\ policies = 0 \/ policies + Cardinality(PolicyMakers) <= Cardinality(RefundRequests)

(* A counted step leaves no more transactions and policies than overlaps. *)
LEMMA NextDuplicateInv ==
  ASSUME RefundInv, DuplicateInv, NEW q \in RefundRequests, NEW r, Recounts(q, r), TrailOK'
  PROVE  DuplicateInv'
<1> DEFINE N == Cardinality(RefundRequests)
           old == refundRequest[q]
<1>0. /\ refundRequest = [p \in RefundRequests |-> refundRequest[p]]
      /\ refundRequest' = [refundRequest EXCEPT ![q] = r]
      /\ N \in Nat /\ IsFiniteSet(trail) /\ IsFiniteSet(trail') /\ policies \in Nat
  BY RequestsAssumption, FS_CardinalityType
     DEF RefundInv, RefundRequestsOK, Recounts, TrailOK, DuplicateInv
<1>1. \A p \in RefundRequests : refundRequest'[p] = IF p = q THEN r ELSE refundRequest[p]
  BY <1>0
<1>2. ASSUME NEW f \in RefundIds
      PROVE  /\ refund'[f].status \in Pending => TrailOf(f)' = {}
             /\ Cardinality(TrailOf(f)') + Cardinality(Auditors(f)') <= N
  <2>1. CASE refund'[f].status \in Pending
    <3>1. refund[f].status \in Pending /\ TrailOf(f) = {}
      BY <2>1 DEF Recounts, DuplicateInv
    <3>2. TrailOf(f)' = {}
      BY <2>1, <3>1 DEF Recounts, TrailOf
    <3>3. Auditors(f)' \subseteq RefundRequests
      BY DEF Auditors
    <3> QED BY <1>0, <3>2, <3>3, SubsetCount, FS_EmptySet, RequestsAssumption
  <2>2. CASE refund[f].status \in Pending /\ refund'[f].status \notin Pending
    <3>1. TrailOf(f) = {}
      BY <2>2 DEF DuplicateInv
    <3>2. TrailOf(f)' = {}
      BY <2>2, <3>1 DEF Recounts, TrailOf
    <3>3. Auditors(f)' \subseteq RefundRequests
      BY DEF Auditors
    <3> QED BY <1>0, <2>2, <3>2, <3>3, SubsetCount, FS_EmptySet, RequestsAssumption
  <2>3. CASE refund[f].status \notin Pending /\ refund'[f].status \notin Pending
    <3>0. /\ IsFiniteSet(Auditors(f)) /\ IsFiniteSet(TrailOf(f))
          /\ Cardinality(TrailOf(f)) + Cardinality(Auditors(f)) <= N
      BY <1>0, SubsetCount, RequestsAssumption DEF Auditors, TrailOf, DuplicateInv
    <3>1. Auditors(f)' \subseteq Auditors(f)
      BY <1>1, <2>3 DEF Auditors, Recounts, Pending
    <3>2. CASE TrailOf(f)' = TrailOf(f)
      BY <1>0, <2>3, <3>0, <3>1, <3>2, SubsetCount
    <3>3. CASE TrailOf(f)' # TrailOf(f)
      <4>1. PICK h : trail' = trail \cup {<<f, h>>} /\ Audits(old, f) /\ ~ Audits(r, f)
        BY <1>0, <3>3 DEF Recounts, TrailOf, Audits
      <4>2. q \in Auditors(f) /\ Auditors(f)' \subseteq Auditors(f) \ {q}
        BY <1>1, <3>1, <4>1 DEF Auditors
      <4>3. TrailOf(f)' = TrailOf(f) \cup {<<f, h>>}
        BY <4>1 DEF TrailOf
      <4>4. /\ Cardinality(Auditors(f)') \in Nat /\ Cardinality(Auditors(f)) \in Nat
            /\ Cardinality(Auditors(f)') + 1 <= Cardinality(Auditors(f))
        BY <3>0, <4>2, WithoutCount
      <4>5. /\ Cardinality(TrailOf(f)') \in Nat /\ Cardinality(TrailOf(f)) \in Nat
            /\ Cardinality(TrailOf(f)') <= Cardinality(TrailOf(f)) + 1
        BY <3>0, <4>3, WithCount
      <4> HIDE DEF N
      <4> QED BY <1>0, <2>3, <3>0, <4>4, <4>5
    <3> QED BY <3>2, <3>3
  <2>4. refund[f].status \notin Pending => refund'[f].status \notin Pending
    BY DEF Recounts
  <2> HIDE DEF N
  <2> QED BY <2>1, <2>2, <2>3, <2>4
<1>3. /\ policies' \in Nat
      /\ policies' = 0 \/ policies' + Cardinality(PolicyMakers') <= N
  <2>0. /\ IsFiniteSet(PolicyMakers) /\ PolicyMakers \subseteq RefundRequests
        /\ IsFiniteSet(PolicyMakers') /\ PolicyMakers' \subseteq RefundRequests
    BY SubsetCount, RequestsAssumption DEF PolicyMakers
  <2>1. CASE policies' = 0
    BY <2>1
  <2>2. CASE policies' = policies /\ policies # 0
    <3>1. PolicyMakers' \subseteq PolicyMakers
      BY <1>1, <2>2 DEF PolicyMakers, Recounts
    <3>2. policies + Cardinality(PolicyMakers) <= N
      BY <2>2 DEF DuplicateInv
    <3> QED BY <1>0, <2>0, <2>2, <3>1, <3>2, SubsetCount
  <2>3. CASE policies' = policies + 1 /\ MakesPolicy(old)
    <3>1. q \in PolicyMakers /\ PolicyMakers' \subseteq PolicyMakers \ {q}
      BY <1>0, <1>1, <2>3 DEF PolicyMakers, Recounts
    <3>2. policies = 0 \/ policies + Cardinality(PolicyMakers) <= N
      BY DEF DuplicateInv
    <3>3. /\ Cardinality(PolicyMakers') \in Nat /\ Cardinality(PolicyMakers) \in Nat
          /\ Cardinality(PolicyMakers') + 1 <= Cardinality(PolicyMakers)
      BY <2>0, <3>1, WithoutCount
    <3>4. Cardinality(PolicyMakers) <= N
      BY <2>0, SubsetCount, RequestsAssumption
    <3> HIDE DEF N
    <3> QED BY <1>0, <2>3, <3>2, <3>3, <3>4
  <2>4. \/ policies' = 0
        \/ policies' = policies /\ policies # 0
        \/ policies' = policies + 1 /\ MakesPolicy(old)
    BY DEF Recounts
  <2> HIDE DEF N, old
  <2> QED BY <2>1, <2>2, <2>3, <2>4
<1> QED BY <1>2, <1>3 DEF DuplicateInv

(* A reconciliation duplicates nothing. *)
LEMMA ReportKeepsDuplicateInv == DuplicateInv /\ R!ReconcileWithProcessor => DuplicateInv'
BY DEF R!ReconcileWithProcessor, DuplicateInv, TrailOf, Auditors, PolicyMakers

-----------------------------------------------------------------------------
Counters == {q \in RefundRequests : refundRequest[q] \in Counting}

EvidenceInv ==
  /\ evidence \subseteq EvidenceIds /\ IsFiniteSet(evidence)
  /\ dispute.evidenceCount + Cardinality(Counters) <= Cardinality(evidence)
  /\ \A q \in RefundRequests :
       refundRequest[q] \in SavingDispute =>
         refundRequest[q].copy.evidenceCount + Cardinality(Counters) <= Cardinality(evidence)

(* What one step of a request does to evidence and what counts it. *)
Counts(q, r) ==
  LET old == refundRequest[q] IN
  /\ refundRequest' = [refundRequest EXCEPT ![q] = r]
  /\ \/ evidence' = evidence /\ r \notin Counting
     \/ \E e \in EvidenceIds \ evidence : evidence' = evidence \cup {e} /\ r \in Counting
  /\ r \in SavingDispute =>
       \/ r.copy.evidenceCount = dispute.evidenceCount
       \/ old \in Counting /\ r.copy.evidenceCount = dispute.evidenceCount + 1
  /\ \/ dispute'.evidenceCount \in {0, dispute.evidenceCount}
     \/ old \in SavingDispute /\ dispute' = old.copy

(* A step that counts as Counts says leaves no evidence counted that is not stored. *)
LEMMA NextEvidenceInv ==
  ASSUME RefundInv, EvidenceInv, NEW q \in RefundRequests, NEW r, Counts(q, r)
  PROVE  EvidenceInv'
<1> DEFINE old == refundRequest[q]
           n == Cardinality(Counters)
           m == Cardinality(evidence)
<1>0. /\ refundRequest = [p \in RefundRequests |-> refundRequest[p]]
      /\ dispute.evidenceCount \in Nat
      /\ IsFiniteSet(evidence) /\ m \in Nat
      /\ \A p \in RefundRequests : refundRequest[p] \in SavingDispute =>
           refundRequest[p].copy.evidenceCount \in Nat
  BY FS_CardinalityType
     DEF RefundInv, RefundRequestsOK, EvidenceInv, R!Dispute, R!NoDispute, SavingDispute
<1>1. \A p \in RefundRequests : refundRequest'[p] = IF p = q THEN r ELSE refundRequest[p]
  BY <1>0 DEF Counts
<1>2. IsFiniteSet(Counters) /\ n \in Nat /\ IsFiniteSet(Counters') /\ Cardinality(Counters') \in Nat
  BY SubsetCount, RequestsAssumption DEF Counters
<1>3. /\ evidence' \subseteq EvidenceIds /\ IsFiniteSet(evidence')
      /\ Cardinality(evidence') \in Nat /\ m <= Cardinality(evidence')
      /\ n - m >= Cardinality(Counters') - Cardinality(evidence')
      /\ r \notin Counting /\ old \in Counting =>
           n - 1 - m >= Cardinality(Counters') - Cardinality(evidence')
  <2>1. CASE evidence' = evidence /\ r \notin Counting
    <3>1. Counters' \subseteq Counters \ {q}
      BY <1>1, <2>1 DEF Counters
    <3>2. Cardinality(Counters') <= n
      BY <1>2, <3>1, SubsetCount
    <3>3. old \in Counting => Cardinality(Counters') + 1 <= n
      BY <1>2, <3>1, WithoutCount DEF Counters
    <3> QED BY <1>0, <1>2, <2>1, <3>2, <3>3 DEF EvidenceInv
  <2>2. ASSUME NEW e \in EvidenceIds \ evidence, evidence' = evidence \cup {e}, r \in Counting
        PROVE  /\ evidence' \subseteq EvidenceIds /\ IsFiniteSet(evidence')
               /\ Cardinality(evidence') \in Nat /\ m <= Cardinality(evidence')
               /\ n - m >= Cardinality(Counters') - Cardinality(evidence')
    <3>1. Counters' \subseteq Counters \cup {q}
      BY <1>1 DEF Counters
    <3>2. Cardinality(Counters') <= n + 1
      <4>1. /\ IsFiniteSet(Counters \cup {q}) /\ Cardinality(Counters \cup {q}) \in Nat
            /\ Cardinality(Counters \cup {q}) <= n + 1
        BY <1>2, WithCount
      <4>2. Cardinality(Counters') <= Cardinality(Counters \cup {q})
        BY <3>1, <4>1, SubsetCount
      <4> QED BY <1>2, <4>1, <4>2
    <3>3. /\ IsFiniteSet(evidence') /\ Cardinality(evidence') = m + 1
      BY <1>0, <2>2, FS_AddElement
    <3> QED BY <1>0, <1>2, <2>2, <3>2, <3>3 DEF EvidenceInv
  <2> QED BY <2>1, <2>2 DEF Counts
<1>4. dispute.evidenceCount + n <= m
  BY DEF EvidenceInv
<1>5. ASSUME NEW p \in RefundRequests, refundRequest'[p] \in SavingDispute
      PROVE  refundRequest'[p].copy.evidenceCount + Cardinality(Counters') <= Cardinality(evidence')
  <2> HIDE DEF n, m
  <2>1. CASE p # q
    <3>1. refundRequest[p] \in SavingDispute /\ refundRequest'[p] = refundRequest[p]
      BY <1>1, <1>5, <2>1
    <3>2. refundRequest[p].copy.evidenceCount + n <= m
      BY <3>1 DEF EvidenceInv, n, m
    <3> QED BY <1>0, <1>2, <1>3, <3>1, <3>2
  <2>2. CASE p = q
    <3>1. refundRequest'[p] = r /\ r \in SavingDispute /\ r \notin Counting
      BY <1>1, <1>5, <2>2 DEF SavingDispute, Counting
    <3> QED BY <1>0, <1>2, <1>3, <1>4, <3>1 DEF Counts
  <2> QED BY <2>1, <2>2
<1>6. dispute'.evidenceCount + Cardinality(Counters') <= Cardinality(evidence')
  <2> HIDE DEF n, m
  <2>1. CASE dispute'.evidenceCount \in {0, dispute.evidenceCount}
    BY <1>0, <1>2, <1>3, <1>4, <2>1
  <2>2. CASE old \in SavingDispute /\ dispute' = old.copy
    <3>1. old.copy.evidenceCount + n <= m
      BY <2>2 DEF EvidenceInv, n, m
    <3> QED BY <1>0, <1>2, <1>3, <2>2, <3>1
  <2> QED BY <2>1, <2>2 DEF Counts
<1> QED BY <1>3, <1>5, <1>6 DEF EvidenceInv

(* A step of a request about refunds counts no evidence. *)
LEMMA PlainCounts ==
  ASSUME NEW q \in RefundRequests, NEW r, refundRequest' = [refundRequest EXCEPT ![q] = r],
         r.does \notin {"upload", "update"}, UNCHANGED <<dispute, evidence>>
  PROVE  \E n : Counts(q, n)
<1>1. r \notin Counting /\ r \notin SavingDispute
  BY DEF Counting, SavingDispute
<1> QED BY <1>1 DEF Counts

(* A call that starts stores at most the evidence it will count. *)
LEMMA BeginCounts ==
  ASSUME RefundInv, NEW q \in RefundRequests,
         \/ \E f \in RefundIds :
              \/ \E auto \in BOOLEAN : R!CreateRefund(q, f, auto)
              \/ R!ProcessRefund(q, f) \/ R!FailRefund(q, f) \/ R!ReverseRefund(q, f)
         \/ R!CreateDispute(q)
         \/ \E status \in {"RESPONDING", "WON"} : R!UpdateDispute(q, status)
         \/ \E e \in EvidenceIds : R!UploadEvidence(q, e)
  PROVE  \E r : Counts(q, r)
<1> USE DEF R!Begin
<1>1. ASSUME NEW f \in RefundIds, NEW auto \in BOOLEAN, R!CreateRefund(q, f, auto)
      PROVE  \E r : Counts(q, r)
  <2> DEFINE r == [does |-> "create", pc |-> R!AfterPolicy, f |-> f, auto |-> auto]
  <2>1. r.does = "create"
    OBVIOUS
  <2> HIDE DEF r
  <2>2. refundRequest' = [refundRequest EXCEPT ![q] = r] /\ UNCHANGED <<dispute, evidence>>
    BY <1>1 DEF R!CreateRefund, r
  <2> QED BY <2>1, <2>2, PlainCounts
<1>2. ASSUME NEW f \in RefundIds, R!ProcessRefund(q, f)
      PROVE  \E r : Counts(q, r)
  <2>1. R!Processing(f).does = "process"
    BY DEF R!Processing
  <2>2. refundRequest' = [refundRequest EXCEPT ![q] = R!Processing(f)]
        /\ UNCHANGED <<dispute, evidence>>
    BY <1>2 DEF R!ProcessRefund
  <2> QED BY <2>1, <2>2, PlainCounts
<1>3. ASSUME NEW f \in RefundIds, NEW status, R!Change(q, f, status)
      PROVE  \E r : Counts(q, r)
  <2> DEFINE r == [does |-> "change", pc |-> "save", f |-> f,
                   copy |-> [refund[f] EXCEPT !.status = status]]
  <2>1. r.does = "change"
    OBVIOUS
  <2> HIDE DEF r
  <2>2. refundRequest' = [refundRequest EXCEPT ![q] = r] /\ UNCHANGED <<dispute, evidence>>
    BY <1>3 DEF R!Change, r
  <2> QED BY <2>1, <2>2, PlainCounts
<1>4. ASSUME R!CreateDispute(q) PROVE \E r : Counts(q, r)
  <2> DEFINE r == [does |-> "dispute", pc |-> R!AfterPolicy]
  <2>1. r.does = "dispute"
    OBVIOUS
  <2> HIDE DEF r
  <2>2. refundRequest' = [refundRequest EXCEPT ![q] = r] /\ UNCHANGED <<dispute, evidence>>
    BY <1>4 DEF R!CreateDispute, r
  <2> QED BY <2>1, <2>2, PlainCounts
<1>5. ASSUME NEW status, R!UpdateDispute(q, status) PROVE \E r : Counts(q, r)
  <2> DEFINE row == [dispute EXCEPT !.status = status, !.resolvedAt = @ \/ status \in R!Resolved]
             r == [does |-> "update", pc |-> "saveDispute", copy |-> row]
  <2>1. dispute \in R!Dispute /\ dispute # R!NoDispute
    BY <1>5 DEF R!UpdateDispute, RefundInv
  <2>2. row.evidenceCount = dispute.evidenceCount
    BY <2>1 DEF R!Dispute
  <2>3. r \notin Counting /\ r.copy = row
    BY DEF Counting
  <2> HIDE DEF r, row
  <2>4. refundRequest' = [refundRequest EXCEPT ![q] = r] /\ UNCHANGED <<dispute, evidence>>
    BY <1>5 DEF R!UpdateDispute, r, row
  <2> QED BY <2>2, <2>3, <2>4 DEF Counts
<1>6. ASSUME NEW e \in EvidenceIds, R!UploadEvidence(q, e) PROVE \E r : Counts(q, r)
  <2> DEFINE r == [does |-> "upload", pc |-> "count"]
  <2>1. r \in Counting /\ r \notin SavingDispute
    BY DEF Counting, SavingDispute
  <2> HIDE DEF r
  <2>2. /\ refundRequest' = [refundRequest EXCEPT ![q] = r] /\ UNCHANGED dispute
        /\ evidence' = evidence \cup {e} /\ e \notin evidence
    BY <1>6 DEF R!UploadEvidence, r
  <2> QED BY <2>1, <2>2 DEF Counts
<1>7. ASSUME NEW f \in RefundIds, R!FailRefund(q, f) \/ R!ReverseRefund(q, f)
      PROVE  \E r : Counts(q, r)
  <2>1. \E status : R!Change(q, f, status)
    BY <1>7, Zenon DEF R!FailRefund, R!ReverseRefund
  <2> QED BY <1>3, <2>1, Zenon
<1> QED
  BY <1>1, <1>2, <1>4, <1>5, <1>6, <1>7, Zenon

(* A piece of a request counts the evidence its upload stored. *)
LEMMA GoCounts ==
  ASSUME RefundInv, NEW q \in RefundRequests,
         \/ R!SavePolicy(q) \/ R!AutoProcess(q) \/ R!AuditTransaction(q)
         \/ R!CountEvidence(q) \/ R!SaveDispute(q) \/ R!Throw(q)
         \/ R!Store(q) \/ R!SaveProcessing(q) \/ R!SaveCompleted(q) \/ R!SaveRefund(q)
  PROVE  \E r : Counts(q, r)
<1> DEFINE old == refundRequest[q]
<1>1. ASSUME NEW pc, old \in Creating \cup Disputing \cup Processing,
             R!Goto(q, pc), UNCHANGED <<dispute, evidence>>
      PROVE  \E r : Counts(q, r)
  <2> DEFINE r == [old EXCEPT !.pc = pc]
  <2>1. r.does \notin {"upload", "update"}
    BY <1>1 DEF Creating, Disputing, Processing
  <2> HIDE DEF r
  <2>2. refundRequest' = [refundRequest EXCEPT ![q] = r]
    BY <1>1 DEF R!Goto, r
  <2> QED BY <1>1, <2>1, <2>2, PlainCounts
<1>2. /\ R!NoRefundRequest.does = "nothing"
      /\ R!NoRefundRequest \notin Counting /\ R!NoRefundRequest \notin SavingDispute
  BY DEF R!NoRefundRequest, Counting, SavingDispute
<1>3. ASSUME R!Done(q), UNCHANGED evidence,
             dispute'.evidenceCount \in {0, dispute.evidenceCount}
      PROVE  \E r : Counts(q, r)
  BY <1>2, <1>3 DEF R!Done, Counts
<1>4. ASSUME R!SavePolicy(q) \/ R!AuditTransaction(q) \/ R!SaveProcessing(q)
      PROVE  \E r : Counts(q, r)
  <2>1. old \in Creating \cup Disputing \cup Processing
    BY <1>4, RefundRequestAt DEF R!SavePolicy, R!AuditTransaction, R!SaveProcessing
  <2> QED BY <1>1, <1>4, <2>1 DEF R!SavePolicy, R!AuditTransaction, R!SaveProcessing
<1>5. ASSUME R!Throw(q) \/ R!SaveCompleted(q) \/ R!SaveRefund(q) PROVE \E r : Counts(q, r)
  BY <1>3, <1>5 DEF R!Throw, R!SaveCompleted, R!SaveRefund
<1>6. ASSUME R!AutoProcess(q) PROVE \E r : Counts(q, r)
  <2>1. R!Processing(old.f).does = "process"
    BY DEF R!Processing
  <2> QED BY <1>3, <1>6, <2>1, PlainCounts DEF R!AutoProcess
<1>7. ASSUME R!CountEvidence(q) PROVE \E r : Counts(q, r)
  <2> DEFINE row == [dispute EXCEPT !.evidenceCount = @ + 1]
             r == [does |-> "upload", pc |-> "saveDispute", copy |-> row]
  <2>1. CASE dispute = R!NoDispute
    BY <1>3, <1>7, <2>1 DEF R!CountEvidence
  <2>2. CASE dispute # R!NoDispute
    <3>1. row.evidenceCount = dispute.evidenceCount + 1
      BY <2>2 DEF RefundInv, R!Dispute
    <3>2. r \notin Counting /\ r.copy = row
      BY DEF Counting
    <3>3. old \in Counting
      BY <1>7, RefundRequestAt DEF R!CountEvidence
    <3> HIDE DEF r, row
    <3>4. refundRequest' = [refundRequest EXCEPT ![q] = r] /\ UNCHANGED <<dispute, evidence>>
      BY <1>7, <2>2 DEF R!CountEvidence, r, row
    <3> QED BY <3>1, <3>2, <3>3, <3>4 DEF Counts
  <2> QED BY <2>1, <2>2
<1>8. ASSUME R!SaveDispute(q) PROVE \E r : Counts(q, r)
  BY <1>2, <1>8, RefundRequestAt DEF R!SaveDispute, R!Done, Counts
<1>9. ASSUME R!Store(q) PROVE \E r : Counts(q, r)
  <2>1. CASE old.does = "create"
    BY <1>1, <1>3, <1>9, <2>1, RefundRequestAt DEF R!Store
  <2>2. CASE old.does = "dispute"
    <3>1. [R!NoDispute EXCEPT !.status = "OPEN"].evidenceCount = 0
      BY DEF R!NoDispute
    <3> QED BY <1>3, <1>9, <2>2, <3>1 DEF R!Store
  <2> QED BY <1>9, <2>1, <2>2 DEF R!Store
<1> QED BY <1>4, <1>5, <1>6, <1>7, <1>8, <1>9

(* A reconciliation counts no evidence. *)
LEMMA ReportKeepsEvidenceInv == EvidenceInv /\ R!ReconcileWithProcessor => EvidenceInv'
BY DEF R!ReconcileWithProcessor, EvidenceInv, Counters

-----------------------------------------------------------------------------
ReportInv ==
  \/ report = R!NoReport
  \/ \E last \in [{t[1] : t \in report.reported} -> BOOLEAN] :
       report = R!Reconcile(report.completed, report.reported, last)

(* A report without unmatched refunds and discrepancies saw both sides agree. *)
LEMMA ReconcileAgrees ==
  ASSUME NEW paid, NEW reported, NEW last
  PROVE  LET r == R!Reconcile(paid, reported, last) IN
         r.unmatched \cup r.discrepancies = {} => r.completed = {t[1] : t \in r.reported}
<1> DEFINE r == R!Reconcile(paid, reported, last)
<1>1. /\ r.completed = paid /\ r.reported = reported
      /\ r.unmatched = R!Unmatched(paid, reported)
      /\ R!Unrecorded(paid, reported) \subseteq r.discrepancies
  BY DEF R!Reconcile
<1>2. ASSUME R!Unmatched(paid, reported) = {}, R!Unrecorded(paid, reported) = {}
      PROVE  paid = {t[1] : t \in reported}
  <2>1. ASSUME NEW f \in paid PROVE f \in {t[1] : t \in reported}
    BY <1>2, <2>1 DEF R!Unmatched
  <2>2. ASSUME NEW t \in reported PROVE t[1] \in paid
    BY <1>2, <2>2 DEF R!Unrecorded
  <2> QED BY <2>1, <2>2
<1> HIDE DEF r
<1> QED BY <1>1, <1>2 DEF r

(* The report is the reconciliation's and nothing else writes it. *)
LEMMA NextReportInv == ReportInv /\ R!Next => ReportInv'
<1>1. R!ReconcileWithProcessor => ReportInv'
  <2>1. ASSUME NEW reported, NEW last \in R!Lasts(reported),
               report' = R!Reconcile(R!Completed, reported, last)
        PROVE  ReportInv'
    <3>1. last \in [{t[1] : t \in reported} -> BOOLEAN]
      BY DEF R!Lasts
    <3>2. report'.completed = R!Completed /\ report'.reported = reported
      BY <2>1 DEF R!Reconcile
    <3> QED BY <2>1, <3>1, <3>2 DEF ReportInv
  <2> QED BY <2>1 DEF R!ReconcileWithProcessor
<1>2. ReportInv /\ UNCHANGED report => ReportInv'
  BY DEF ReportInv
<1> QED
  BY <1>1, <1>2
     DEF R!Next, R!CreateRefund, R!ProcessRefund, R!FailRefund, R!ReverseRefund, R!Change,
         R!CreateDispute, R!SavePolicy, R!Store, R!AutoProcess, R!SaveProcessing,
         R!AuditTransaction, R!SaveCompleted, R!SaveRefund, R!UpdateDispute, R!UploadEvidence,
         R!CountEvidence, R!SaveDispute, R!Throw

-----------------------------------------------------------------------------
RefundBooksInv == RefundInv /\ DuplicateInv /\ EvidenceInv /\ ReportInv

(* The books are balanced at first. *)
LEMMA InitRefundBooks == R!Init => RefundBooksInv
<1> SUFFICES ASSUME R!Init PROVE RefundBooksInv
  OBVIOUS
<1>1. DuplicateInv
  <2>1. \A f : TrailOf(f) = {} /\ Auditors(f) = {} /\ PolicyMakers = {}
    BY DEF R!Init, TrailOf, Auditors, PolicyMakers, Audits, MakesPolicy, Creating, Disputing,
           R!NoRefundRequest
  <2>2. Cardinality(RefundRequests) \in Nat
    BY RequestsAssumption, FS_CardinalityType
  <2>3. trail = {} /\ policies = 0
    BY DEF R!Init
  <2>4. 0 + 0 <= Cardinality(RefundRequests)
    BY <2>2
  <2> QED BY <2>1, <2>3, <2>4, FS_EmptySet DEF DuplicateInv
<1>2. EvidenceInv
  <2>1. Counters = {}
    BY DEF R!Init, Counters, Counting, R!NoRefundRequest
  <2> QED BY <2>1, FS_EmptySet DEF R!Init, EvidenceInv, R!NoDispute, SavingDispute,
                                   R!NoRefundRequest
<1> QED BY <1>1, <1>2, InitRefund DEF RefundBooksInv, ReportInv, R!Init

(* Every step of the refund service keeps its books. *)
LEMMA NextRefundBooks == RefundBooksInv /\ R!Next => RefundBooksInv'
<1> SUFFICES ASSUME RefundBooksInv, R!Next PROVE RefundBooksInv'
  OBVIOUS
<1>1. RefundInv' /\ ReportInv' /\ TrailOK'
  BY NextRefundInv, NextReportInv DEF RefundBooksInv, RefundInv
<1>2. \/ R!ReconcileWithProcessor
      \/ \E q \in RefundRequests : (\E r : Recounts(q, r)) /\ (\E r : Counts(q, r))
  BY BeginRecounts, GoRecounts, BeginCounts, GoCounts DEF RefundBooksInv, R!Next
<1>3. DuplicateInv' /\ EvidenceInv'
  BY <1>1, <1>2, NextDuplicateInv, NextEvidenceInv, ReportKeepsDuplicateInv,
     ReportKeepsEvidenceInv DEF RefundBooksInv
<1> QED BY <1>1, <1>3 DEF RefundBooksInv

(* Other parts leave the refunds alone. *)
LEMMA RestingRefunds == RefundBooksInv /\ UNCHANGED ofRefunds => RefundBooksInv'
BY DEF ofRefunds, RefundBooksInv, RefundInv, RefundRows, TrailOK, RefundRequestsOK, OneCreates,
       DuplicateInv, TrailOf, Auditors, PolicyMakers, EvidenceInv, Counters, ReportInv

(* The inductive invariant gives every part of RefundsKeepBooks. *)
LEMMA RefundImplies == RefundBooksInv => RefundsKeepBooks
<1> SUFFICES ASSUME RefundBooksInv PROVE RefundsKeepBooks
  OBVIOUS
<1>1. R!HashesAreAudited
  BY DEF RefundBooksInv, RefundInv, RefundRows, Audited, R!HashesAreAudited
<1>2. R!OnlyOverlapsDuplicate
  <2>1. ASSUME NEW f \in RefundIds
        PROVE  Cardinality({t \in trail : t[1] = f}) <= Cardinality(RefundRequests)
    <3>1. /\ Cardinality(TrailOf(f)) + Cardinality(Auditors(f)) <= Cardinality(RefundRequests)
          /\ IsFiniteSet(trail)
      BY DEF RefundBooksInv, RefundInv, TrailOK, DuplicateInv
    <3>2. /\ Cardinality(TrailOf(f)) \in Nat /\ Cardinality(Auditors(f)) \in Nat
          /\ Cardinality(RefundRequests) \in Nat
      BY <3>1, SubsetCount, RequestsAssumption DEF TrailOf, Auditors
    <3> QED BY <3>1, <3>2 DEF TrailOf
  <2>2. policies <= Cardinality(RefundRequests)
    <3>1. /\ Cardinality(PolicyMakers) \in Nat /\ Cardinality(RefundRequests) \in Nat
          /\ policies \in Nat
          /\ policies = 0 \/ policies + Cardinality(PolicyMakers) <= Cardinality(RefundRequests)
      BY SubsetCount, RequestsAssumption DEF PolicyMakers, RefundBooksInv, DuplicateInv
    <3> QED BY <3>1
  <2> QED BY <2>1, <2>2, SameCardinality DEF R!OnlyOverlapsDuplicate
<1>3. R!EvidenceIsStored
  <2>1. /\ Cardinality(Counters) \in Nat /\ Cardinality(evidence) \in Nat
        /\ dispute.evidenceCount \in Nat
        /\ dispute.evidenceCount + Cardinality(Counters) <= Cardinality(evidence)
    BY SubsetCount, FS_CardinalityType, RequestsAssumption
       DEF Counters, RefundBooksInv, RefundInv, EvidenceInv, R!Dispute, R!NoDispute
  <2> QED BY <2>1, SameCardinality DEF R!EvidenceIsStored
<1>4. R!CleanReportsAgree
  <2>1. CASE report = R!NoReport
    BY <2>1 DEF R!CleanReportsAgree, R!NoReport
  <2>2. ASSUME NEW c, NEW p, NEW last, report = R!Reconcile(c, p, last)
        PROVE  R!CleanReportsAgree
    BY <2>2, ReconcileAgrees DEF R!CleanReportsAgree
  <2> QED BY <2>1, <2>2 DEF RefundBooksInv, ReportInv
<1> QED BY <1>1, <1>2, <1>3, <1>4 DEF RefundsKeepBooks

(* Whatever requests overlap or throw: the transaction a refund names is in the
   audit trail, a refund is paid and a policy made again only by a request that
   overlapped the first, a dispute counts no evidence that is not stored, and a
   reconciliation without discrepancies saw the same refunds on both sides
   (refund.service.ts, dispute.service.ts, reconciliation.service.ts). *)
THEOREM RefundsHold == SumSpec => []RefundsKeepBooks
<1>1. SumInit => RefundBooksInv
  BY InitRefundBooks DEF SumInit
<1>2. RefundBooksInv /\ [SumNext]_sumVars => RefundBooksInv'
  BY NextRefundBooks, RestingRefunds DEF SumNext, sumVars
<1>3. RefundBooksInv => RefundsKeepBooks
  BY RefundImplies
<1> QED BY <1>1, <1>2, <1>3, PTL DEF SumSpec

-----------------------------------------------------------------------------

(***************************************************************************)
(* Conversions.  ConversionInv: a COMPLETED row names one swap, settled by *)
(* the deposit of the same execution; an execution past its swap has       *)
(* swapped, past the save of the hash holds it in its copy, and past its   *)
(* deposit has deposited; a copy's retries are failures that happened.     *)
(* VolumeInv is about the daily volume: it counts the executions settled,  *)
(* each once, because an execution under way has a number of its own that  *)
(* none of those counted has.                                              *)
(***************************************************************************)

Executing ==
  {"discover", "route", "swap", "hash", "bridge", "settle", "deposit", "complete", "count",
   "failed"}
Waiting == [pc : {"store", "cancel"}, c : Conversions, copy : C!Row]
Looking == [pc : {"again"}, c : Conversions]
ExecutionState == [pc : Executing, c : Conversions, copy : C!Row, run : Nat]

ConversionRowOK(c, row, threw, sw, dep) ==
  /\ row \in C!Row
  /\ row.retryCount <= threw[c]
  /\ row.status = "COMPLETED" => row.swap = row.settlement /\ <<c, row.swap>> \in sw \cap dep

ConversionExecutionOK(pc, c, copy, run, threw, sw, dep) ==
  /\ ConversionRowOK(c, copy, threw, sw, dep)
  /\ pc \in {"swap", "hash"} => copy.status = "EXECUTING"
  /\ pc \in {"hash", "bridge", "settle", "deposit", "complete"} => <<c, run>> \in sw
  /\ pc \in {"bridge", "settle", "deposit", "complete"} => copy.swap = run
  /\ pc \in {"complete", "count"} => <<c, run>> \in dep
  /\ pc = "failed" => copy.retryCount + 1 <= threw[c]

ConversionRequestOK(r, threw, sw, dep) ==
  \/ r = C!Idle
  \/ r \in Looking
  \/ r \in Waiting /\ ConversionRowOK(r.c, r.copy, threw, sw, dep)
  \/ r \in ExecutionState /\ ConversionExecutionOK(r.pc, r.c, r.copy, r.run, threw, sw, dep)

Finds(r, rows) == r.pc = "again" => rows[r.c] # C!NoConversion

ConversionRows == 
  /\ conversion \in [Conversions -> C!Row \cup {C!NoConversion}]
  /\ \A c \in Conversions :
       conversion[c] = C!NoConversion \/ ConversionRowOK(c, conversion[c], failures, swapped, deposited)
ConversionRequestsOK ==
  /\ conversionRequest = [q \in ConversionRequests |-> conversionRequest[q]]
  /\ \A q \in ConversionRequests : ConversionRequestOK(conversionRequest[q], failures, swapped, deposited)
  /\ \A q \in ConversionRequests : Finds(conversionRequest[q], conversion)
Transfers ==
  /\ failures \in [Conversions -> Nat]
  /\ swapped \subseteq Conversions \X Nat
  /\ deposited \subseteq swapped
  /\ conversionCalls \in Nat
ConversionInv == ConversionRows /\ ConversionRequestsOK /\ Transfers

Runs(q) == conversionRequest[q].pc \in Executing
SettledOnce ==
  /\ IsFiniteSet(settledToday) /\ volume = Cardinality(settledToday)
  /\ settledToday \subseteq deposited
  /\ \A x \in settledToday : x[2] <= conversionCalls
RunsApart ==
  \A q \in ConversionRequests : Runs(q) =>
    /\ conversionRequest[q].run <= conversionCalls
    /\ \A x \in settledToday : x[2] # conversionRequest[q].run
    /\ \A p \in ConversionRequests \ {q} :
         Runs(p) => conversionRequest[p].run # conversionRequest[q].run
VolumeInv == SettledOnce /\ RunsApart

(* No conversion is stored and no request runs at first. *)
LEMMA InitConversion == C!Init => ConversionInv /\ VolumeInv
<1> SUFFICES ASSUME C!Init PROVE ConversionInv /\ VolumeInv
  OBVIOUS
<1>1. ConversionInv
  BY DEF C!Init, ConversionInv, ConversionRows, ConversionRequestsOK, Transfers,
         ConversionRequestOK, Finds, C!Idle
<1>2. SettledOnce
  BY FS_EmptySet DEF C!Init, SettledOnce
<1>3. RunsApart
  BY DEF C!Init, RunsApart, Runs, Executing, C!Idle
<1> QED BY <1>1, <1>2, <1>3 DEF VolumeInv

(* The inductive invariants give every part of ConversionsKeepBooks, and the types. *)
LEMMA ConversionImplies == ConversionInv /\ VolumeInv => ConversionsKeepBooks /\ C!TypeOK
  <1> SUFFICES ASSUME ConversionInv, VolumeInv PROVE ConversionsKeepBooks /\ C!TypeOK
    OBVIOUS
  <1> USE DEF ConversionInv, ConversionRows, Transfers, VolumeInv
  <1>1. C!DepositsAreSwapped
    BY DEF C!DepositsAreSwapped
  <1>2. C!CompletedRowIsOneExecution
    BY DEF C!CompletedRowIsOneExecution, ConversionRowOK, C!NoConversion
  <1>3. C!RetriesAreFailures
    BY DEF C!RetriesAreFailures, ConversionRowOK
  <1>4. volume \in Nat /\ C!VolumeCountsSettled
    BY FS_CardinalityType, SameCardinality DEF SettledOnce, C!VolumeCountsSettled
  <1>5. C!TypeOK
    BY <1>4 DEF C!TypeOK
  <1> QED BY <1>1, <1>2, <1>3, <1>4, <1>5 DEF ConversionsKeepBooks

(* A sound row stays sound: swaps, deposits and failures only grow in number. *)
LEMMA ConversionRowStaysOK ==
  ASSUME NEW c \in Conversions, NEW row, Transfers, Transfers',
         \A d \in Conversions : failures[d] <= failures'[d],
         swapped \subseteq swapped', deposited \subseteq deposited',
         ConversionRowOK(c, row, failures, swapped, deposited)
  PROVE  ConversionRowOK(c, row, failures', swapped', deposited')
  BY DEF ConversionRowOK, Transfers, C!Row

(* What a request knows of swaps, deposits and failures stays true likewise. *)
LEMMA ConversionRequestStaysOK ==
  ASSUME NEW r, Transfers, Transfers',
         \A d \in Conversions : failures[d] <= failures'[d],
         swapped \subseteq swapped', deposited \subseteq deposited',
         ConversionRequestOK(r, failures, swapped, deposited)
  PROVE  ConversionRequestOK(r, failures', swapped', deposited')
<1>1. CASE r \in Waiting
  <2>1. r.c \in Conversions
    BY <1>1 DEF Waiting
  <2> QED BY <1>1, <2>1, ConversionRowStaysOK DEF ConversionRequestOK, Waiting, ExecutionState, Looking, C!Idle, Executing
<1>2. CASE r \in ExecutionState
  <2>1. r.c \in Conversions /\ r.copy \in C!Row
    BY <1>2 DEF ExecutionState
  <2>2. ConversionExecutionOK(r.pc, r.c, r.copy, r.run, failures, swapped, deposited)
    BY <1>2 DEF ConversionRequestOK, Waiting, ExecutionState, Looking, C!Idle, Executing
  <2>3. ConversionRowOK(r.c, r.copy, failures', swapped', deposited')
    BY <2>1, <2>2, ConversionRowStaysOK DEF ConversionExecutionOK
  <2>4. ConversionExecutionOK(r.pc, r.c, r.copy, r.run, failures', swapped', deposited')
    BY <2>1, <2>2, <2>3 DEF ConversionExecutionOK, Transfers, C!Row
  <2> QED BY <1>2, <2>4 DEF ConversionRequestOK
<1> QED BY <1>1, <1>2 DEF ConversionRequestOK

(* One request moves and saves at most one row, a sound one. *)
LEMMA ConversionStep ==
  ASSUME ConversionInv, NEW q \in ConversionRequests, NEW r, Transfers',
         conversionRequest' = [conversionRequest EXCEPT ![q] = r],
         ConversionRequestOK(r, failures', swapped', deposited'), Finds(r, conversion),
         \A d \in Conversions : failures[d] <= failures'[d],
         swapped \subseteq swapped', deposited \subseteq deposited',
         \/ conversion' = conversion
         \/ \E c \in Conversions : \E row :
              /\ ConversionRowOK(c, row, failures', swapped', deposited')
              /\ conversion' = [conversion EXCEPT ![c] = row]
  PROVE  ConversionInv'
<1>1. ConversionRows'
  <2>1. ASSUME NEW c \in Conversions,
               conversion[c] = C!NoConversion \/ ConversionRowOK(c, conversion[c], failures, swapped, deposited)
        PROVE  conversion[c] = C!NoConversion \/ ConversionRowOK(c, conversion[c], failures', swapped', deposited')
    BY <2>1, ConversionRowStaysOK DEF ConversionInv
  <2>2. CASE conversion' = conversion
    BY <2>1, <2>2 DEF ConversionInv, ConversionRows
  <2>3. ASSUME NEW c \in Conversions, NEW row, ConversionRowOK(c, row, failures', swapped', deposited'),
               conversion' = [conversion EXCEPT ![c] = row]
        PROVE  ConversionRows'
    <3>1. row \in C!Row
      BY <2>3 DEF ConversionRowOK
    <3> QED BY <2>1, <2>3, <3>1 DEF ConversionInv, ConversionRows
  <2> QED BY <2>2, <2>3
<1>2. ConversionRequestsOK'
  <2>1. ASSUME NEW p \in ConversionRequests
        PROVE  ConversionRequestOK(conversionRequest'[p], failures', swapped', deposited')
    <3>1. CASE p = q
      BY <3>1 DEF ConversionInv, ConversionRequestsOK
    <3>2. CASE p # q
      <4>1. conversionRequest'[p] = conversionRequest[p]
        BY <3>2 DEF ConversionInv, ConversionRequestsOK
      <4>2. ConversionRequestOK(conversionRequest[p], failures, swapped, deposited)
        BY DEF ConversionInv, ConversionRequestsOK
      <4> QED BY <4>1, <4>2, ConversionRequestStaysOK DEF ConversionInv
    <3> QED BY <3>1, <3>2
  <2>2. ASSUME NEW p \in ConversionRequests
        PROVE  Finds(conversionRequest'[p], conversion')
    <3>1. Finds(conversionRequest'[p], conversion)
      BY DEF ConversionInv, ConversionRequestsOK
    <3>2. conversionRequest'[p].pc = "again" => conversionRequest'[p].c \in Conversions
      BY <2>1 DEF ConversionRequestOK, Looking, Waiting, ExecutionState, Executing, C!Idle
    <3>3. ASSUME NEW c \in Conversions, conversion[c] # C!NoConversion
          PROVE  conversion'[c] # C!NoConversion
      <4>1. \A row : ConversionRowOK(c, row, failures', swapped', deposited') => row # C!NoConversion
        BY DEF ConversionRowOK, C!Row, C!NoConversion, C!ConversionStatus, C!Open
      <4> QED BY <3>3, <4>1 DEF ConversionInv, ConversionRows
    <3> QED BY <3>1, <3>2, <3>3 DEF Finds
  <2> QED BY <2>1, <2>2 DEF ConversionInv, ConversionRequestsOK
<1> QED BY <1>1, <1>2 DEF ConversionInv

(* What a request at a place of an execution, or with a copy, looks like. *)
LEMMA ExecutionAt ==
  ASSUME ConversionInv, NEW q \in ConversionRequests, conversionRequest[q].pc \in Executing
  PROVE  LET r == conversionRequest[q]
         IN  /\ r \in ExecutionState
             /\ r.pc \in Executing /\ r.c \in Conversions /\ r.copy \in C!Row /\ r.run \in Nat
             /\ ConversionExecutionOK(r.pc, r.c, r.copy, r.run, failures, swapped, deposited)
  BY DEF ConversionInv, ConversionRequestsOK, ConversionRequestOK, Looking, Waiting, ExecutionState, Executing, C!Idle

(* What a request that waits to store or to cancel looks like. *)
LEMMA WaitingAt ==
  ASSUME ConversionInv, NEW q \in ConversionRequests,
         conversionRequest[q].pc \in {"store", "cancel"}
  PROVE  LET r == conversionRequest[q]
         IN  r \in Waiting /\ ConversionRowOK(r.c, r.copy, failures, swapped, deposited)
  BY DEF ConversionInv, ConversionRequestsOK, ConversionRequestOK, Looking, ExecutionState, Executing, C!Idle

(* An execution starts from a stored row as it is. *)
LEMMA BeginExecution ==
  ASSUME ConversionInv, NEW c \in Conversions, conversion[c] # C!NoConversion, NEW k \in Nat
  PROVE  ConversionRequestOK([pc |-> "discover", c |-> c, copy |-> conversion[c], run |-> k],
                   failures, swapped, deposited)
<1>1. ConversionRowOK(c, conversion[c], failures, swapped, deposited)
  BY DEF ConversionInv, ConversionRows
<1> DEFINE r == [pc |-> "discover", c |-> c, copy |-> conversion[c], run |-> k]
<1>2. r \in ExecutionState
  BY <1>1 DEF ExecutionState, Executing, ConversionRowOK
<1>3. ConversionExecutionOK(r.pc, r.c, r.copy, r.run, failures, swapped, deposited)
  BY <1>1 DEF ConversionExecutionOK
<1> QED BY <1>2, <1>3 DEF ConversionRequestOK

(* The same when nothing is swapped, deposited or thrown. *)
LEMMA ConversionRequestStep ==
  ASSUME ConversionInv, NEW q \in ConversionRequests, NEW r,
         conversionRequest' = [conversionRequest EXCEPT ![q] = r],
         ConversionRequestOK(r, failures, swapped, deposited), Finds(r, conversion),
         conversionCalls' \in Nat, UNCHANGED <<failures, swapped, deposited>>,
         \/ conversion' = conversion
         \/ \E c \in Conversions : \E row :
              /\ ConversionRowOK(c, row, failures, swapped, deposited)
              /\ conversion' = [conversion EXCEPT ![c] = row]
  PROVE  ConversionInv'
<1>1. /\ Transfers'
      /\ \A d \in Conversions : failures[d] <= failures'[d]
      /\ swapped \subseteq swapped' /\ deposited \subseteq deposited'
  BY DEF ConversionInv, Transfers
<1>2. ConversionRequestOK(r, failures', swapped', deposited')
  OBVIOUS
<1>3. \/ conversion' = conversion
      \/ \E c \in Conversions : \E row :
           /\ ConversionRowOK(c, row, failures', swapped', deposited')
           /\ conversion' = [conversion EXCEPT ![c] = row]
  OBVIOUS
<1> QED BY <1>1, <1>2, <1>3, ConversionStep

(* A request moves and no row is saved. *)
ConversionRequestMoves(q, r) ==
  /\ conversionRequest' = [conversionRequest EXCEPT ![q] = r]
  /\ ConversionRequestOK(r, failures, swapped, deposited) /\ Finds(r, conversion)
  /\ conversionCalls' \in Nat
  /\ UNCHANGED <<conversion, failures, swapped, deposited>>

(* A request that only moves keeps the invariant. *)
LEMMA ConversionMovesKeep ==
  ASSUME ConversionInv, NEW q \in ConversionRequests, NEW r, ConversionRequestMoves(q, r)
  PROVE  ConversionInv'
BY ConversionRequestStep DEF ConversionRequestMoves

(* The calls that start a request: create, execute, retry, cancel. *)
LEMMA ConversionBeginningSteps ==
  ASSUME ConversionInv, NEW q \in ConversionRequests,
         \/ \E c \in Conversions :
              \/ \E bridged \in BOOLEAN : C!CreateConversion(q, c, bridged)
              \/ C!ExecuteConversion(q, c) \/ C!RetryConversion(q, c) \/ C!CancelConversion(q, c)
         \/ C!ReadAgain(q)
  PROVE  ConversionInv'
<1> USE DEF C!Begin
<1>0. conversionCalls \in Nat
  BY DEF ConversionInv, Transfers
<1>1. ASSUME NEW c \in Conversions, NEW bridged \in BOOLEAN, C!CreateConversion(q, c, bridged)
      PROVE  ConversionInv'
  <2> DEFINE row == [status |-> "PENDING", bridged |-> bridged, swap |-> C!None,
                     settlement |-> C!None, retryCount |-> 0]
             r == [pc |-> "store", c |-> c, copy |-> row]
  <2>1. row \in C!Row
    BY DEF C!Row, C!ConversionStatus, C!Open, C!None
  <2>2. ConversionRowOK(c, row, failures, swapped, deposited)
    BY <2>1 DEF ConversionRowOK, ConversionInv, Transfers
  <2>3. ConversionRequestOK(r, failures, swapped, deposited)
    BY <2>1, <2>2 DEF ConversionRequestOK, Waiting
  <2>4. conversionRequest' = [conversionRequest EXCEPT ![q] = r] /\ Finds(r, conversion)
    BY <1>1 DEF C!CreateConversion, Finds
  <2>5. ConversionRequestMoves(q, r)
    BY <1>0, <1>1, <2>3, <2>4 DEF ConversionRequestMoves, C!CreateConversion
  <2> QED BY <2>5, ConversionMovesKeep
<1>2. ASSUME NEW c \in Conversions, C!ExecuteConversion(q, c)
      PROVE  ConversionInv'
  <2>1. ConversionRequestOK(C!Execution(c), failures, swapped, deposited) /\ Finds(C!Execution(c), conversion)
    BY <1>0, <1>2, BeginExecution DEF C!ExecuteConversion, C!Execution, Finds
  <2>2. ConversionRequestMoves(q, C!Execution(c))
    BY <1>0, <1>2, <2>1 DEF ConversionRequestMoves, C!ExecuteConversion
  <2> QED BY <2>2, ConversionMovesKeep
<1>3. ASSUME NEW c \in Conversions, C!RetryConversion(q, c)
      PROVE  ConversionInv'
  <2> DEFINE r == [pc |-> "again", c |-> c]
  <2>1. ConversionRequestOK(r, failures, swapped, deposited) /\ Finds(r, conversion)
    BY <1>3 DEF ConversionRequestOK, Looking, Finds, C!RetryConversion
  <2>2. ConversionRequestMoves(q, r)
    BY <1>0, <1>3, <2>1 DEF ConversionRequestMoves, C!RetryConversion
  <2> QED BY <2>2, ConversionMovesKeep
<1>4. ASSUME NEW c \in Conversions, C!CancelConversion(q, c)
      PROVE  ConversionInv'
  <2> DEFINE row == [conversion[c] EXCEPT !.status = "CANCELLED"]
  <2>1. ConversionRowOK(c, conversion[c], failures, swapped, deposited)
    BY <1>4 DEF C!CancelConversion, ConversionInv, ConversionRows
  <2>2. row \in C!Row /\ row.status = "CANCELLED" /\ row.retryCount = conversion[c].retryCount
    BY <2>1 DEF ConversionRowOK, C!Row, C!ConversionStatus
  <2> DEFINE r == [pc |-> "cancel", c |-> c, copy |-> row]
  <2>3. ConversionRequestOK(r, failures, swapped, deposited) /\ Finds(r, conversion)
    BY <2>1, <2>2 DEF ConversionRequestOK, Waiting, ConversionRowOK, Finds
  <2>4. ConversionRequestMoves(q, r)
    BY <1>0, <1>4, <2>3 DEF ConversionRequestMoves, C!CancelConversion
  <2> QED BY <2>4, ConversionMovesKeep
<1>5. ASSUME C!ReadAgain(q)
      PROVE  ConversionInv'
  <2> DEFINE c == conversionRequest[q].c
             r == [pc |-> "discover", c |-> c, copy |-> conversion[c], run |-> conversionCalls + 1]
  <2>1. c \in Conversions /\ conversion[c] # C!NoConversion
    BY <1>5 DEF C!ReadAgain, C!At, ConversionInv, ConversionRequestsOK, ConversionRequestOK, Looking,
                Waiting, ExecutionState, Executing, C!Idle, Finds
  <2>2. ConversionRequestOK(r, failures, swapped, deposited) /\ Finds(r, conversion)
    BY <1>0, <2>1, BeginExecution DEF Finds
  <2>3. conversionRequest' = [conversionRequest EXCEPT ![q] = r]
    BY <1>5 DEF C!ReadAgain, C!Execution
  <2>4. conversionCalls' \in Nat /\ UNCHANGED <<conversion, failures, swapped, deposited>>
    BY <1>0, <1>5 DEF C!ReadAgain
  <2> HIDE DEF c, r
  <2>5. ConversionRequestMoves(q, r)
    BY <2>2, <2>3, <2>4 DEF ConversionRequestMoves
  <2> QED BY <2>5, ConversionMovesKeep
<1> QED BY <1>1, <1>2, <1>3, <1>4, <1>5

(* An execution goes on at pc, with or without a saved row. *)
LEMMA ConversionGoesKeep ==
  ASSUME ConversionInv, NEW q \in ConversionRequests, conversionRequest[q].pc \in Executing,
         NEW pc \in Executing, C!Goto(q, pc), Transfers',
         \A d \in Conversions : failures[d] <= failures'[d],
         swapped \subseteq swapped', deposited \subseteq deposited', UNCHANGED conversion,
         LET r == conversionRequest[q]
         IN  ConversionExecutionOK(pc, r.c, r.copy, r.run, failures', swapped', deposited')
  PROVE  ConversionInv'
<1> DEFINE r == conversionRequest[q]
           n == [r EXCEPT !.pc = pc]
<1>1. r \in ExecutionState
  BY ExecutionAt
<1>2. n \in ExecutionState /\ n.pc = pc /\ n.c = r.c /\ n.copy = r.copy /\ n.run = r.run
  BY <1>1 DEF ExecutionState
<1>3. ConversionRequestOK(n, failures', swapped', deposited')
  BY <1>2 DEF ConversionRequestOK
<1>4. Finds(n, conversion)
  BY <1>2 DEF Finds, Executing
<1>5. conversionRequest' = [conversionRequest EXCEPT ![q] = n]
  BY DEF C!Goto
<1> HIDE DEF n
<1> QED BY <1>3, <1>4, <1>5, ConversionStep

(* An execution that saves a row sound at its next place keeps the invariant. *)
LEMMA ConversionSavesKeep ==
  ASSUME ConversionInv, NEW q \in ConversionRequests, conversionRequest[q].pc \in Executing,
         NEW pc \in Executing, NEW row, C!SaveAs(q, row, pc),
         UNCHANGED <<failures, swapped, deposited, conversionCalls>>,
         LET r == conversionRequest[q]
         IN  ConversionExecutionOK(pc, r.c, row, r.run, failures, swapped, deposited)
  PROVE  ConversionInv'
<1> DEFINE r == conversionRequest[q]
           n == [r EXCEPT !.copy = row, !.pc = pc]
<1>1. r \in ExecutionState /\ r.c \in Conversions
  BY ExecutionAt
<1>2. ConversionRowOK(r.c, row, failures, swapped, deposited) /\ row \in C!Row
  BY DEF ConversionExecutionOK, ConversionRowOK
<1>3. n \in ExecutionState /\ n.pc = pc /\ n.c = r.c /\ n.copy = row /\ n.run = r.run
  BY <1>1, <1>2 DEF ExecutionState
<1>4. ConversionRequestOK(n, failures, swapped, deposited)
  BY <1>3 DEF ConversionRequestOK
<1>5. Finds(n, conversion)
  BY <1>3 DEF Finds, Executing
<1>6. /\ conversionRequest' = [conversionRequest EXCEPT ![q] = n]
      /\ conversion' = [conversion EXCEPT ![r.c] = row]
  BY DEF C!SaveAs
<1>7. conversionCalls' \in Nat
  BY DEF ConversionInv, Transfers
<1> HIDE DEF n, r
<1> QED BY <1>1, <1>2, <1>4, <1>5, <1>6, <1>7, ConversionRequestStep

(* The pieces of an execution that end in a save of the row. *)
LEMMA ConversionSavingSteps ==
  ASSUME ConversionInv, NEW q \in ConversionRequests,
         \/ C!Discover(q) \/ C!Route(q) \/ C!SaveHash(q) \/ C!Bridge(q) \/ C!Settle(q)
         \/ C!Complete(q)
  PROVE  ConversionInv'
<1> DEFINE r == conversionRequest[q]
<1>0. ASSUME r.pc \in Executing
      PROVE  /\ r.c \in Conversions /\ r.copy \in C!Row /\ r.run \in Nat
             /\ ConversionExecutionOK(r.pc, r.c, r.copy, r.run, failures, swapped, deposited)
  BY <1>0, ExecutionAt
<1> HIDE DEF r
<1>1. ASSUME C!Discover(q) PROVE ConversionInv'
  <2> DEFINE row == [r.copy EXCEPT !.status = "PRICE_DISCOVERY"]
  <2>1. r.pc = "discover" /\ C!SaveAs(q, row, "route")
    BY <1>1 DEF C!Discover, C!At, C!Copy, r
  <2>2. ConversionExecutionOK("route", r.c, row, r.run, failures, swapped, deposited)
    BY <1>0, <2>1 DEF ConversionExecutionOK, ConversionRowOK, Executing, C!Row, C!ConversionStatus, C!Open
  <2> QED BY <1>1, <2>1, <2>2, ConversionSavesKeep DEF r, C!Discover, Executing
<1>2. ASSUME C!Route(q) PROVE ConversionInv'
  <2> DEFINE row == [r.copy EXCEPT !.status = "EXECUTING"]
  <2>1. r.pc = "route" /\ C!SaveAs(q, row, "swap")
    BY <1>2 DEF C!Route, C!At, C!Copy, r
  <2>2. ConversionExecutionOK("swap", r.c, row, r.run, failures, swapped, deposited)
    BY <1>0, <2>1 DEF ConversionExecutionOK, ConversionRowOK, Executing, C!Row, C!ConversionStatus, C!Open
  <2> QED BY <1>2, <2>1, <2>2, ConversionSavesKeep DEF r, C!Route, Executing
<1>3. ASSUME C!SaveHash(q) PROVE ConversionInv'
  <2> DEFINE row == [r.copy EXCEPT !.swap = r.run]
  <2>1. PICK pc \in {"bridge", "settle"} : r.pc = "hash" /\ C!SaveAs(q, row, pc)
    BY <1>3 DEF C!SaveHash, C!At, C!Copy, r
  <2>2. ConversionExecutionOK(pc, r.c, row, r.run, failures, swapped, deposited)
    BY <1>0, <2>1 DEF ConversionExecutionOK, ConversionRowOK, Executing, C!Row, C!ConversionStatus, C!Open
  <2> QED BY <1>3, <2>1, <2>2, ConversionSavesKeep DEF r, C!SaveHash, Executing
<1>4. ASSUME C!Bridge(q) PROVE ConversionInv'
  <2> DEFINE row == [r.copy EXCEPT !.status = "BRIDGING"]
  <2>1. r.pc = "bridge" /\ C!SaveAs(q, row, "settle")
    BY <1>4 DEF C!Bridge, C!At, C!Copy, r
  <2>2. ConversionExecutionOK("settle", r.c, row, r.run, failures, swapped, deposited)
    BY <1>0, <2>1 DEF ConversionExecutionOK, ConversionRowOK, Executing, C!Row, C!ConversionStatus, C!Open
  <2> QED BY <1>4, <2>1, <2>2, ConversionSavesKeep DEF r, C!Bridge, Executing
<1>5. ASSUME C!Settle(q) PROVE ConversionInv'
  <2> DEFINE row == [r.copy EXCEPT !.status = "SETTLING"]
  <2>1. r.pc = "settle" /\ C!SaveAs(q, row, "deposit")
    BY <1>5 DEF C!Settle, C!At, C!Copy, r
  <2>2. ConversionExecutionOK("deposit", r.c, row, r.run, failures, swapped, deposited)
    BY <1>0, <2>1 DEF ConversionExecutionOK, ConversionRowOK, Executing, C!Row, C!ConversionStatus, C!Open
  <2> QED BY <1>5, <2>1, <2>2, ConversionSavesKeep DEF r, C!Settle, Executing
<1>6. ASSUME C!Complete(q) PROVE ConversionInv'
  <2> DEFINE row == [r.copy EXCEPT !.status = "COMPLETED", !.settlement = r.run]
  <2>1. r.pc = "complete" /\ C!SaveAs(q, row, "count")
    BY <1>6 DEF C!Complete, C!At, C!Copy, r
  <2>2. ConversionExecutionOK("count", r.c, row, r.run, failures, swapped, deposited)
    BY <1>0, <2>1 DEF ConversionExecutionOK, ConversionRowOK, Executing, C!Row, C!ConversionStatus, C!Open
  <2> QED BY <1>6, <2>1, <2>2, ConversionSavesKeep DEF r, C!Complete, Executing
<1> QED BY <1>1, <1>2, <1>3, <1>4, <1>5, <1>6

(* The pieces that move money, count the trade or throw. *)
LEMMA ConversionOtherExecutionSteps ==
  ASSUME ConversionInv, NEW q \in ConversionRequests,
         \/ C!Swap(q) \/ C!DepositToVault(q) \/ C!ExecuteTrade(q) \/ C!Fail(q)
  PROVE  ConversionInv'
<1> DEFINE r == conversionRequest[q]
           it == {<<r.c, r.run>>}
<1>0. ASSUME r.pc \in Executing
      PROVE  /\ r.c \in Conversions /\ r.copy \in C!Row /\ r.run \in Nat
             /\ ConversionExecutionOK(r.pc, r.c, r.copy, r.run, failures, swapped, deposited)
  BY <1>0, ExecutionAt
<1> HIDE DEF r
<1>00. /\ failures \in [Conversions -> Nat] /\ swapped \subseteq Conversions \X Nat
       /\ deposited \subseteq swapped /\ conversionCalls \in Nat
  BY DEF ConversionInv, Transfers
<1>1. ASSUME C!Swap(q) PROVE ConversionInv'
  <2>1. /\ r.pc = "swap" /\ swapped' = swapped \cup it /\ C!Goto(q, "hash")
        /\ UNCHANGED <<conversion, deposited, failures, conversionCalls>>
    BY <1>1 DEF C!Swap, C!At, r
  <2>2. Transfers'
    BY <1>0, <1>00, <2>1 DEF Transfers, Executing
  <2>3. ConversionExecutionOK("hash", r.c, r.copy, r.run, failures', swapped', deposited')
    BY <1>0, <2>1 DEF ConversionExecutionOK, ConversionRowOK, Executing
  <2>4. \A d \in Conversions : failures[d] <= failures'[d]
    BY <1>00, <2>1
  <2> QED BY <2>1, <2>2, <2>3, <2>4, ConversionGoesKeep DEF r, Executing
<1>2. ASSUME C!DepositToVault(q) PROVE ConversionInv'
  <2>1. /\ r.pc = "deposit" /\ deposited' = deposited \cup it /\ C!Goto(q, "complete")
        /\ UNCHANGED <<conversion, swapped, failures, conversionCalls>>
    BY <1>2 DEF C!DepositToVault, C!At, r
  <2>2. Transfers'
    BY <1>0, <1>00, <2>1 DEF Transfers, Executing, ConversionExecutionOK
  <2>3. ConversionExecutionOK("complete", r.c, r.copy, r.run, failures', swapped', deposited')
    BY <1>0, <2>1 DEF ConversionExecutionOK, ConversionRowOK, Executing
  <2>4. \A d \in Conversions : failures[d] <= failures'[d]
    BY <1>00, <2>1
  <2> QED BY <2>1, <2>2, <2>3, <2>4, ConversionGoesKeep DEF r, Executing
<1>3. ASSUME C!ExecuteTrade(q) PROVE ConversionInv'
  <2>1. ConversionRequestMoves(q, C!Idle)
    BY <1>3, <1>00 DEF C!ExecuteTrade, C!Done, ConversionRequestMoves, ConversionRequestOK, Finds, C!Idle
  <2> QED BY <2>1, ConversionMovesKeep
<1>4. ASSUME C!Fail(q) PROVE ConversionInv'
  <2>1. /\ r.pc \in Executing /\ failures' = [failures EXCEPT ![r.c] = @ + 1]
        /\ C!Goto(q, "failed")
        /\ UNCHANGED <<conversion, swapped, deposited, conversionCalls>>
    BY <1>4 DEF C!Fail, r, Executing
  <2>2. Transfers' /\ \A d \in Conversions : failures[d] <= failures'[d]
    BY <1>0, <1>00, <2>1 DEF Transfers
  <2>3. ConversionExecutionOK("failed", r.c, r.copy, r.run, failures', swapped', deposited')
    BY <1>0, <1>00, <2>1 DEF ConversionExecutionOK, ConversionRowOK, C!Row
  <2> QED BY <2>1, <2>2, <2>3, ConversionGoesKeep DEF r, Executing
<1> QED BY <1>1, <1>2, <1>3, <1>4

(* What the catch block saves counts one retry more. *)
LEMMA FailedRow ==
  ASSUME NEW row \in C!Row
  PROVE  LET n == [row EXCEPT !.status = "FAILED", !.retryCount = @ + 1]
         IN  n \in C!Row /\ n.status = "FAILED" /\ n.retryCount = row.retryCount + 1
<1>1. row.retryCount + 1 \in Nat
  BY DEF C!Row
<1>2. ASSUME NEW k \in Nat
      PROVE  LET n == [row EXCEPT !.status = "FAILED", !.retryCount = k]
             IN  n \in C!Row /\ n.status = "FAILED" /\ n.retryCount = k
  BY DEF C!Row, C!ConversionStatus, C!Open
<1> QED BY <1>1, <1>2

(* A request ends, and saves a row it may save, or nothing. *)
LEMMA ConversionEndingSteps ==
  ASSUME ConversionInv, NEW q \in ConversionRequests,
         C!Store(q) \/ C!StoreThrows(q) \/ C!SaveCancelled(q) \/ C!SaveFailed(q)
  PROVE  ConversionInv'
<1> DEFINE r == conversionRequest[q]
<1>0. conversionCalls \in Nat
  BY DEF ConversionInv, Transfers
<1>1. ConversionRequestOK(C!Idle, failures, swapped, deposited) /\ Finds(C!Idle, conversion)
  BY DEF ConversionRequestOK, Finds, C!Idle
<1>2. ASSUME NEW row, ConversionRowOK(r.c, row, failures, swapped, deposited), r.c \in Conversions,
             conversion' \in {conversion, [conversion EXCEPT ![r.c] = row]},
             C!Done(q), UNCHANGED <<failures, swapped, deposited, conversionCalls>>
      PROVE  ConversionInv'
  BY <1>0, <1>1, <1>2, ConversionRequestStep DEF C!Done
<1>3. ASSUME C!Store(q) \/ C!SaveCancelled(q) PROVE ConversionInv'
  <2>1. r.c \in Conversions /\ ConversionRowOK(r.c, r.copy, failures, swapped, deposited)
    BY <1>3, WaitingAt DEF C!Store, C!SaveCancelled, C!At, Waiting
  <2> QED BY <1>2, <1>3, <2>1 DEF C!Store, C!SaveCancelled, C!Copy
<1>4. ASSUME C!StoreThrows(q) PROVE ConversionInv'
  BY <1>0, <1>1, <1>4, ConversionMovesKeep DEF ConversionRequestMoves, C!StoreThrows, C!Done
<1>5. ASSUME C!SaveFailed(q) PROVE ConversionInv'
  <2>1. /\ r.c \in Conversions /\ r.copy \in C!Row
        /\ ConversionExecutionOK("failed", r.c, r.copy, r.run, failures, swapped, deposited)
    BY <1>5, ExecutionAt DEF C!SaveFailed, C!At, Executing
  <2>2. /\ C!FailedCopy(q) \in C!Row /\ C!FailedCopy(q).status = "FAILED"
        /\ C!FailedCopy(q).retryCount = r.copy.retryCount + 1
    BY <2>1, FailedRow DEF C!FailedCopy, C!Copy
  <2>3. ConversionRowOK(r.c, C!FailedCopy(q), failures, swapped, deposited)
    BY <2>1, <2>2 DEF ConversionExecutionOK, ConversionRowOK
  <2> QED BY <1>2, <1>5, <2>1, <2>3 DEF C!SaveFailed
<1> QED BY <1>3, <1>4, <1>5

(* Every step of the engine keeps the conversions' invariant. *)
LEMMA NextConversionInv == ConversionInv /\ C!Next => ConversionInv'
<1>1. C!NextDay /\ ConversionInv => ConversionInv'
  BY DEF C!NextDay, ConversionInv, ConversionRows, ConversionRequestsOK, Transfers
<1> QED BY <1>1, ConversionBeginningSteps, ConversionSavingSteps, ConversionOtherExecutionSteps, ConversionEndingSteps DEF C!Next

(* Other parts leave the conversions alone. *)
LEMMA RestingConversion ==
  (ConversionInv /\ VolumeInv) /\ UNCHANGED ofConversion => (ConversionInv /\ VolumeInv)'
BY DEF ofConversion, ConversionInv, ConversionRows, ConversionRequestsOK, Transfers, VolumeInv,
       SettledOnce, RunsApart, Runs

(* A request that moves keeps the number of its execution, ends it, or begins one
   with the next number. *)
RunsMove ==
  /\ conversionCalls' \in Nat /\ conversionCalls' >= conversionCalls
  /\ \A p \in ConversionRequests : Runs(p)' =>
       \/ Runs(p) /\ conversionRequest'[p].run = conversionRequest[p].run
       \/ /\ conversionRequest'[p].run = conversionCalls + 1
          /\ conversionCalls' = conversionCalls + 1
          /\ \A o \in ConversionRequests \ {p} : conversionRequest'[o] = conversionRequest[o]

(* One request moves to r. *)
LEMMA OneRunMoves ==
  ASSUME ConversionInv, NEW q \in ConversionRequests, NEW r,
         conversionRequest' = [conversionRequest EXCEPT ![q] = r],
         conversionCalls' \in {conversionCalls, conversionCalls + 1},
         r.pc \in Executing =>
           \/ Runs(q) /\ r.run = conversionRequest[q].run
           \/ r.run = conversionCalls + 1 /\ conversionCalls' = conversionCalls + 1
  PROVE  RunsMove
<1>1. conversionRequest'[q] = r
      /\ \A o \in ConversionRequests \ {q} : conversionRequest'[o] = conversionRequest[o]
  BY DEF ConversionInv, ConversionRequestsOK
<1>2. conversionCalls' \in Nat /\ conversionCalls' >= conversionCalls
  BY DEF ConversionInv, Transfers
<1> QED BY <1>1, <1>2 DEF RunsMove, Runs

(* An execution that goes on keeps its number. *)
LEMMA GoingRuns ==
  ASSUME ConversionInv, NEW q \in ConversionRequests, Runs(q), UNCHANGED conversionCalls,
         \E pc, row : C!Goto(q, pc) \/ C!SaveAs(q, row, pc)
  PROVE  RunsMove
<1> DEFINE old == conversionRequest[q]
<1>1. PICK pc, row : C!Goto(q, pc) \/ C!SaveAs(q, row, pc)
  OBVIOUS
<1>2. old \in ExecutionState
  BY ExecutionAt DEF Runs
<1>3. [old EXCEPT !.pc = pc].run = old.run /\ [old EXCEPT !.copy = row, !.pc = pc].run = old.run
  BY <1>2 DEF ExecutionState
<1>4. CASE C!Goto(q, pc)
  BY <1>3, <1>4, OneRunMoves DEF C!Goto
<1>5. CASE C!SaveAs(q, row, pc)
  <2> DEFINE n == [old EXCEPT !.copy = row, !.pc = pc]
  <2>1. conversionRequest' = [conversionRequest EXCEPT ![q] = n]
    BY <1>5 DEF C!SaveAs
  <2>2. n.run = old.run
    BY <1>3
  <2> HIDE DEF n
  <2> QED BY <2>1, <2>2, OneRunMoves
<1> QED BY <1>1, <1>4, <1>5

(* Every step moves the numbers of executions so. *)
LEMMA NextRuns ==
  ASSUME ConversionInv, C!Next
  PROVE  RunsMove
<1> USE DEF C!At, Runs, Executing
<1>0. conversionCalls \in Nat
  BY DEF ConversionInv, Transfers
<1>1. ASSUME NEW q \in ConversionRequests, NEW c \in Conversions,
             \/ \E bridged \in BOOLEAN : C!CreateConversion(q, c, bridged)
             \/ C!RetryConversion(q, c) \/ C!CancelConversion(q, c)
      PROVE  RunsMove
  <2>1. ASSUME NEW r, C!Begin(q, r), r.pc \notin Executing PROVE RunsMove
    BY <2>1, OneRunMoves DEF C!Begin
  <2>2. ASSUME NEW bridged \in BOOLEAN, C!CreateConversion(q, c, bridged) PROVE RunsMove
    <3> DEFINE n == [status |-> "PENDING", bridged |-> bridged, swap |-> C!None,
                     settlement |-> C!None, retryCount |-> 0]
    <3>1. C!Begin(q, [pc |-> "store", c |-> c, copy |-> n])
      BY <2>2 DEF C!CreateConversion
    <3> HIDE DEF n
    <3> QED BY <2>1, <3>1
  <2>3. CASE C!RetryConversion(q, c)
    <3>1. C!Begin(q, [pc |-> "again", c |-> c])
      BY <2>3 DEF C!RetryConversion
    <3> QED BY <2>1, <3>1
  <2>4. CASE C!CancelConversion(q, c)
    <3> DEFINE n == [conversion[c] EXCEPT !.status = "CANCELLED"]
    <3>1. C!Begin(q, [pc |-> "cancel", c |-> c, copy |-> n])
      BY <2>4 DEF C!CancelConversion
    <3> HIDE DEF n
    <3> QED BY <2>1, <3>1
  <2> QED BY <1>1, <2>2, <2>3, <2>4
<1>2. ASSUME NEW q \in ConversionRequests, NEW c \in Conversions, C!ExecuteConversion(q, c)
      PROVE  RunsMove
  <2>1. C!Begin(q, C!Execution(c)) /\ C!Execution(c).run = conversionCalls + 1
    BY <1>2 DEF C!ExecuteConversion, C!Execution
  <2> QED BY <2>1, OneRunMoves DEF C!Begin
<1>3. ASSUME NEW q \in ConversionRequests, C!ReadAgain(q)
      PROVE  RunsMove
  <2> DEFINE r == C!Execution(conversionRequest[q].c)
  <2>1. /\ conversionRequest' = [conversionRequest EXCEPT ![q] = r]
        /\ r.run = conversionCalls + 1 /\ conversionCalls' = conversionCalls + 1
    BY <1>3 DEF C!ReadAgain, C!Execution
  <2> HIDE DEF r
  <2> QED BY <2>1, OneRunMoves
<1>4. ASSUME NEW q \in ConversionRequests,
             \/ C!Store(q) \/ C!StoreThrows(q) \/ C!ExecuteTrade(q) \/ C!SaveFailed(q)
             \/ C!SaveCancelled(q)
      PROVE  RunsMove
  <2>1. C!Done(q) /\ UNCHANGED conversionCalls
    BY <1>4 DEF C!Store, C!StoreThrows, C!ExecuteTrade, C!SaveFailed, C!SaveCancelled
  <2>2. C!Idle.pc \notin Executing
    BY DEF C!Idle
  <2> QED BY <2>1, <2>2, OneRunMoves DEF C!Done
<1>5. ASSUME NEW q \in ConversionRequests,
             \/ C!Discover(q) \/ C!Route(q) \/ C!SaveHash(q) \/ C!Bridge(q) \/ C!Settle(q)
             \/ C!Complete(q)
      PROVE  RunsMove
  <2>1. Runs(q) /\ UNCHANGED conversionCalls /\ \E pc, row : C!SaveAs(q, row, pc)
    BY <1>5 DEF C!Discover, C!Route, C!SaveHash, C!Bridge, C!Settle, C!Complete
  <2> QED BY <2>1, GoingRuns
<1>6. ASSUME NEW q \in ConversionRequests, C!Swap(q) \/ C!DepositToVault(q) \/ C!Fail(q)
      PROVE  RunsMove
  <2>1. Runs(q) /\ UNCHANGED conversionCalls /\ \E pc : C!Goto(q, pc)
    BY <1>6 DEF C!Swap, C!DepositToVault, C!Fail
  <2> QED BY <2>1, GoingRuns
<1>7. CASE C!NextDay
  BY <1>0, <1>7 DEF C!NextDay, RunsMove
<1> QED BY <1>1, <1>2, <1>3, <1>4, <1>5, <1>6, <1>7 DEF C!Next

(* Executions that are counted, or none, keep their numbers to themselves. *)
LEMMA RunsStayApart ==
  ASSUME ConversionInv, VolumeInv, RunsMove, settledToday' \subseteq settledToday
  PROVE  RunsApart' /\ \A x \in settledToday' : x[2] <= conversionCalls'
<1>0. /\ conversionCalls \in Nat /\ conversionCalls' \in Nat /\ conversionCalls' >= conversionCalls
      /\ \A x \in settledToday : x[2] <= conversionCalls /\ x[2] \in Nat
  BY DEF ConversionInv, Transfers, VolumeInv, SettledOnce, RunsMove
<1>1. \A p \in ConversionRequests : Runs(p) => conversionRequest[p].run \in Nat
  BY ExecutionAt DEF Runs
<1>2. ASSUME NEW q \in ConversionRequests, Runs(q)'
      PROVE  /\ conversionRequest'[q].run <= conversionCalls'
             /\ \A x \in settledToday' : x[2] # conversionRequest'[q].run
  <2>1. CASE Runs(q) /\ conversionRequest'[q].run = conversionRequest[q].run
    BY <1>0, <1>1, <2>1 DEF VolumeInv, RunsApart
  <2>2. CASE conversionRequest'[q].run = conversionCalls + 1 /\ conversionCalls' = conversionCalls + 1
    BY <1>0, <2>2
  <2> QED BY <1>2, <2>1, <2>2 DEF RunsMove
<1>3. ASSUME NEW q \in ConversionRequests, Runs(q)', NEW p \in ConversionRequests \ {q}, Runs(p)'
      PROVE  conversionRequest'[p].run # conversionRequest'[q].run
  <2> DEFINE Kept(o) == Runs(o) /\ conversionRequest'[o].run = conversionRequest[o].run
             New(o) == /\ conversionRequest'[o].run = conversionCalls + 1
                       /\ \A i \in ConversionRequests \ {o} : conversionRequest'[i] = conversionRequest[i]
  <2>1. (Kept(q) \/ New(q)) /\ (Kept(p) \/ New(p))
    BY <1>3 DEF RunsMove
  <2>2. \A o \in ConversionRequests : Runs(o) => conversionRequest[o].run <= conversionCalls
    BY DEF VolumeInv, RunsApart
  <2>3. CASE Kept(q) /\ Kept(p)
    BY <2>3 DEF VolumeInv, RunsApart
  <2>4. CASE New(q)
    <3>1. conversionRequest'[p] = conversionRequest[p] /\ Runs(p)
      BY <1>3, <2>4 DEF Runs
    <3> QED BY <1>0, <1>1, <2>2, <2>4, <3>1
  <2>5. CASE New(p)
    <3>1. conversionRequest'[q] = conversionRequest[q] /\ Runs(q)
      BY <1>3, <2>5 DEF Runs
    <3> QED BY <1>0, <1>1, <2>2, <2>5, <3>1
  <2> QED BY <2>1, <2>3, <2>4, <2>5
<1>4. RunsApart'
  BY <1>2, <1>3 DEF RunsApart, Runs
<1>5. \A x \in settledToday' : x[2] <= conversionCalls'
  BY <1>0
<1> QED BY <1>4, <1>5

(* An execution that ends is counted: it has paid, and nothing counted has its number. *)
LEMMA CountedOnce ==
  ASSUME ConversionInv, VolumeInv, RunsMove,
         NEW q \in ConversionRequests, C!ExecuteTrade(q)
  PROVE  VolumeInv'
<1> DEFINE old == conversionRequest[q]
           it == <<old.c, old.run>>
           kept == C!SettledNow
<1>1. /\ Runs(q) /\ old.pc = "count" /\ it \in deposited /\ old.run \in Nat
      /\ old.run <= conversionCalls /\ \A x \in settledToday : x[2] # old.run
  <2>1. Runs(q) /\ old.pc = "count"
    BY DEF C!ExecuteTrade, C!At, Runs, Executing
  <2>2. it \in deposited /\ old.run \in Nat
    BY <2>1, ExecutionAt DEF Runs, ConversionExecutionOK
  <2> QED BY <2>1, <2>2 DEF VolumeInv, RunsApart
<1>2. /\ settledToday' = kept \cup {it} /\ volume' = C!VolumeNow + 1
      /\ UNCHANGED <<deposited, conversionCalls>>
      /\ conversionRequest' = [conversionRequest EXCEPT ![q] = C!Idle]
  BY LimitsAssumption DEF C!ExecuteTrade, C!WithinLimit, C!Done
<1>3. /\ kept \subseteq settledToday /\ IsFiniteSet(kept) /\ C!VolumeNow = Cardinality(kept)
  BY FS_EmptySet DEF C!SettledNow, C!VolumeNow, VolumeInv, SettledOnce
<1>4. it \notin kept
  <2>1. it[2] = old.run
    OBVIOUS
  <2> QED BY <1>1, <1>3, <2>1
<1> HIDE DEF kept, it
<1>5. IsFiniteSet(settledToday') /\ volume' = Cardinality(settledToday')
  BY <1>2, <1>3, <1>4, FS_AddElement
<1>6. settledToday' \subseteq deposited'
  BY <1>1, <1>2, <1>3 DEF VolumeInv, SettledOnce
<1>7. \A x \in settledToday' : x[2] <= conversionCalls'
  <2>1. it[2] = old.run
    BY DEF it
  <2> QED BY <1>1, <1>2, <1>3, <2>1 DEF VolumeInv, SettledOnce
<1>8. RunsApart'
  <2>1. \A p \in ConversionRequests : Runs(p)' =>
          p # q /\ Runs(p) /\ conversionRequest'[p] = conversionRequest[p]
    BY <1>2 DEF Runs, Executing, C!Idle, ConversionInv, ConversionRequestsOK
  <2>2. it[2] = old.run
    BY DEF it
  <2>3. ASSUME NEW p \in ConversionRequests, Runs(p)'
        PROVE  /\ conversionRequest'[p].run <= conversionCalls'
               /\ \A x \in settledToday' : x[2] # conversionRequest'[p].run
    BY <1>1, <1>2, <1>3, <2>1, <2>2, <2>3 DEF VolumeInv, RunsApart
  <2>4. ASSUME NEW p \in ConversionRequests, Runs(p)', NEW o \in ConversionRequests \ {p}, Runs(o)'
        PROVE  conversionRequest'[o].run # conversionRequest'[p].run
    BY <2>1, <2>4 DEF VolumeInv, RunsApart
  <2> QED BY <2>3, <2>4 DEF RunsApart
<1> QED BY <1>5, <1>6, <1>7, <1>8 DEF VolumeInv, SettledOnce

(* The volume moves when it is reset and when an execution is counted. *)
LEMMA NextVolumeInv == ConversionInv /\ VolumeInv /\ C!Next => VolumeInv'
<1> SUFFICES ASSUME ConversionInv, VolumeInv, C!Next PROVE VolumeInv'
  OBVIOUS
<1>0. RunsMove
  BY NextRuns
<1>1. CASE \E q \in ConversionRequests : C!ExecuteTrade(q)
  BY <1>0, <1>1, CountedOnce
<1>2. ASSUME \/ (settledToday' = settledToday /\ volume' = volume)
             \/ (settledToday' = {} /\ volume' = 0),
             deposited \subseteq deposited'
      PROVE  VolumeInv'
  <2>1. settledToday' \subseteq settledToday
    BY <1>2
  <2>2. IsFiniteSet(settledToday') /\ volume' = Cardinality(settledToday')
        /\ settledToday' \subseteq deposited'
    BY <1>2, FS_EmptySet DEF VolumeInv, SettledOnce
  <2> QED BY <1>0, <2>1, <2>2, RunsStayApart DEF VolumeInv, SettledOnce
<1>3. ASSUME NEW q \in ConversionRequests, NEW c \in Conversions, NEW bridged \in BOOLEAN,
             C!CreateConversion(q, c, bridged)
      PROVE  VolumeInv'
  <2>1. volume' = C!VolumeNow /\ settledToday' = C!SettledNow /\ deposited' = deposited
    BY <1>3 DEF C!CreateConversion, C!ResetDailyVolumes
  <2>2. CASE day = lastResetDate
    BY <1>2, <2>1, <2>2 DEF C!VolumeNow, C!SettledNow
  <2>3. CASE day # lastResetDate
    BY <1>2, <2>1, <2>3 DEF C!VolumeNow, C!SettledNow
  <2> QED BY <2>2, <2>3
<1>4. CASE volume' = volume /\ settledToday' = settledToday /\ deposited \subseteq deposited'
  BY <1>2, <1>4
<1> QED
  BY <1>1, <1>3, <1>4
     DEF C!Next, C!Store, C!StoreThrows, C!ExecuteConversion, C!RetryConversion, C!ReadAgain,
         C!Discover, C!Route, C!Swap, C!SaveHash, C!Bridge, C!Settle, C!DepositToVault,
         C!Complete, C!Fail, C!SaveFailed, C!CancelConversion, C!SaveCancelled, C!NextDay

(* Whatever executions overlap, fail or are retried: nothing is paid out that was
   not swapped first, a COMPLETED row names the swap and the deposit of one
   execution, no retry is counted that no failure made, and the daily volume
   counts each execution of the day once, and only what it paid out
   (conversion.service.ts, risk-management.service.ts). *)
THEOREM ConversionsHold == SumSpec => []ConversionsKeepBooks
<1> DEFINE IInv == ConversionInv /\ VolumeInv
<1>1. SumInit => IInv
  BY InitConversion DEF SumInit
<1>2. IInv /\ [SumNext]_sumVars => IInv'
  BY NextConversionInv, NextVolumeInv, RestingConversion DEF SumNext, sumVars
<1>3. IInv => ConversionsKeepBooks
  BY ConversionImplies
<1> QED BY <1>1, <1>2, <1>3, PTL DEF SumSpec

-----------------------------------------------------------------------------

(***************************************************************************)
(* Batches.  SettlementInv: a batch being approved or executed has the     *)
(* plan that the netting of its swaps made, and a completed one the        *)
(* approvals that were enough.                                             *)
(***************************************************************************)

(* A batch whose total strings together the amounts of its swaps. *)
IsBatch(row) ==
  /\ IsFiniteSet(row.swaps)
  /\ row = [status |-> row.status, swaps |-> row.swaps, total |-> T!Strung(row.swaps)]
  /\ row.status \in T!BatchStatus
NettingOf(swaps) ==
  {T!Payment(g) : g \in {h \in T!Groups(swaps) : T!Cardinality(h) > 1}}

(* A batch with what was planned for it, who approves it and who did. *)
BatchOK(row, planned, approvers, approved) ==
  /\ IsBatch(row) \/ row = T!NoBatch
  /\ IsFiniteSet(approvers)
  /\ approvers # T!NotSubmitted => row.status = "processing"
  /\ row.status \in {"processing", "completed"} => planned = NettingOf(row.swaps)
  /\ row.status = "completed" => T!Cardinality(approved) >= RequiredApprovals

(* No payment's amount is a number, and no swap is paid twice. *)
PlanPays(planned) ==
  /\ \A p \in planned : T!ReadsAs(p.amount) = {} /\ DOMAIN p.amount = p.swaps
  /\ \A p, r \in planned : p # r => p.swaps \cap r.swaps = {}

SettlementInv ==
  /\ batch = [b \in BatchIds |-> batch[b]]
  /\ approvals = [b \in BatchIds |-> approvals[b]]
  /\ approvedBy = [b \in BatchIds |-> approvedBy[b]]
  /\ plan = [b \in BatchIds |-> plan[b]]
  /\ \A b \in BatchIds : /\ BatchOK(batch[b], plan[b], approvals[b], approvedBy[b])
                         /\ PlanPays(plan[b])

(* Two groups of swaps share no swap. *)
LEMMA GroupsAreDisjoint ==
  ASSUME NEW swaps, NEW g \in T!Groups(swaps), NEW h \in T!Groups(swaps), g # h
  PROVE  g \cap h = {}
BY DEF T!Groups

(* The text of several amounts is no number. *)
LEMMA SeveralAreNoNumber ==
  ASSUME NEW swaps, T!Cardinality(swaps) > 1
  PROVE  T!ReadsAs(T!Strung(swaps)) = {} /\ DOMAIN T!Strung(swaps) = swaps
<1>1. DOMAIN T!Strung(swaps) = swaps
  BY DEF T!Strung
<1>2. T!Cardinality(swaps) # 1
  OBVIOUS
<1> QED BY <1>1, <1>2 DEF T!ReadsAs

(* A text that is a number is the amount of one swap. *)
LEMMA OneIsItsAmount ==
  ASSUME NEW swaps, IsFiniteSet(swaps), NEW n \in T!ReadsAs(T!Strung(swaps))
  PROVE  \E s \in swaps : swaps = {s} /\ n = MCPaid(s)
<1>1. DOMAIN T!Strung(swaps) = swaps /\ \A s \in swaps : T!Strung(swaps)[s] = MCPaid(s)
  BY DEF T!Strung
<1>2. Cardinality(swaps) = 1
  BY <1>1, SameCardinality DEF T!ReadsAs
<1>3. PICK s \in swaps : n = MCPaid(s)
  BY <1>1 DEF T!ReadsAs
<1>4. \E r : swaps = {r}
  BY <1>2, FS_Singleton
<1> QED BY <1>3, <1>4

(* The netting of any set of swaps pays no number, and no swap twice. *)
LEMMA NettingPays == ASSUME NEW swaps PROVE PlanPays(NettingOf(swaps))
<1>1. ASSUME NEW p \in NettingOf(swaps)
      PROVE  /\ p.swaps \in T!Groups(swaps) /\ p = T!Payment(p.swaps)
             /\ T!ReadsAs(p.amount) = {} /\ DOMAIN p.amount = p.swaps
  <2>1. PICK g \in T!Groups(swaps) : p = T!Payment(g) /\ T!Cardinality(g) > 1
    BY DEF NettingOf
  <2>2. p.swaps = g /\ p.amount = T!Strung(g)
    BY <2>1 DEF T!Payment
  <2>3. T!ReadsAs(T!Strung(g)) = {} /\ DOMAIN T!Strung(g) = g
    BY <2>1, SeveralAreNoNumber
  <2> QED BY <2>1, <2>2, <2>3
<1>2. ASSUME NEW p \in NettingOf(swaps), NEW r \in NettingOf(swaps), p # r
      PROVE  p.swaps \cap r.swaps = {}
  <2>1. p.swaps # r.swaps
    BY <1>1, <1>2
  <2> QED BY <1>1, <2>1, GroupsAreDisjoint
<1> QED BY <1>1, <1>2 DEF PlanPays

(* Swaps are numbers. *)
LEMMA SwapsAreNumbers == Swaps \subseteq Int
BY SwapsAssumption, FS_CardinalityType

(* A batch keeps its swaps and its total whatever its status. *)
LEMMA BatchMoves ==
  ASSUME NEW row, IsBatch(row), NEW status \in T!BatchStatus
  PROVE  /\ IsBatch([row EXCEPT !.status = status])
         /\ [row EXCEPT !.status = status].status = status
         /\ [row EXCEPT !.status = status].swaps = row.swaps
BY DEF IsBatch

(* No batch is made, planned or approved at first. *)
LEMMA InitSettlement == T!Init => SettlementInv
<1> SUFFICES ASSUME T!Init PROVE SettlementInv
  OBVIOUS
<1>1. IsFiniteSet(T!NotSubmitted)
  BY FS_Singleton DEF T!NotSubmitted
<1>2. T!NoBatch.status = "none"
  BY DEF T!NoBatch
<1>3. PlanPays({})
  BY DEF PlanPays
<1>4. \A b \in BatchIds : batch[b] = T!NoBatch /\ approvals[b] = T!NotSubmitted /\ plan[b] = {}
  BY DEF T!Init
<1> QED BY <1>1, <1>2, <1>3, <1>4 DEF T!Init, SettlementInv, BatchOK

(* One batch moves. *)
LEMMA SettlementStep ==
  ASSUME SettlementInv, NEW b \in BatchIds, NEW row, NEW planned, NEW approvers, NEW approved,
         batch' = [batch EXCEPT ![b] = row], plan' = [plan EXCEPT ![b] = planned],
         approvals' = [approvals EXCEPT ![b] = approvers],
         approvedBy' = [approvedBy EXCEPT ![b] = approved],
         BatchOK(row, planned, approvers, approved), PlanPays(planned)
  PROVE  SettlementInv'
<1>1. /\ batch' = [d \in BatchIds |-> batch'[d]] /\ plan' = [d \in BatchIds |-> plan'[d]]
      /\ approvals' = [d \in BatchIds |-> approvals'[d]]
      /\ approvedBy' = [d \in BatchIds |-> approvedBy'[d]]
  BY DEF SettlementInv
<1>2. \A d \in BatchIds :
        /\ batch'[d] = (IF d = b THEN row ELSE batch[d])
        /\ plan'[d] = (IF d = b THEN planned ELSE plan[d])
        /\ approvals'[d] = (IF d = b THEN approvers ELSE approvals[d])
        /\ approvedBy'[d] = (IF d = b THEN approved ELSE approvedBy[d])
  BY DEF SettlementInv
<1>3. ASSUME NEW d \in BatchIds
      PROVE  BatchOK(batch'[d], plan'[d], approvals'[d], approvedBy'[d]) /\ PlanPays(plan'[d])
  BY <1>2 DEF SettlementInv
<1> QED BY <1>1, <1>3 DEF SettlementInv

(* Every step of the settlement keeps its invariant. *)
LEMMA NextSettlementInv == SettlementInv /\ T!Next => SettlementInv'
<1> SUFFICES ASSUME SettlementInv, T!Next PROVE SettlementInv'
  OBVIOUS
<1>0. IsFiniteSet(T!NotSubmitted) /\ T!NoBatch.status = "none" /\ PlanPays({})
  BY FS_Singleton DEF T!NotSubmitted, T!NoBatch, PlanPays
<1>1. CASE T!CompleteSwap
  BY <1>1 DEF T!CompleteSwap, SettlementInv
<1>2. CASE T!Restart
  BY <1>0, <1>2 DEF T!Restart, SettlementInv, BatchOK
<1>3. ASSUME NEW b \in BatchIds, NEW first \in Swaps, NEW last \in Swaps,
             T!AggregatePayments(b, first, last)
      PROVE  SettlementInv'
  <2>0. IsFiniteSet(first..last)
    BY SwapsAssumption, SwapsAreNumbers, FS_Interval
  <2> DEFINE row == [status |-> "pending", swaps |-> first..last, total |-> T!Strung(first..last)]
  <2>1. IsBatch(row) /\ row.status = "pending"
    BY <2>0 DEF IsBatch, T!BatchStatus
  <2> HIDE DEF row
  <2>2. BatchOK(row, {}, T!NotSubmitted, {})
    BY <1>0, <2>1 DEF BatchOK
  <2>3. batch' = [batch EXCEPT ![b] = row]
    BY <1>3 DEF T!AggregatePayments, row
  <2> QED BY <1>0, <1>3, <2>2, <2>3, SettlementStep DEF T!AggregatePayments
<1>4. ASSUME NEW b \in BatchIds
      PROVE  /\ BatchOK(batch[b], plan[b], approvals[b], approvedBy[b]) /\ PlanPays(plan[b])
             /\ batch = [batch EXCEPT ![b] = batch[b]] /\ plan = [plan EXCEPT ![b] = plan[b]]
             /\ approvals = [approvals EXCEPT ![b] = approvals[b]]
             /\ approvedBy = [approvedBy EXCEPT ![b] = approvedBy[b]]
  BY DEF SettlementInv
<1>5. ASSUME NEW b \in BatchIds, T!ApplyNetting(b) PROVE SettlementInv'
  <2> DEFINE row == [batch[b] EXCEPT !.status = "processing"]
  <2>1. IsBatch(batch[b]) /\ batch[b].status = "pending"
    BY <1>0, <1>4, <1>5 DEF T!ApplyNetting, BatchOK
  <2>2. IsBatch(row) /\ row.status = "processing" /\ row.swaps = batch[b].swaps
    BY <2>1, BatchMoves DEF T!BatchStatus
  <2>3. BatchOK(row, NettingOf(batch[b].swaps), approvals[b], approvedBy[b])
    BY <1>4, <2>1, <2>2 DEF BatchOK
  <2>4. batch' = [batch EXCEPT ![b] = row]
        /\ plan' = [plan EXCEPT ![b] = NettingOf(batch[b].swaps)]
        /\ approvals' = [approvals EXCEPT ![b] = approvals[b]]
        /\ approvedBy' = [approvedBy EXCEPT ![b] = approvedBy[b]]
    BY <1>4, <1>5 DEF T!ApplyNetting, NettingOf
  <2>5. PlanPays(NettingOf(batch[b].swaps))
    BY NettingPays
  <2> HIDE DEF row
  <2> QED BY <2>3, <2>4, <2>5, SettlementStep
<1>6. ASSUME NEW b \in BatchIds, T!SubmitSettlementForApproval(b) PROVE SettlementInv'
  <2>1. BatchOK(batch[b], plan[b], {}, approvedBy[b])
    BY <1>4, <1>6, FS_EmptySet DEF T!SubmitSettlementForApproval, BatchOK
  <2>2. /\ batch' = [batch EXCEPT ![b] = batch[b]] /\ plan' = [plan EXCEPT ![b] = plan[b]]
        /\ approvals' = [approvals EXCEPT ![b] = {}]
        /\ approvedBy' = [approvedBy EXCEPT ![b] = approvedBy[b]]
    BY <1>4, <1>6 DEF T!SubmitSettlementForApproval
  <2>3. PlanPays(plan[b])
    BY <1>4
  <2> QED BY <2>1, <2>2, <2>3, SettlementStep
<1>7. ASSUME NEW b \in BatchIds, NEW a, T!ApproveSettlement(b, a) PROVE SettlementInv'
  <2> DEFINE approvers == approvals[b] \cup {a}
             row == [batch[b] EXCEPT !.status = "completed"]
  <2>1. /\ batch[b].status = "processing" /\ IsBatch(batch[b]) /\ IsFiniteSet(approvers)
    BY <1>0, <1>4, <1>7, FS_AddElement DEF T!ApproveSettlement, BatchOK
  <2>2. IsBatch(row) /\ row.status = "completed" /\ row.swaps = batch[b].swaps
    BY <2>1, BatchMoves DEF T!BatchStatus
  <2>3. T!Cardinality(approvers) \in Nat
    BY <2>1, FS_CardinalityType, SameCardinality
  <2>4. CASE T!Enough(approvers)
    <3>1. T!Cardinality(approvers) >= RequiredApprovals
      BY <2>3, <2>4, ApprovalsAssumption DEF T!Enough
    <3>2. BatchOK(row, plan[b], T!NotSubmitted, approvers)
      BY <1>0, <1>4, <2>1, <2>2, <3>1 DEF BatchOK
    <3>3. /\ batch' = [batch EXCEPT ![b] = row]
          /\ approvals' = [approvals EXCEPT ![b] = T!NotSubmitted]
          /\ approvedBy' = [approvedBy EXCEPT ![b] = approvers]
          /\ plan' = [plan EXCEPT ![b] = plan[b]]
      BY <1>4, <1>7, <2>4 DEF T!ApproveSettlement
    <3> HIDE DEF row, approvers
    <3> QED BY <1>4, <3>2, <3>3, SettlementStep
  <2>5. CASE ~ T!Enough(approvers)
    <3>1. BatchOK(batch[b], plan[b], approvers, approvedBy[b])
      BY <1>4, <2>1 DEF BatchOK
    <3>2. /\ approvals' = [approvals EXCEPT ![b] = approvers]
          /\ batch' = [batch EXCEPT ![b] = batch[b]] /\ plan' = [plan EXCEPT ![b] = plan[b]]
          /\ approvedBy' = [approvedBy EXCEPT ![b] = approvedBy[b]]
      BY <1>4, <1>7, <2>5 DEF T!ApproveSettlement
    <3>3. PlanPays(plan[b])
      BY <1>4
    <3> HIDE DEF row, approvers
    <3> QED BY <3>1, <3>2, <3>3, SettlementStep
  <2> QED BY <2>4, <2>5
<1> QED BY <1>1, <1>2, <1>3, <1>5, <1>6, <1>7 DEF T!Next

(* Other parts leave the batches alone. *)
LEMMA RestingSettlement == SettlementInv /\ UNCHANGED ofSettlement => SettlementInv'
BY DEF ofSettlement, SettlementInv

(* The inductive invariant gives both parts of BatchesAreApproved. *)
LEMMA SettlementImplies == SettlementInv => BatchesAreApproved
<1> SUFFICES ASSUME SettlementInv PROVE BatchesAreApproved
  OBVIOUS
<1>1. ASSUME NEW b \in BatchIds, batch[b].status = "completed"
      PROVE  /\ T!Cardinality(approvedBy[b]) >= RequiredApprovals
             /\ \A g \in T!Groups(batch[b].swaps) : T!Cardinality(g) > 1 =>
                  \E p \in plan[b] : p.swaps = g
  <2>1. /\ T!Cardinality(approvedBy[b]) >= RequiredApprovals
        /\ plan[b] = NettingOf(batch[b].swaps)
    BY <1>1 DEF SettlementInv, BatchOK
  <2>2. ASSUME NEW g \in T!Groups(batch[b].swaps), T!Cardinality(g) > 1
        PROVE  \E p \in plan[b] : p.swaps = g
    <3>1. T!Payment(g) \in plan[b]
      BY <2>1, <2>2 DEF NettingOf
    <3> QED BY <3>1 DEF T!Payment
  <2> QED BY <2>1, <2>2
<1>2. ASSUME NEW b \in BatchIds, NEW n \in T!ReadsAs(batch[b].total)
      PROVE  \E s \in batch[b].swaps : batch[b].swaps = {s} /\ n = MCPaid(s)
  <2>1. IsBatch(batch[b]) \/ batch[b] = T!NoBatch
    BY DEF SettlementInv, BatchOK
  <2>2. CASE IsBatch(batch[b])
    <3>1. batch[b].total = T!Strung(batch[b].swaps) /\ IsFiniteSet(batch[b].swaps)
      BY <2>2 DEF IsBatch
    <3>2. PICK s \in batch[b].swaps : batch[b].swaps = {s} /\ n = MCPaid(s)
      BY <1>2, <3>1, OneIsItsAmount
    <3> QED BY <3>2
  <2>3. CASE batch[b] = T!NoBatch
    <3>1. DOMAIN batch[b].total = {}
      BY <2>3 DEF T!NoBatch
    <3> QED BY <1>2, <3>1 DEF T!ReadsAs
  <2> QED BY <2>1, <2>2, <2>3
<1>3. T!AmountsAreNeverWrong
  BY <1>2 DEF SettlementInv, PlanPays, T!AmountsAreNeverWrong
<1> QED BY <1>1, <1>3 DEF BatchesAreApproved, T!ExecutedIsApproved

(* A batch is executed with the approvals it needs, all given since it was last
   submitted, and with a plan of all its groups that pays no swap twice; an
   amount that is a number is that of a lone swap, sums being texts one behind
   the other (unified-settlement.service.ts). *)
THEOREM BatchesHold == SumSpec => []BatchesAreApproved
<1>1. SumInit => SettlementInv
  BY InitSettlement DEF SumInit
<1>2. SettlementInv /\ [SumNext]_sumVars => SettlementInv'
  BY NextSettlementInv, RestingSettlement DEF SumNext, sumVars
<1>3. SettlementInv => BatchesAreApproved
  BY SettlementImplies
<1> QED BY <1>1, <1>2, <1>3, PTL DEF SumSpec

-----------------------------------------------------------------------------

(***************************************************************************)
(* What is averaged.  The price with an index among the sorted ones exists *)
(* and is told by the numbers of prices below it and up to it; the first   *)
(* and the last are the lowest and the highest.                            *)
(***************************************************************************)
PricedBelow(quotes, p) == {s \in DOMAIN quotes : quotes[s] < p}
PricedUpTo(quotes, p) == {s \in DOMAIN quotes : quotes[s] <= p}
AreQuotes(quotes) ==
  DOMAIN quotes \subseteq Q!Sources /\ \A s \in DOMAIN quotes : quotes[s] \in Prices

(* The quotes are of finitely many sources, and natural numbers. *)
LEMMA QuotesCount ==
  ASSUME NEW quotes, AreQuotes(quotes)
  PROVE  /\ IsFiniteSet(DOMAIN quotes) /\ Cardinality(DOMAIN quotes) \in 0..5
         /\ \A s \in DOMAIN quotes : quotes[s] \in Nat
         /\ \A p : /\ IsFiniteSet(PricedBelow(quotes, p)) /\ Cardinality(PricedBelow(quotes, p)) \in Nat
                   /\ IsFiniteSet(PricedUpTo(quotes, p)) /\ Cardinality(PricedUpTo(quotes, p)) \in Nat
<1>1. IsFiniteSet({"1inch"}) /\ Cardinality({"1inch"}) = 1
  BY FS_Singleton
<1>2. /\ IsFiniteSet({"1inch"} \cup {"Jupiter"})
      /\ Cardinality({"1inch"} \cup {"Jupiter"}) <= 2
  <2> DEFINE before == {"1inch"}
  <2> HIDE DEF before
  <2>1. IsFiniteSet(before) /\ Cardinality(before) = 1
    BY <1>1 DEF before
  <2>2. /\ IsFiniteSet(before \cup {"Jupiter"}) /\ Cardinality(before \cup {"Jupiter"}) \in Nat
        /\ Cardinality(before) \in Nat /\ Cardinality(before \cup {"Jupiter"}) <= Cardinality(before) + 1
    BY <2>1, WithCount
  <2>3. Cardinality(before \cup {"Jupiter"}) <= 2
    BY <2>1, <2>2
  <2> QED BY <2>2, <2>3 DEF before
<1>3. /\ IsFiniteSet({"1inch"} \cup {"Jupiter"} \cup {"0x"})
      /\ Cardinality({"1inch"} \cup {"Jupiter"} \cup {"0x"}) <= 3
  <2> DEFINE before == {"1inch"} \cup {"Jupiter"}
  <2> HIDE DEF before
  <2>1. IsFiniteSet(before) /\ Cardinality(before) <= 2
    BY <1>2 DEF before
  <2>2. /\ IsFiniteSet(before \cup {"0x"}) /\ Cardinality(before \cup {"0x"}) \in Nat
        /\ Cardinality(before) \in Nat /\ Cardinality(before \cup {"0x"}) <= Cardinality(before) + 1
    BY <2>1, WithCount
  <2>3. Cardinality(before \cup {"0x"}) <= 3
    BY <2>1, <2>2
  <2> QED BY <2>2, <2>3 DEF before
<1>4. /\ IsFiniteSet({"1inch"} \cup {"Jupiter"} \cup {"0x"} \cup {"Binance"})
      /\ Cardinality({"1inch"} \cup {"Jupiter"} \cup {"0x"} \cup {"Binance"}) <= 4
  <2> DEFINE before == {"1inch"} \cup {"Jupiter"} \cup {"0x"}
  <2> HIDE DEF before
  <2>1. IsFiniteSet(before) /\ Cardinality(before) <= 3
    BY <1>3 DEF before
  <2>2. /\ IsFiniteSet(before \cup {"Binance"}) /\ Cardinality(before \cup {"Binance"}) \in Nat
        /\ Cardinality(before) \in Nat /\ Cardinality(before \cup {"Binance"}) <= Cardinality(before) + 1
    BY <2>1, WithCount
  <2>3. Cardinality(before \cup {"Binance"}) <= 4
    BY <2>1, <2>2
  <2> QED BY <2>2, <2>3 DEF before
<1>5. IsFiniteSet(Q!Sources) /\ Cardinality(Q!Sources) <= 5
  <2> DEFINE before == {"1inch"} \cup {"Jupiter"} \cup {"0x"} \cup {"Binance"}
  <2>0. Q!Sources = before \cup {"Coinbase"}
    BY DEF Q!Sources
  <2> HIDE DEF before
  <2>1. IsFiniteSet(before) /\ Cardinality(before) <= 4
    BY <1>4 DEF before
  <2>2. /\ IsFiniteSet(before \cup {"Coinbase"}) /\ Cardinality(before \cup {"Coinbase"}) \in Nat
        /\ Cardinality(before) \in Nat /\ Cardinality(before \cup {"Coinbase"}) <= Cardinality(before) + 1
    BY <2>1, WithCount
  <2>3. Cardinality(before \cup {"Coinbase"}) <= 5
    BY <2>1, <2>2
  <2> QED BY <2>0, <2>2, <2>3
<1>6. /\ IsFiniteSet(DOMAIN quotes) /\ Cardinality(DOMAIN quotes) \in Nat
      /\ Cardinality(Q!Sources) \in Nat /\ Cardinality(DOMAIN quotes) <= Cardinality(Q!Sources)
  BY <1>5, SubsetCount DEF AreQuotes
<1>7. Cardinality(DOMAIN quotes) \in 0..5
  BY <1>5, <1>6
<1>8. \A s \in DOMAIN quotes : quotes[s] \in Nat
  BY PricesAssumption DEF AreQuotes
<1>9. ASSUME NEW p
      PROVE  /\ IsFiniteSet(PricedBelow(quotes, p)) /\ Cardinality(PricedBelow(quotes, p)) \in Nat
             /\ IsFiniteSet(PricedUpTo(quotes, p)) /\ Cardinality(PricedUpTo(quotes, p)) \in Nat
  <2>1. PricedBelow(quotes, p) \subseteq DOMAIN quotes /\ PricedUpTo(quotes, p) \subseteq DOMAIN quotes
    BY DEF PricedBelow, PricedUpTo
  <2> QED BY <1>6, <2>1, SubsetCount
<1> QED BY <1>6, <1>7, <1>8, <1>9

(* There is a price with each index below their number. *)
SortedAt(quotes, index, p) ==
  /\ \E s \in DOMAIN quotes : quotes[s] = p
  /\ p \in Nat
  /\ Cardinality(PricedBelow(quotes, p)) <= index
  /\ index < Cardinality(PricedUpTo(quotes, p))

LEMMA SortedExists ==
  ASSUME NEW quotes, AreQuotes(quotes), NEW index \in Nat, index < Cardinality(DOMAIN quotes)
  PROVE  \E p : SortedAt(quotes, index, p)
<1> DEFINE reach == {p \in Nat : index < Cardinality(PricedUpTo(quotes, p))}
           whole == SumFunctionOnSet(quotes, DOMAIN quotes)
<1>1. whole \in Nat /\ \A s \in DOMAIN quotes : quotes[s] <= whole
  BY QuotesCount, SumOfNats
<1>2. PricedUpTo(quotes, whole) = DOMAIN quotes
  BY <1>1 DEF PricedUpTo
<1>3. whole \in reach
  BY <1>1, <1>2
<1> HIDE DEF whole, reach
<1>4. PICK p \in reach : \A n \in reach : p <= n
  <2>1. reach \subseteq Nat /\ reach # {}
    BY <1>3 DEF reach
  <2> QED BY <2>1, SmallestOf
<1>5. p \in Nat /\ index < Cardinality(PricedUpTo(quotes, p))
  BY <1>4 DEF reach
<1>6. CASE p = 0
  <2>1. PricedBelow(quotes, 0) = {}
    BY QuotesCount DEF PricedBelow
  <2>2. Cardinality(PricedBelow(quotes, p)) = 0
    BY <1>6, <2>1, FS_EmptySet
  <2>3. PricedUpTo(quotes, 0) # {}
    <3>1. Cardinality(PricedUpTo(quotes, 0)) # 0
      BY <1>5, <1>6
    <3> QED BY <3>1, FS_EmptySet
  <2>4. \E s \in DOMAIN quotes : quotes[s] = 0
    BY <2>3, QuotesCount DEF PricedUpTo
  <2> QED BY <1>5, <1>6, <2>2, <2>4 DEF SortedAt
<1>7. CASE p # 0
  <2>1. p - 1 \in Nat /\ p - 1 \notin reach
    <3>1. p - 1 \in Nat /\ ~(p <= p - 1)
      BY <1>5, <1>7
    <3> QED BY <1>4, <3>1
  <2>2. Cardinality(PricedUpTo(quotes, p - 1)) <= index
    <3>1. ~(index < Cardinality(PricedUpTo(quotes, p - 1)))
      BY <2>1 DEF reach
    <3>2. Cardinality(PricedUpTo(quotes, p - 1)) \in Nat
      BY QuotesCount
    <3> QED BY <3>1, <3>2
  <2>3. PricedBelow(quotes, p) = PricedUpTo(quotes, p - 1)
    <3>1. \A s \in DOMAIN quotes : quotes[s] < p <=> quotes[s] <= p - 1
      BY <1>5, QuotesCount
    <3> QED BY <3>1 DEF PricedBelow, PricedUpTo
  <2>4. \E s \in DOMAIN quotes : quotes[s] = p
    <3> SUFFICES ASSUME \A s \in DOMAIN quotes : quotes[s] # p PROVE FALSE
      OBVIOUS
    <3>1. \A s \in DOMAIN quotes : quotes[s] <= p <=> quotes[s] <= p - 1
      BY <1>5, QuotesCount
    <3>2. PricedUpTo(quotes, p) = PricedUpTo(quotes, p - 1)
      BY <3>1 DEF PricedUpTo
    <3>3. Cardinality(PricedUpTo(quotes, p)) \in Nat
      BY QuotesCount
    <3> QED BY <1>5, <2>2, <3>2, <3>3
  <2> QED BY <1>5, <2>2, <2>3, <2>4 DEF SortedAt
<1> QED BY <1>6, <1>7

LEMMA SortedIs ==
  ASSUME NEW quotes, AreQuotes(quotes), NEW index \in Nat, index < Cardinality(DOMAIN quotes)
  PROVE  SortedAt(quotes, index, Q!Sorted(quotes, index))
<1>1. \A p : /\ Q!Cardinality({s \in DOMAIN quotes : quotes[s] < p}) = Cardinality(PricedBelow(quotes, p))
             /\ Q!Cardinality({s \in DOMAIN quotes : quotes[s] <= p}) = Cardinality(PricedUpTo(quotes, p))
  BY SameCardinality DEF PricedBelow, PricedUpTo
<1>2. \A p : p \in Q!Range(quotes) <=> \E s \in DOMAIN quotes : quotes[s] = p
  BY DEF Q!Range
<1>3. PICK p : SortedAt(quotes, index, p)
  BY SortedExists
<1>4. /\ p \in Q!Range(quotes)
      /\ Q!Cardinality({s \in DOMAIN quotes : quotes[s] < p}) <= index
      /\ index < Q!Cardinality({s \in DOMAIN quotes : quotes[s] <= p})
  BY <1>1, <1>2, <1>3 DEF SortedAt
<1> DEFINE r == Q!Sorted(quotes, index)
<1>5. /\ r \in Q!Range(quotes)
      /\ Q!Cardinality({s \in DOMAIN quotes : quotes[s] < r}) <= index
      /\ index < Q!Cardinality({s \in DOMAIN quotes : quotes[s] <= r})
  BY <1>4 DEF Q!Sorted
<1> HIDE DEF r
<1>6. \E s \in DOMAIN quotes : quotes[s] = r
  BY <1>2, <1>5
<1>7. r \in Nat
  BY <1>6, QuotesCount
<1>8. Cardinality(PricedBelow(quotes, r)) <= index /\ index < Cardinality(PricedUpTo(quotes, r))
  BY <1>1, <1>5
<1> QED BY <1>6, <1>7, <1>8 DEF SortedAt, r

(* A greater index has a price no lower. *)
LEMMA SortedGrows ==
  ASSUME NEW quotes, AreQuotes(quotes), NEW i \in Nat, NEW j \in Nat, i <= j, NEW a, NEW b,
         SortedAt(quotes, i, a), SortedAt(quotes, j, b)
  PROVE  a <= b
<1> SUFFICES ASSUME ~(a <= b) PROVE FALSE
  OBVIOUS
<1>1. a \in Nat /\ b \in Nat /\ b < a
  BY DEF SortedAt
<1>2. PricedUpTo(quotes, b) \subseteq PricedBelow(quotes, a)
  BY <1>1, QuotesCount DEF PricedUpTo, PricedBelow
<1>3. IsFiniteSet(PricedBelow(quotes, a))
  BY QuotesCount
<1>4. Cardinality(PricedUpTo(quotes, b)) \in Nat /\ Cardinality(PricedBelow(quotes, a)) \in Nat
      /\ Cardinality(PricedUpTo(quotes, b)) <= Cardinality(PricedBelow(quotes, a))
  BY <1>2, <1>3, SubsetCount
<1> QED BY <1>4 DEF SortedAt

(* The first price is the lowest, and the last the highest. *)
LEMMA SortedEnds ==
  ASSUME NEW quotes, AreQuotes(quotes), DOMAIN quotes # {}
  PROVE  /\ \E s \in DOMAIN quotes : \A i \in DOMAIN quotes : quotes[s] <= quotes[i]
         /\ \E s \in DOMAIN quotes : \A i \in DOMAIN quotes : quotes[i] <= quotes[s]
<1> DEFINE n == Cardinality(DOMAIN quotes)
<1>1. n \in Nat /\ n # 0 /\ IsFiniteSet(DOMAIN quotes)
  BY QuotesCount, FS_EmptySet
<1>2. 0 < n /\ n - 1 \in Nat /\ n - 1 < n
  BY <1>1
<1>3. PICK a : SortedAt(quotes, 0, a)
  BY <1>2, SortedExists
<1>4. PICK b : SortedAt(quotes, n - 1, b)
  BY <1>2, SortedExists
<1>5. \A i \in DOMAIN quotes : a <= quotes[i]
  <2>1. Cardinality(PricedBelow(quotes, a)) = 0 /\ a \in Nat
    BY <1>3, QuotesCount DEF SortedAt
  <2>2. PricedBelow(quotes, a) = {}
    BY <2>1, QuotesCount, FS_EmptySet
  <2> QED BY <2>1, <2>2, QuotesCount DEF PricedBelow
<1>6. \A i \in DOMAIN quotes : quotes[i] <= b
  <2>1. PricedUpTo(quotes, b) \in SUBSET (DOMAIN quotes)
    BY DEF PricedUpTo
  <2>2. Cardinality(PricedUpTo(quotes, b)) <= n /\ (n = Cardinality(PricedUpTo(quotes, b)) => DOMAIN quotes = PricedUpTo(quotes, b))
    BY <1>1, <2>1, FS_Subset
  <2>3. Cardinality(PricedUpTo(quotes, b)) = n
    <3>1. Cardinality(PricedUpTo(quotes, b)) \in Nat /\ n - 1 < Cardinality(PricedUpTo(quotes, b))
      BY <1>4, QuotesCount DEF SortedAt
    <3> HIDE DEF n
    <3> QED BY <1>1, <2>2, <3>1
  <2>4. DOMAIN quotes = PricedUpTo(quotes, b)
    BY <2>2, <2>3
  <2> QED BY <2>4 DEF PricedUpTo
<1> QED BY <1>3, <1>4, <1>5, <1>6 DEF SortedAt

(***************************************************************************)
(* The quartiles are prices, the first no higher than the third, so the    *)
(* average has something to average, and lies between the lowest and the   *)
(* highest price.                                                          *)
(***************************************************************************)
LEMMA SameSum ==
  ASSUME NEW f, NEW X
  PROVE  Q!SumFunctionOnSet(f, X) = SumFunctionOnSet(f, X)
BY DEF Q!SumFunctionOnSet, Q!FoldFunctionOnSet, Q!MapThenFoldSet,
       SumFunctionOnSet, FoldFunctionOnSet, MapThenFoldSet

LEMMA QuartilesAre ==
  ASSUME NEW quotes, AreQuotes(quotes), NEW n \in Nat, n = Cardinality(DOMAIN quotes), n # 0
  PROVE  /\ SortedAt(quotes, (n * 25) \div 100, Q!Quantile(quotes, 25))
         /\ SortedAt(quotes, (n * 75) \div 100, Q!Quantile(quotes, 75))
         /\ Q!Quantile(quotes, 25) <= Q!Quantile(quotes, 75)
<1>1. /\ (n * 25) \div 100 \in Nat /\ (n * 25) \div 100 < n
      /\ (n * 75) \div 100 \in Nat /\ (n * 75) \div 100 < n
      /\ (n * 25) \div 100 <= (n * 75) \div 100
  OBVIOUS
<1>2. /\ Q!Quantile(quotes, 25) = Q!Sorted(quotes, (n * 25) \div 100)
      /\ Q!Quantile(quotes, 75) = Q!Sorted(quotes, (n * 75) \div 100)
  BY SameCardinality DEF Q!Quantile
<1> DEFINE i == (n * 25) \div 100
           j == (n * 75) \div 100
<1>3. i \in Nat /\ j \in Nat /\ i < Cardinality(DOMAIN quotes) /\ j < Cardinality(DOMAIN quotes) /\ i <= j
  BY <1>1
<1> HIDE DEF i, j
<1>4. SortedAt(quotes, i, Q!Sorted(quotes, i)) /\ SortedAt(quotes, j, Q!Sorted(quotes, j))
  BY <1>3, SortedIs
<1>5. Q!Sorted(quotes, i) <= Q!Sorted(quotes, j)
  BY <1>3, <1>4, SortedGrows
<1> QED BY <1>2, <1>4, <1>5 DEF i, j

(* Which quotes are left. *)
LEMMA InliersAre ==
  ASSUME NEW quotes, AreQuotes(quotes), DOMAIN quotes # {}
  PROVE  \E q1 \in Nat, q3 \in Nat :
           /\ q1 = Q!Quantile(quotes, 25) /\ q3 = Q!Quantile(quotes, 75) /\ q1 <= q3
           /\ Q!Inliers(quotes) = {s \in DOMAIN quotes : /\ 2 * quotes[s] >= 2 * q1 - 3 * (q3 - q1)
                                                         /\ 2 * quotes[s] <= 2 * q3 + 3 * (q3 - q1)}
           /\ Q!Inliers(quotes) # {}
<1> DEFINE q1 == Q!Quantile(quotes, 25)
           q3 == Q!Quantile(quotes, 75)
           n == Cardinality(DOMAIN quotes)
<1>1. n \in Nat /\ n # 0
  BY QuotesCount, FS_EmptySet
<1>2. SortedAt(quotes, (n * 25) \div 100, q1) /\ SortedAt(quotes, (n * 75) \div 100, q3) /\ q1 <= q3
  BY <1>1, QuartilesAre
<1>3. Q!Inliers(quotes) = {s \in DOMAIN quotes : /\ 2 * quotes[s] >= 2 * q1 - 3 * (q3 - q1)
                                                 /\ 2 * quotes[s] <= 2 * q3 + 3 * (q3 - q1)}
  BY DEF Q!Inliers
<1> HIDE DEF q1, q3
<1>4. q1 \in Nat /\ q3 \in Nat
  BY <1>2 DEF SortedAt
<1>5. PICK s \in DOMAIN quotes : quotes[s] = q1
  BY <1>2 DEF SortedAt
<1>6. 2 * quotes[s] >= 2 * q1 - 3 * (q3 - q1) /\ 2 * quotes[s] <= 2 * q3 + 3 * (q3 - q1)
  BY <1>2, <1>4, <1>5
<1>7. Q!Inliers(quotes) # {}
  BY <1>3, <1>6
<1> QED BY <1>2, <1>3, <1>4, <1>7 DEF q1, q3

(* Whatever is averaged is worth its trust times a price between. *)
LEMMA WorthIsBounded ==
  ASSUME NEW quotes, AreQuotes(quotes), NEW sources \in SUBSET (DOMAIN quotes), sources # {},
         NEW lo \in Nat, NEW hi \in Nat, \A s \in sources : lo <= quotes[s] /\ quotes[s] <= hi
  PROVE  /\ Q!Trust(sources) > 0
         /\ lo * Q!Trust(sources) <= Q!Worth(quotes, sources)
         /\ Q!Worth(quotes, sources) <= hi * Q!Trust(sources)
<1> DEFINE w == [s \in sources |-> quotes[s] * Q!Confidence(s)]
           c == [s \in sources |-> Q!Confidence(s)]
           above == [s \in sources |-> (quotes[s] - lo) * Q!Confidence(s)]
           below == [s \in sources |-> (hi - quotes[s]) * Q!Confidence(s)]
           worth == SumFunctionOnSet(w, sources)
           trust == SumFunctionOnSet(c, sources)
<1>1. IsFiniteSet(sources)
  BY QuotesCount, FS_Subset
<1>2. Q!Trust(sources) = trust /\ Q!Worth(quotes, sources) = worth
  BY SameSum DEF Q!Trust, Q!Worth
<1>3. \A s \in sources : Q!Confidence(s) \in Nat /\ Q!Confidence(s) > 0
  BY DEF AreQuotes, Q!Sources, Q!Confidence
<1>4. ASSUME NEW s \in sources
      PROVE  /\ w[s] \in Nat /\ c[s] \in Nat /\ c[s] > 0 /\ above[s] \in Nat /\ below[s] \in Nat
             /\ above[s] = 1 * w[s] + (0 - lo) * c[s]
             /\ below[s] = (0 - 1) * w[s] + hi * c[s]
  <2> DEFINE k == Q!Confidence(s)
             p == quotes[s]
  <2>1. k \in Nat /\ k > 0 /\ p \in Nat /\ lo <= p /\ p <= hi
    BY <1>3, QuotesCount
  <2>2. w[s] = p * k /\ c[s] = k /\ above[s] = (p - lo) * k /\ below[s] = (hi - p) * k
    OBVIOUS
  <2> HIDE DEF k, p, w, c, above, below
  <2>3. p * k \in Nat /\ (p - lo) * k \in Nat /\ (hi - p) * k \in Nat
    <3>1. p - lo \in Nat /\ hi - p \in Nat
      BY <2>1
    <3> QED BY <2>1, <3>1
  <2>4. (p - lo) * k = p * k - lo * k /\ (hi - p) * k = hi * k - p * k
    BY <2>1
  <2>5. 1 * (p * k) + (0 - lo) * k = p * k - lo * k /\ (0 - 1) * (p * k) + hi * k = hi * k - p * k
    BY <2>1, <2>3
  <2> QED BY <2>1, <2>2, <2>3, <2>4, <2>5
<1> HIDE DEF w, c, above, below
<1>5. worth \in Nat /\ trust \in Nat /\ \A s \in sources : c[s] <= trust
  BY <1>1, <1>4, SumOfNats
<1>6. SumFunctionOnSet(above, sources) \in Nat /\ SumFunctionOnSet(below, sources) \in Nat
  BY <1>1, <1>4, SumOfNats
<1>7. \A s \in sources : w[s] \in Int /\ c[s] \in Int
  BY <1>4
<1>8. 1 \in Int /\ 0 - 1 \in Int /\ 0 - lo \in Int /\ hi \in Int
  OBVIOUS
<1>9. SumFunctionOnSet(above, sources) = 1 * worth + (0 - lo) * trust
  <2> DEFINE a == 1  b == 0 - lo
  <2>1. Combines(above, a, w, b, c, sources)
    BY <1>4, <1>7 DEF Combines
  <2>2. a \in Int /\ b \in Int
    BY <1>8
  <2> HIDE DEF a, b
  <2>3. SumFunctionOnSet(above, sources) = a * SumFunctionOnSet(w, sources) + b * SumFunctionOnSet(c, sources)
    BY <1>1, <2>1, <2>2, SumLinear
  <2> QED BY <2>3 DEF a, b
<1>10. SumFunctionOnSet(below, sources) = (0 - 1) * worth + hi * trust
  <2> DEFINE a == 0 - 1
  <2>1. Combines(below, a, w, hi, c, sources)
    BY <1>4, <1>7 DEF Combines
  <2>2. a \in Int
    BY <1>8
  <2> HIDE DEF a
  <2>3. SumFunctionOnSet(below, sources) = a * SumFunctionOnSet(w, sources) + hi * SumFunctionOnSet(c, sources)
    BY <1>1, <1>8, <2>1, <2>2, SumLinear
  <2> QED BY <2>3 DEF a
<1> HIDE DEF worth, trust
<1>11. trust > 0
  <2>1. PICK s \in sources : TRUE
    OBVIOUS
  <2> QED BY <1>4, <1>5, <2>1
<1>12. lo * trust <= worth
  <2>1. 1 * worth + (0 - lo) * trust = worth - lo * trust /\ lo * trust \in Nat
    BY <1>5
  <2> QED BY <1>5, <1>6, <1>9, <2>1
<1>13. worth <= hi * trust
  <2>1. (0 - 1) * worth + hi * trust = hi * trust - worth /\ hi * trust \in Nat
    BY <1>5
  <2> QED BY <1>5, <1>6, <1>10, <2>1
<1> QED BY <1>2, <1>11, <1>12, <1>13

LEMMA PricesLieWithin ==
  ASSUME AreQuotes(answer.quotes), answer # Q!NoAnswer => DOMAIN answer.quotes # {}
  PROVE  Q!PriceWithinQuotes
<1> DEFINE quotes == answer.quotes
           left == Q!Inliers(answer.quotes)
<1> SUFFICES ASSUME DOMAIN quotes # {}
             PROVE  /\ Q!AveragePrice(quotes).den > 0
                    /\ \E p \in Q!Range(quotes) : p * Q!AveragePrice(quotes).den <= Q!AveragePrice(quotes).num
                    /\ \E p \in Q!Range(quotes) : Q!AveragePrice(quotes).num <= p * Q!AveragePrice(quotes).den
  BY DEF Q!PriceWithinQuotes
<1>1. AreQuotes(quotes) /\ (\A s \in DOMAIN quotes : quotes[s] \in Nat)
  BY QuotesCount
<1>2. Q!AveragePrice(quotes).den = Q!Trust(left) /\ Q!AveragePrice(quotes).num = Q!Worth(quotes, left)
  BY DEF Q!AveragePrice
<1> HIDE DEF quotes
<1>3. left \in SUBSET (DOMAIN quotes) /\ left # {}
  BY <1>1, InliersAre DEF quotes
<1> HIDE DEF left
<1>4. PICK a \in DOMAIN quotes : \A i \in DOMAIN quotes : quotes[a] <= quotes[i]
  BY <1>1, SortedEnds
<1>5. PICK b \in DOMAIN quotes : \A i \in DOMAIN quotes : quotes[i] <= quotes[b]
  BY <1>1, SortedEnds
<1>6. /\ Q!Trust(left) > 0 /\ quotes[a] * Q!Trust(left) <= Q!Worth(quotes, left)
      /\ Q!Worth(quotes, left) <= quotes[b] * Q!Trust(left)
  BY <1>1, <1>3, <1>4, <1>5, WorthIsBounded
<1>7. quotes[a] \in Q!Range(quotes) /\ quotes[b] \in Q!Range(quotes)
  BY <1>4, <1>5 DEF Q!Range
<1> QED BY <1>2, <1>6, <1>7

(***************************************************************************)
(* Sources that agree but for one: where the prices below and up to each   *)
(* of the two are counted, the quartiles are known.                        *)
(***************************************************************************)
LEMMA WildCounts ==
  ASSUME NEW quotes, AreQuotes(quotes), NEW s \in DOMAIN quotes, NEW v \in Nat,
         NEW n \in Nat, n = Cardinality(DOMAIN quotes), quotes[s] # v,
         \A i \in DOMAIN quotes \ {s} : quotes[i] = v
  PROVE  /\ quotes[s] < v =>
              /\ Cardinality(PricedBelow(quotes, v)) = 1
              /\ Cardinality(PricedUpTo(quotes, quotes[s])) = 1
         /\ v < quotes[s] =>
              /\ Cardinality(PricedUpTo(quotes, v)) = n - 1
              /\ Cardinality(PricedBelow(quotes, quotes[s])) = n - 1
<1>1. quotes[s] \in Nat /\ IsFiniteSet(DOMAIN quotes)
  BY QuotesCount
<1>2. Cardinality({s}) = 1 /\ Cardinality(DOMAIN quotes \ {s}) = n - 1
  BY <1>1, FS_Singleton, FS_RemoveElement
<1>3. ASSUME quotes[s] < v
      PROVE  PricedBelow(quotes, v) = {s} /\ PricedUpTo(quotes, quotes[s]) = {s}
  <2>1. ~(v < v) /\ ~(v <= quotes[s]) /\ quotes[s] <= quotes[s]
    BY <1>1, <1>3
  <2> QED BY <1>3, <2>1 DEF PricedBelow, PricedUpTo
<1>4. ASSUME v < quotes[s]
      PROVE  PricedUpTo(quotes, v) = DOMAIN quotes \ {s} /\ PricedBelow(quotes, quotes[s]) = DOMAIN quotes \ {s}
  <2>1. v <= v /\ ~(quotes[s] <= v) /\ ~(quotes[s] < quotes[s])
    BY <1>1, <1>4
  <2> QED BY <1>4, <2>1 DEF PricedBelow, PricedUpTo
<1> QED BY <1>2, <1>3, <1>4

LEMMA WildSorted ==
  ASSUME NEW quotes, AreQuotes(quotes), NEW s \in DOMAIN quotes, NEW v \in Nat,
         NEW n \in Nat, n = Cardinality(DOMAIN quotes), quotes[s] # v,
         \A i \in DOMAIN quotes \ {s} : quotes[i] = v,
         NEW k \in Nat, NEW p, SortedAt(quotes, k, p)
  PROVE  p = IF quotes[s] < v THEN IF k = 0 THEN quotes[s] ELSE v
             ELSE IF k < n - 1 THEN v ELSE quotes[s]
<1>1. quotes[s] \in Nat /\ (p = quotes[s] \/ p = v)
  BY QuotesCount DEF SortedAt
<1>2. Cardinality(PricedBelow(quotes, p)) <= k /\ k < Cardinality(PricedUpTo(quotes, p))
  BY DEF SortedAt
<1>3. CASE quotes[s] < v
  <2>1. Cardinality(PricedBelow(quotes, v)) = 1 /\ Cardinality(PricedUpTo(quotes, quotes[s])) = 1
    BY <1>3, WildCounts
  <2>2. p = v => 1 <= k
    BY <1>2, <2>1
  <2>3. p = quotes[s] => k < 1
    BY <1>2, <2>1
  <2> QED BY <1>1, <1>3, <2>2, <2>3
<1>4. CASE v < quotes[s]
  <2>1. Cardinality(PricedUpTo(quotes, v)) = n - 1 /\ Cardinality(PricedBelow(quotes, quotes[s])) = n - 1
    BY <1>4, WildCounts
  <2>2. p = v => k < n - 1
    BY <1>2, <2>1
  <2>3. p = quotes[s] => n - 1 <= k
    BY <1>2, <2>1
  <2> QED BY <1>1, <1>4, <2>2, <2>3
<1>5. quotes[s] < v \/ v < quotes[s]
  BY <1>1
<1> QED BY <1>3, <1>4, <1>5

LEMMA WildIsRemoved ==
  ASSUME AreQuotes(answer.quotes)
  PROVE  Q!WildQuoteRemoved
<1> DEFINE quotes == answer.quotes
           n == Cardinality(DOMAIN answer.quotes)
<1> SUFFICES ASSUME NEW s \in DOMAIN quotes, n >= 3,
                    \A i, j \in DOMAIN quotes \ {s} : quotes[i] = quotes[j] /\ quotes[s] # quotes[i]
             PROVE  s \notin Q!Inliers(quotes) <=>
                      n >= IF \A i \in DOMAIN quotes \ {s} : quotes[s] < quotes[i] THEN 4 ELSE 5
  BY SameCardinality DEF Q!WildQuoteRemoved
<1>1. AreQuotes(quotes) /\ quotes[s] \in Nat /\ n \in 3..5 /\ IsFiniteSet(DOMAIN quotes) /\ n \in Nat /\ n # 0
  BY QuotesCount
<1> HIDE DEF quotes
<1>2. PICK e \in DOMAIN quotes : e # s
  <2> SUFFICES ASSUME \A i \in DOMAIN quotes : i = s PROVE FALSE
    OBVIOUS
  <2>1. DOMAIN quotes = {s}
    OBVIOUS
  <2> QED BY <1>1, <2>1, FS_Singleton DEF quotes
<1> DEFINE v == quotes[e]
<1>3. v \in Nat /\ quotes[s] # v /\ \A i \in DOMAIN quotes \ {s} : quotes[i] = v
  BY <1>1, <1>2, QuotesCount
<1>4. (\A i \in DOMAIN quotes \ {s} : quotes[s] < quotes[i]) <=> quotes[s] < v
  BY <1>2, <1>3
<1> HIDE DEF v
<1>5. n = Cardinality(DOMAIN quotes)
  BY DEF quotes
<1> HIDE DEF n
<1>6. PICK q1 \in Nat, q3 \in Nat :
        /\ q1 = Q!Quantile(quotes, 25) /\ q3 = Q!Quantile(quotes, 75) /\ q1 <= q3
        /\ Q!Inliers(quotes) = {i \in DOMAIN quotes : /\ 2 * quotes[i] >= 2 * q1 - 3 * (q3 - q1)
                                                      /\ 2 * quotes[i] <= 2 * q3 + 3 * (q3 - q1)}
  BY <1>1, InliersAre
<1>7. SortedAt(quotes, (n * 25) \div 100, q1) /\ SortedAt(quotes, (n * 75) \div 100, q3)
  BY <1>1, <1>5, <1>6, QuartilesAre
<1>8. s \notin Q!Inliers(quotes) <=> ~(/\ 2 * quotes[s] >= 2 * q1 - 3 * (q3 - q1)
                                       /\ 2 * quotes[s] <= 2 * q3 + 3 * (q3 - q1))
  BY <1>6
<1>9. /\ n = 3 => (n * 25) \div 100 = 0 /\ (n * 75) \div 100 = 2
      /\ n = 4 => (n * 25) \div 100 = 1 /\ (n * 75) \div 100 = 3
      /\ n = 5 => (n * 25) \div 100 = 1 /\ (n * 75) \div 100 = 3
      /\ (n * 25) \div 100 \in Nat /\ (n * 75) \div 100 \in Nat
  BY <1>1
<1> DEFINE i1 == (n * 25) \div 100
           i3 == (n * 75) \div 100
<1>10. /\ i1 \in Nat /\ i3 \in Nat
       /\ n = 3 => i1 = 0 /\ i3 = 2
       /\ n = 4 => i1 = 1 /\ i3 = 3
       /\ n = 5 => i1 = 1 /\ i3 = 3
       /\ SortedAt(quotes, i1, q1) /\ SortedAt(quotes, i3, q3)
  BY <1>7, <1>9
<1> HIDE DEF i1, i3
<1>11. /\ q1 = IF quotes[s] < v THEN IF i1 = 0 THEN quotes[s] ELSE v
               ELSE IF i1 < n - 1 THEN v ELSE quotes[s]
       /\ q3 = IF quotes[s] < v THEN IF i3 = 0 THEN quotes[s] ELSE v
               ELSE IF i3 < n - 1 THEN v ELSE quotes[s]
  BY <1>1, <1>3, <1>5, <1>10, WildSorted
<1> DEFINE u == quotes[s]
<1>12. u \in Nat /\ v \in Nat /\ u # v
  BY <1>1, <1>3
<1>13. s \notin Q!Inliers(quotes) <=> n >= IF u < v THEN 4 ELSE 5
  <2>1. /\ q1 = IF u < v THEN IF i1 = 0 THEN u ELSE v ELSE IF i1 < n - 1 THEN v ELSE u
        /\ q3 = IF u < v THEN IF i3 = 0 THEN u ELSE v ELSE IF i3 < n - 1 THEN v ELSE u
        /\ s \notin Q!Inliers(quotes) <=> ~(/\ 2 * u >= 2 * q1 - 3 * (q3 - q1)
                                            /\ 2 * u <= 2 * q3 + 3 * (q3 - q1))
    BY <1>8, <1>11
  <2> HIDE DEF u
  <2>2. CASE n = 3
    BY <1>10, <1>12, <2>1, <2>2
  <2>3. CASE n = 4
    BY <1>10, <1>12, <2>1, <2>3
  <2>4. CASE n = 5
    BY <1>10, <1>12, <2>1, <2>4
  <2> QED BY <1>1, <2>2, <2>3, <2>4
<1> QED BY <1>4, <1>13

(***************************************************************************)
(* Prices.  QuoteInv: a fetch under way began at most FetchTime ago, and    *)
(* the cache ends at most CacheTTL after a fetch that took as long; what is  *)
(* cached or answered are quotes, at least one.                             *)
(* OracleInv: the price was fetched at most two periods before the tick of  *)
(* the next update, and that update comes at most MaxDelay after it.        *)
(***************************************************************************)
QuoteTimes ==
  /\ quoteClock \in Nat
  /\ priceRequest \in [PriceRequests -> Nat \cup {-1}]
  /\ \A q \in PriceRequests : priceRequest[q] # -1 =>
       priceRequest[q] <= quoteClock /\ quoteClock <= priceRequest[q] + FetchTime
  /\ priceCache.since \in Nat /\ priceCache.expiresAt \in Nat
  /\ priceCache.expiresAt <= priceCache.since + FetchTime + CacheTTL
  /\ answer.at \in Nat /\ answer.since \in Nat
  /\ answer.at - answer.since < CacheTTL + FetchTime
QuoteInv ==
  /\ QuoteTimes
  /\ AreQuotes(priceCache.quotes) /\ AreQuotes(answer.quotes)
  /\ priceCache.expiresAt # 0 => DOMAIN priceCache.quotes # {}
  /\ answer # Q!NoAnswer => DOMAIN answer.quotes # {}

OracleFlags == (starved = TRUE \/ starved = FALSE) /\ (updating = TRUE \/ updating = FALSE)
OracleTimes ==
  /\ oracleClock \in Nat /\ tick \in Nat
  /\ oracleCache.timestamp \in (0 - Period)..oracleClock
  /\ fetchedAt = oracleCache.timestamp
  /\ oracleClock <= tick + MaxDelay
  /\ updating = TRUE => tick <= oracleClock
  /\ starved = FALSE => tick - 2 * Period <= fetchedAt
OracleInv == OracleFlags /\ OracleTimes

(* No price is cached or fetched at first. *)
LEMMA InitPrices == Q!Init /\ O!Init => QuoteInv /\ OracleInv
<1>1. ASSUME Q!Init PROVE QuoteInv
  <2>1. QuoteTimes
    BY <1>1, TimesAssumption DEF Q!Init, Q!NoCache, Q!NoRequest, Q!NoAnswer, QuoteTimes
  <2>2. AreQuotes(<<>>)
    BY DEF AreQuotes
  <2>3. priceCache.quotes = <<>> /\ answer.quotes = <<>> /\ priceCache.expiresAt = 0 /\ answer = Q!NoAnswer
    BY <1>1 DEF Q!Init, Q!NoCache, Q!NoAnswer
  <2> QED BY <2>1, <2>2, <2>3 DEF QuoteInv
<1>2. ASSUME O!Init PROVE OracleInv
  <2>1. oracleCache.timestamp = 0 - Period
    BY <1>2 DEF O!Init, O!NoEntry
  <2>2. /\ fetchedAt = 0 - Period /\ tick = Period
        /\ updating = FALSE /\ starved = FALSE /\ oracleClock = 0
    BY <1>2 DEF O!Init
  <2>3. OracleFlags
    BY <2>2, Zenon DEF OracleFlags
  <2>4. OracleTimes
    BY <2>1, <2>2, TimesAssumption DEF OracleTimes
  <2> QED BY <2>3, <2>4 DEF OracleInv
<1> QED BY <1>1, <1>2

(* Some sources answer with a price each. *)
LEMMA AnswersAreQuotes ==
  ASSUME NEW prices \in Q!Answers
  PROVE  AreQuotes(prices) /\ DOMAIN prices # {}
<1>1. PICK p : p \in Prices
  BY PricesAssumption
<1>2. (CHOOSE x \in Prices : TRUE) \in Prices
  BY <1>1
<1>3. CASE answer = Q!NoAnswer
  <2>1. PICK sources \in (SUBSET Q!Sources) \ {{}} : prices \in [sources -> Prices]
    BY <1>3 DEF Q!Answers
  <2> QED BY <2>1 DEF AreQuotes
<1>4. CASE answer # Q!NoAnswer
  <2>1. prices = [source \in {"Binance"} |-> CHOOSE x \in Prices : TRUE]
    BY <1>4 DEF Q!Answers
  <2> QED BY <1>2, <2>1 DEF AreQuotes, Q!Sources
<1> QED BY <1>3, <1>4

(* Every step of the price discovery keeps its invariant. *)
LEMMA NextQuoteInv == QuoteInv /\ Q!Next => QuoteInv'
<1> SUFFICES ASSUME QuoteInv, Q!Next PROVE QuoteInv'
  OBVIOUS
<1> USE TimesAssumption
<1>1. CASE Q!FromCache
  <2>1. /\ priceCache.expiresAt > quoteClock
        /\ answer'.quotes = priceCache.quotes /\ answer'.since = priceCache.since
        /\ answer'.at = quoteClock
        /\ priceCache' = priceCache /\ priceRequest' = priceRequest /\ quoteClock' = quoteClock
    BY <1>1 DEF Q!FromCache
  <2>2. QuoteTimes'
    BY <2>1 DEF QuoteInv, QuoteTimes
  <2>3. priceCache.expiresAt # 0
    BY <2>1 DEF QuoteInv, QuoteTimes
  <2> QED BY <2>1, <2>2, <2>3 DEF QuoteInv
<1>2. CASE Q!Tick
  <2>1. QuoteTimes'
    BY <1>2 DEF Q!Tick, Q!NoRequest, QuoteInv, QuoteTimes
  <2> QED BY <1>2, <2>1 DEF Q!Tick, QuoteInv
<1>3. ASSUME NEW q \in PriceRequests, Q!Fetch(q)
      PROVE  QuoteInv'
  <2>1. QuoteTimes'
    BY <1>3 DEF Q!Fetch, Q!NoRequest, QuoteInv, QuoteTimes
  <2> QED BY <1>3, <2>1 DEF Q!Fetch, QuoteInv
<1>4. ASSUME NEW q \in PriceRequests, Q!NoneAnswered(q)
      PROVE  QuoteInv'
  <2>1. QuoteTimes'
    BY <1>4 DEF Q!NoneAnswered, Q!NoRequest, QuoteInv, QuoteTimes
  <2> QED BY <1>4, <2>1 DEF Q!NoneAnswered, QuoteInv
<1>5. ASSUME NEW q \in PriceRequests, NEW prices \in Q!Answers, Q!Answered(q, prices)
      PROVE  QuoteInv'
  <2>1. priceRequest[q] \in Nat /\ quoteClock <= priceRequest[q] + FetchTime
    BY <1>5 DEF Q!Answered, Q!NoRequest, QuoteInv, QuoteTimes
  <2>2. /\ priceCache'.since = priceRequest[q] /\ priceCache'.expiresAt = quoteClock + CacheTTL
        /\ answer'.since = priceRequest[q] /\ answer'.at = quoteClock
        /\ priceCache'.quotes = prices /\ answer'.quotes = prices
    BY <1>5 DEF Q!Answered
  <2>3. quoteClock' = quoteClock /\ priceRequest' = [priceRequest EXCEPT ![q] = -1]
    BY <1>5 DEF Q!Answered, Q!NoRequest
  <2>4. AreQuotes(prices) /\ DOMAIN prices # {}
    BY AnswersAreQuotes
  <2>5. QuoteTimes'
    BY <1>5, <2>1, <2>2, <2>3 DEF QuoteInv, QuoteTimes
  <2> QED BY <2>2, <2>4, <2>5 DEF QuoteInv
<1> QED BY <1>1, <1>2, <1>3, <1>4, <1>5 DEF Q!Next

(* What getPrice does to the cached price: it is fresh, no source is        *)
(* enabled, or it is fetched.                                               *)
Kept ==
  /\ starved' = starved /\ oracleCache'.timestamp = oracleCache.timestamp
  /\ fetchedAt' = fetchedAt /\ oracleClock - oracleCache.timestamp < Period
Starved ==
  starved' = TRUE /\ oracleCache'.timestamp = oracleCache.timestamp /\ fetchedAt' = fetchedAt
Renewed ==
  starved' = starved /\ oracleCache'.timestamp = oracleClock /\ fetchedAt' = oracleClock

(* Every step of the oracle keeps its invariant. *)
LEMMA NextOracleInv == OracleInv /\ O!Next => OracleInv'
<1> SUFFICES ASSUME OracleInv, O!Next PROVE OracleInv'
  OBVIOUS
<1> USE TimesAssumption
<1>0. OracleFlags /\ OracleTimes
  BY DEF OracleInv
<1>a. ASSUME O!GetPrice
      PROVE  Kept \/ Starved \/ Renewed
  BY <1>a DEF O!GetPrice, O!Cached, O!Fetched, O!Fresh, Kept, Starved, Renewed
<1>1. CASE O!Request
  <2>1. /\ tick' = tick /\ updating' = updating /\ oracleClock' = oracleClock /\ O!GetPrice
    BY <1>1 DEF O!Request
  <2>2. OracleFlags'
    BY <1>0, <1>a, <2>1, Zenon DEF OracleFlags, Kept, Starved, Renewed
  <2>3. ASSUME Kept PROVE OracleTimes'
    BY <1>0, <2>1, <2>3 DEF OracleTimes, Kept
  <2>4. ASSUME Starved PROVE OracleTimes'
    BY <1>0, <2>1, <2>4, TRUE # FALSE DEF OracleTimes, Starved
  <2>5. ASSUME Renewed PROVE OracleTimes'
    BY <1>0, <2>1, <2>5 DEF OracleTimes, Renewed
  <2> QED BY <1>a, <2>1, <2>2, <2>3, <2>4, <2>5 DEF OracleInv
<1>2. CASE O!StartUpdate
  <2>1. /\ oracleClock = tick /\ updating' = TRUE /\ tick' = tick /\ starved' = starved
        /\ oracleClock' = oracleClock /\ oracleCache' = oracleCache /\ fetchedAt' = fetchedAt
    BY <1>2, Zenon DEF O!StartUpdate
  <2>2. OracleFlags'
    BY <1>0, <2>1, Zenon DEF OracleFlags
  <2>3. OracleTimes'
    BY <1>0, <2>1 DEF OracleTimes
  <2> QED BY <2>2, <2>3 DEF OracleInv
<1>3. CASE O!UpdatePair
  <2>1. /\ updating = TRUE /\ updating' = FALSE /\ tick' = tick + Period
        /\ oracleClock' = oracleClock /\ O!GetPrice
    BY <1>0, <1>3, Zenon DEF O!UpdatePair, OracleFlags
  <2>2. OracleFlags'
    BY <1>0, <1>a, <2>1, Zenon DEF OracleFlags, Kept, Starved, Renewed
  <2>3. ASSUME Kept PROVE OracleTimes'
    BY <1>0, <2>1, <2>3 DEF OracleTimes, Kept
  <2>4. ASSUME Starved PROVE OracleTimes'
    BY <1>0, <2>1, <2>4, TRUE # FALSE DEF OracleTimes, Starved
  <2>5. ASSUME Renewed PROVE OracleTimes'
    BY <1>0, <2>1, <2>5 DEF OracleTimes, Renewed
  <2> QED BY <1>a, <2>1, <2>2, <2>3, <2>4, <2>5 DEF OracleInv
<1>4. CASE O!Tick
  <2>1. /\ oracleClock' = oracleClock + 1 /\ tick' = tick /\ updating' = updating
        /\ starved' = starved /\ oracleCache' = oracleCache /\ fetchedAt' = fetchedAt
    BY <1>4 DEF O!Tick
  <2>2. updating = TRUE => oracleClock < tick + MaxDelay
    BY <1>4, Zenon DEF O!Tick
  <2>3. updating = FALSE => oracleClock < tick
    BY <1>4, Zenon DEF O!Tick
  <2>4. OracleFlags'
    BY <1>0, <2>1, Zenon DEF OracleFlags
  <2>5. OracleTimes'
    BY <1>0, <2>1, <2>2, <2>3 DEF OracleFlags, OracleTimes
  <2> QED BY <2>4, <2>5 DEF OracleInv
<1>5. ASSUME NEW source \in O!OracleSources, NEW enabled, O!SetOracleSourceEnabled(source, enabled)
      PROVE  OracleInv'
  BY <1>5 DEF O!SetOracleSourceEnabled, OracleInv, OracleFlags, OracleTimes
<1> QED BY <1>1, <1>2, <1>3, <1>4, <1>5 DEF O!Next

-----------------------------------------------------------------------------

(***************************************************************************)
(* Routes.  RouteInv: what was quoted has a number or lacks one, a quote of  *)
(* a fallback has at least the lowest score of the three, and what is       *)
(* chosen was first in the order of the scores when all had been asked.     *)
(***************************************************************************)
SwapQuote == [venue : {"raydium", "jupiter"}, number : Nat \cup {-1}, gas : {5000}]
BridgeQuote ==
  [venue : {"wormhole", "allbridge", "stargaze"}, number : Nat \cup {-1},
   reliability : Int, answered : BOOLEAN]

BridgeScored(quote) ==
  /\ quote.reliability <= 9500
  /\ quote.answered = FALSE => 6000 <= quote.reliability - 100 * quote.number

RouteInv ==
  /\ dexQuotes \in Seq(SwapQuote) /\ bridgeQuotes \in Seq(BridgeQuote)
  /\ \A i \in DOMAIN bridgeQuotes : BridgeScored(bridgeQuotes[i])
  /\ chosenRoute # B!NotYet =>
       /\ Len(dexQuotes) = 2
       /\ \E i \in DOMAIN dexQuotes : chosenRoute = dexQuotes[i]
       /\ B!SwapAtTheBetter
  /\ chosenBridge # B!NotYet =>
       /\ Len(bridgeQuotes) = 3
       /\ \E i \in DOMAIN bridgeQuotes : chosenBridge = bridgeQuotes[i]
       /\ B!OutageBoundsFee

(* Nothing is quoted at first. *)
LEMMA InitRoutes == B!Init => RouteInv
BY DEF B!Init, RouteInv

(* A quote more. *)
LEMMA OneQuoteMore ==
  ASSUME NEW Kind, NEW quotes \in Seq(Kind), NEW quote \in Kind
  PROVE  /\ Append(quotes, quote) \in Seq(Kind)
         /\ Len(Append(quotes, quote)) = Len(quotes) + 1
         /\ DOMAIN Append(quotes, quote) = 1..Len(quotes) + 1 /\ DOMAIN quotes = 1..Len(quotes)
         /\ \A i \in 1..Len(quotes) : Append(quotes, quote)[i] = quotes[i]
         /\ Append(quotes, quote)[Len(quotes) + 1] = quote
OBVIOUS

(* What the quotes so far are. *)
LEMMA QuotesAre ==
  ASSUME RouteInv
  PROVE  /\ Len(dexQuotes) \in Nat /\ Len(bridgeQuotes) \in Nat
         /\ \A i \in DOMAIN dexQuotes : dexQuotes[i] \in SwapQuote
         /\ \A i \in DOMAIN bridgeQuotes : bridgeQuotes[i] \in BridgeQuote
<1>1. dexQuotes \in Seq(SwapQuote) /\ bridgeQuotes \in Seq(BridgeQuote)
  BY DEF RouteInv
<1> QED BY <1>1

(* There are as many places. *)
LEMMA BelowThree ==
  /\ \A n \in Nat : n < 2 => n + 1 = 1 \/ n + 1 = 2
  /\ \A n \in Nat : n < 3 => n # 3
OBVIOUS

(* The bridges by their places. *)
LEMMA BridgeNumbers ==
  ASSUME NEW n \in Nat, n < 3
  PROVE  /\ B!Bridges[n + 1].venue \in {"wormhole", "allbridge", "stargaze"}
         /\ B!Bridges[n + 1].answered \in Int /\ B!Bridges[n + 1].answered <= 9500
         /\ B!Bridges[n + 1].fallback \in Int /\ B!Bridges[n + 1].fallback <= 9500
         /\ B!Bridges[n + 1].fee \in Nat
         /\ 6000 <= B!Bridges[n + 1].fallback - 100 * B!Bridges[n + 1].fee
<1> DEFINE b == B!Bridges[n + 1]
<1>1. b = B!Bridges[1] \/ b = B!Bridges[2] \/ b = B!Bridges[3]
  <2>1. n + 1 = 1 \/ n + 1 = 2 \/ n + 1 = 3
    OBVIOUS
  <2> QED BY <2>1, Zenon
<1>2. /\ B!Bridges[1] = [venue |-> "wormhole",  answered |-> 9500, fallback |-> 9000, fee |-> 10]
      /\ B!Bridges[2] = [venue |-> "allbridge", answered |-> 8800, fallback |-> 8500, fee |-> 15]
      /\ B!Bridges[3] = [venue |-> "stargaze",  answered |-> 8200, fallback |-> 8000, fee |-> 20]
  BY DEF B!Bridges
<1> HIDE DEF b
<1>3. \/ /\ b.venue = "wormhole" /\ b.answered = 9500 /\ b.fallback = 9000 /\ b.fee = 10
      \/ /\ b.venue = "allbridge" /\ b.answered = 8800 /\ b.fallback = 8500 /\ b.fee = 15
      \/ /\ b.venue = "stargaze" /\ b.answered = 8200 /\ b.fallback = 8000 /\ b.fee = 20
  BY <1>1, <1>2
<1>4. b.venue \in {"wormhole", "allbridge", "stargaze"}
  BY <1>3
<1>5. b.answered \in Int /\ b.fallback \in Int /\ b.fee \in Nat
  BY <1>3
<1>6. 6000 <= b.fallback - 100 * b.fee /\ b.fallback <= 9500 /\ b.answered <= 9500
  BY <1>3
<1>7. b = B!Bridges[n + 1]
  BY DEF b
<1> QED BY <1>4, <1>5, <1>6, <1>7

(* Every step of the choice of a route keeps its invariant. *)
LEMMA NextRouteInv == RouteInv /\ B!Next => RouteInv'
<1> SUFFICES ASSUME RouteInv, B!Next PROVE RouteInv'
  OBVIOUS
<1>a. /\ \A a \in RouteAmounts \cup {B!NaN} : a \in Nat \cup {-1}
      /\ \A f \in BridgeFees \cup {B!NaN} : f \in Nat \cup {-1}
  BY RoutesAssumption DEF B!NaN
<1>0. Len(B!Dexes) = 2 /\ Len(B!Bridges) = 3
  BY DEF B!Dexes, B!Bridges
<1>1. ASSUME NEW amount \in RouteAmounts \cup {B!NaN}, B!DexAnswers(amount) PROVE RouteInv'
  <2> DEFINE quote == [venue |-> B!Dexes[Len(dexQuotes) + 1], number |-> amount, gas |-> 5000]
  <2>1. Len(dexQuotes) \in Nat /\ Len(dexQuotes) < 2
    BY <1>0, <1>1 DEF B!DexAnswers, RouteInv
  <2>2. Len(dexQuotes) + 1 = 1 \/ Len(dexQuotes) + 1 = 2
    BY <2>1, BelowThree, Zenon
  <2>3. B!Dexes[Len(dexQuotes) + 1] \in {"raydium", "jupiter"}
    <3>1. B!Dexes[1] = "raydium" /\ B!Dexes[2] = "jupiter"
      BY DEF B!Dexes
    <3> QED BY <2>2, <3>1, Zenon
  <2>4. quote \in SwapQuote
    BY <1>a, <2>3 DEF SwapQuote
  <2>5. dexQuotes' = Append(dexQuotes, quote)
    BY <1>1 DEF B!DexAnswers
  <2> HIDE DEF quote
  <2>6. dexQuotes' \in Seq(SwapQuote) /\ chosenRoute = B!NotYet
    BY <2>1, <2>4, <2>5 DEF RouteInv
  <2> QED BY <1>1, <2>6 DEF B!DexAnswers, RouteInv, B!OutageBoundsFee, B!Broken
<1>2. CASE B!DexThrows
  BY <1>2 DEF B!DexThrows, RouteInv, B!OutageBoundsFee, B!SwapAtTheBetter, B!Broken
<1>3. CASE B!GetBestRoute
  <2> DEFINE score == [i \in DOMAIN dexQuotes |-> B!RouteScore(dexQuotes[i])]
  <2>1. PICK i \in DOMAIN dexQuotes :
          /\ chosenRoute' = dexQuotes[i]
          /\ \/ \E j \in DOMAIN dexQuotes : dexQuotes[j].number = B!NaN
             \/ \A j \in DOMAIN dexQuotes \ {i} : IF j < i THEN score[j] < score[i]
                                                           ELSE score[j] <= score[i]
    BY <1>3 DEF B!GetBestRoute, B!Sorted
  <2>2. \A j \in DOMAIN dexQuotes :
          /\ dexQuotes[j].number \in Int
          /\ score[j] = 1000 * dexQuotes[j].number - 5000
    <3>1. ASSUME NEW j \in DOMAIN dexQuotes
          PROVE  dexQuotes[j].number \in Int /\ dexQuotes[j].gas = 5000
      BY QuotesAre DEF SwapQuote
    <3> QED BY <3>1 DEF B!RouteScore
  <2> HIDE DEF score
  <2>3. ASSUME ~ B!Broken(dexQuotes), NEW j \in DOMAIN dexQuotes
        PROVE  dexQuotes[j].number <= dexQuotes[i].number
    <3>1. score[j] <= score[i]
      BY <2>1, <2>2, <2>3 DEF B!Broken
    <3> QED BY <2>2, <3>1
  <2>4. dexQuotes' = dexQuotes /\ bridgeQuotes' = bridgeQuotes /\ chosenBridge' = chosenBridge
        /\ Len(dexQuotes) = 2
    BY <1>0, <1>3 DEF B!GetBestRoute
  <2>5. B!SwapAtTheBetter'
    BY <2>1, <2>3, <2>4 DEF B!SwapAtTheBetter, B!Broken
  <2> QED BY <2>1, <2>4, <2>5 DEF RouteInv, B!OutageBoundsFee, B!Broken
<1>4. ASSUME NEW quote \in BridgeQuote, BridgeScored(quote), Len(bridgeQuotes) < Len(B!Bridges),
             bridgeQuotes' = Append(bridgeQuotes, quote),
             UNCHANGED <<dexQuotes, chosenRoute, chosenBridge, routeFailed>>
      PROVE  RouteInv'
  <2>1. Len(bridgeQuotes) \in Nat /\ Len(bridgeQuotes) < 3 /\ chosenBridge = B!NotYet
    <3>1. Len(bridgeQuotes) \in Nat /\ Len(bridgeQuotes) < 3
      <4>1. Len(bridgeQuotes) \in Nat
        BY QuotesAre, Zenon
      <4>2. Len(bridgeQuotes) < 3
        BY <1>0, <1>4
      <4> QED BY <4>1, <4>2
    <3>2. Len(bridgeQuotes) # 3
      BY <3>1, BelowThree, Zenon
    <3> QED BY <3>1, <3>2, Zenon DEF RouteInv
  <2>2. quote \in BridgeQuote
    BY <1>4
  <2>3. /\ bridgeQuotes' = Append(bridgeQuotes, quote) /\ dexQuotes' = dexQuotes
        /\ chosenRoute' = chosenRoute /\ chosenBridge' = chosenBridge
    BY <1>4
  <2>4. BridgeScored(quote)
    BY <1>4
  <2>5. bridgeQuotes \in Seq(BridgeQuote)
    BY DEF RouteInv
  <2>6. /\ bridgeQuotes' \in Seq(BridgeQuote)
        /\ \A i \in DOMAIN bridgeQuotes' :
             \/ i \in DOMAIN bridgeQuotes /\ bridgeQuotes'[i] = bridgeQuotes[i]
             \/ bridgeQuotes'[i] = quote
    BY <2>2, <2>3, <2>5, OneQuoteMore
  <2>7. \A i \in DOMAIN bridgeQuotes' : BridgeScored(bridgeQuotes'[i])
    BY <2>4, <2>6 DEF RouteInv
  <2> QED BY <2>1, <2>3, <2>6, <2>7 DEF RouteInv, B!SwapAtTheBetter, B!Broken
<1>5. ASSUME NEW fee \in BridgeFees \cup {B!NaN}, B!BridgeAnswers(fee) PROVE RouteInv'
  <2>1. Len(bridgeQuotes) \in Nat /\ Len(bridgeQuotes) < 3
    BY <1>0, <1>5, QuotesAre DEF B!BridgeAnswers
  <2>2. /\ B!NextBridge.answered \in Int /\ B!NextBridge.answered <= 9500
        /\ fee \in Nat \cup {-1}
    BY <1>a, <2>1, BridgeNumbers DEF B!NextBridge
  <2> DEFINE quote == [venue |-> B!Bridges[Len(bridgeQuotes) + 1].venue, number |-> fee,
                       reliability |-> B!NextBridge.answered, answered |-> TRUE]
  <2>3. /\ Len(bridgeQuotes) < Len(B!Bridges) /\ bridgeQuotes' = Append(bridgeQuotes, quote)
        /\ UNCHANGED <<dexQuotes, chosenRoute, chosenBridge, routeFailed>>
    BY <1>5 DEF B!BridgeAnswers, B!AddQuote
  <2>4. quote \in BridgeQuote
    BY <2>1, <2>2, BridgeNumbers DEF BridgeQuote
  <2>5. BridgeScored(quote)
    BY <2>2 DEF BridgeScored
  <2> HIDE DEF quote
  <2> QED BY <1>4, <2>3, <2>4, <2>5
<1>6. CASE B!BridgeFallsBack
  <2>1. Len(bridgeQuotes) \in Nat /\ Len(bridgeQuotes) < 3
    BY <1>0, <1>6, QuotesAre DEF B!BridgeFallsBack
  <2>2. /\ B!NextBridge.fallback \in Int /\ B!NextBridge.fee \in Nat \cup {-1}
        /\ B!NextBridge.fallback <= 9500
        /\ 6000 <= B!NextBridge.fallback - 100 * B!NextBridge.fee
    BY <2>1, BridgeNumbers DEF B!NextBridge
  <2> DEFINE quote == [venue |-> B!Bridges[Len(bridgeQuotes) + 1].venue, number |-> B!NextBridge.fee,
                       reliability |-> B!NextBridge.fallback, answered |-> FALSE]
  <2>3. /\ Len(bridgeQuotes) < Len(B!Bridges) /\ bridgeQuotes' = Append(bridgeQuotes, quote)
        /\ UNCHANGED <<dexQuotes, chosenRoute, chosenBridge, routeFailed>>
    BY <1>6 DEF B!BridgeFallsBack, B!AddQuote
  <2>4. quote \in BridgeQuote
    BY <2>1, <2>2, BridgeNumbers DEF BridgeQuote
  <2>5. BridgeScored(quote)
    BY <2>2 DEF BridgeScored
  <2> HIDE DEF quote
  <2> QED BY <1>4, <2>3, <2>4, <2>5
<1>7. CASE B!GetBestBridge
  <2> DEFINE score == [i \in DOMAIN bridgeQuotes |-> B!BridgeScore(bridgeQuotes[i])]
  <2>1. PICK i \in DOMAIN bridgeQuotes :
          /\ chosenBridge' = bridgeQuotes[i]
          /\ \/ \E j \in DOMAIN bridgeQuotes : bridgeQuotes[j].number = B!NaN
             \/ \A j \in DOMAIN bridgeQuotes \ {i} : IF j < i THEN score[j] < score[i]
                                                              ELSE score[j] <= score[i]
    BY <1>7 DEF B!GetBestBridge, B!Sorted
  <2>2. \A j \in DOMAIN bridgeQuotes :
          /\ bridgeQuotes[j].number \in Int /\ bridgeQuotes[j].reliability \in Int
          /\ score[j] = bridgeQuotes[j].reliability - 100 * bridgeQuotes[j].number
    <3>1. ASSUME NEW j \in DOMAIN bridgeQuotes
          PROVE  bridgeQuotes[j].number \in Int /\ bridgeQuotes[j].reliability \in Int
      BY QuotesAre DEF BridgeQuote
    <3> QED BY <3>1 DEF B!BridgeScore
  <2> HIDE DEF score
  <2>3. ASSUME ~ B!Broken(bridgeQuotes), NEW j \in DOMAIN bridgeQuotes, ~ bridgeQuotes[j].answered
        PROVE  bridgeQuotes[i].number <= 35
    <3>1. score[j] <= score[i]
      BY <2>1, <2>2, <2>3 DEF B!Broken
    <3>2. bridgeQuotes[j].answered = FALSE
      BY <2>3, QuotesAre, Zenon DEF BridgeQuote
    <3>3. BridgeScored(bridgeQuotes[j]) /\ BridgeScored(bridgeQuotes[i])
      BY DEF RouteInv
    <3> QED BY <2>2, <3>1, <3>2, <3>3 DEF BridgeScored
  <2>4. dexQuotes' = dexQuotes /\ bridgeQuotes' = bridgeQuotes /\ chosenRoute' = chosenRoute
        /\ Len(bridgeQuotes) = 3
    BY <1>0, <1>7 DEF B!GetBestBridge
  <2>5. B!OutageBoundsFee'
    BY <2>1, <2>3, <2>4 DEF B!OutageBoundsFee, B!Broken
  <2> QED BY <2>1, <2>4, <2>5 DEF RouteInv, B!SwapAtTheBetter, B!Broken
<1> QED BY <1>1, <1>2, <1>3, <1>5, <1>6, <1>7 DEF B!Next

(* Other parts leave prices and routes alone. *)
LEMMA RestingPrices ==
  /\ QuoteInv /\ UNCHANGED ofQuotes => QuoteInv'
  /\ OracleInv /\ UNCHANGED ofOracle => OracleInv'
  /\ RouteInv /\ UNCHANGED ofRoutes => RouteInv'
<1>1. QuoteInv /\ UNCHANGED ofQuotes => QuoteInv'
  BY DEF ofQuotes, QuoteInv, QuoteTimes
<1>2. OracleInv /\ UNCHANGED ofOracle => OracleInv'
  BY DEF ofOracle, OracleInv, OracleFlags, OracleTimes
<1>3. RouteInv /\ UNCHANGED ofRoutes => RouteInv'
  BY DEF ofRoutes, RouteInv, B!SwapAtTheBetter, B!OutageBoundsFee, B!Broken
<1> QED BY <1>1, <1>2, <1>3

(* A price lies between the lowest and the highest of its quotes, and one quote that
   differs from all others is removed as their number allows; an answer is no older
   than a fetch takes and the cache keeps it, the oracle's price no older than almost
   two periods while sources are enabled; a conversion is swapped at the better venue
   and one silent bridge bounds its fee, unless an answer lacks its number
   (price-discovery, dex-integration, bridge-integration and price-oracle.service.ts). *)
THEOREM PricesAreSoundHold == SumSpec => []PricesAreSound
<1> DEFINE IInv == QuoteInv /\ OracleInv /\ RouteInv
<1>1. SumInit => IInv
  BY InitPrices, InitRoutes DEF SumInit
<1>2. IInv /\ [SumNext]_sumVars => IInv'
  BY NextQuoteInv, NextOracleInv, NextRouteInv, RestingPrices DEF SumNext, sumVars
<1>3. IInv => PricesAreSound
  <2> SUFFICES ASSUME IInv PROVE PricesAreSound
    OBVIOUS
  <2>1. Q!AnswersAreFresh
    BY DEF QuoteInv, QuoteTimes, Q!AnswersAreFresh
  <2>2. starved = FALSE => oracleClock - fetchedAt <= 2 * Period + MaxDelay
    <3>1. Period \in Nat /\ MaxDelay \in Nat
      BY TimesAssumption
    <3>2. /\ oracleClock \in Int /\ tick \in Int /\ fetchedAt \in Int
          /\ oracleClock <= tick + MaxDelay
          /\ starved = FALSE => tick - 2 * Period <= fetchedAt
      BY <3>1 DEF OracleInv, OracleTimes
    <3> QED BY <3>1, <3>2
  <2>3. O!RefreshedInTwoPeriods
    BY <2>2, Zenon DEF OracleInv, OracleFlags, O!RefreshedInTwoPeriods
  <2>4. B!SwapAtTheBetter /\ B!OutageBoundsFee
    BY DEF RouteInv, B!SwapAtTheBetter, B!OutageBoundsFee
  <2>5. Q!PriceWithinQuotes /\ Q!WildQuoteRemoved
    BY PricesLieWithin, WildIsRemoved DEF QuoteInv
  <2> QED BY <2>1, <2>3, <2>4, <2>5 DEF PricesAreSound
<1> QED BY <1>1, <1>2, <1>3, PTL DEF SumSpec
-----------------------------------------------------------------------------

(***************************************************************************)
(* Plans.  PlanInv: a plan's amount is among those noted, and so is the     *)
(* amount that a change of plan is about to save; while no calls overlap    *)
(* one is under way at most, so that the invoice it holds is the one        *)
(* stored, and every invoice is of a change that was made or is being made. *)
(***************************************************************************)
Invoiced == {i \in InvoiceIds : invoices[i] # P!NoInvoice}
PlansChanging == {c \in PlanCalls : planCalls[c].pc = "changed"}

PlanRow == [status : {"ACTIVE", "ARCHIVED"}, amount : PlanAmounts]
Invoice == [status : {"PENDING", "PROCESSING", "VOID"}, old : PlanAmounts, new : PlanAmounts]
EditingPlan == [pc : {"plan"}, plan : PlanIds, row : PlanRow]
LoadedPlan == [pc : {"loaded"}, new : PlanIds, old : PlanAmounts]
ChangedPlan == [pc : {"changed"}, row : [plan : PlanIds, amount : PlanAmounts]]
EditingInvoice == [pc : {"invoice"}, id : InvoiceIds, row : Invoice]

(* What a call under way may hold, of plans with such amounts. *)
PlanCallOK(call, amounts, stored) ==
  \/ call = P!NoPlanCall
  \/ call \in EditingPlan
  \/ call \in LoadedPlan
  \/ call \in ChangedPlan /\ call.row.amount \in amounts[call.row.plan]
  \/ call \in EditingInvoice /\ stored[call.id] # P!NoInvoice

(* The notes by their parts. *)
PlanAmountsNoted == planNotes.amounts
PlanChanges == planNotes.changes
PlanCrossed == planNotes.crossed

PlanTables ==
  /\ plans \in [PlanIds -> PlanRow]
  /\ invoices \in [InvoiceIds -> Invoice \cup {P!NoInvoice}]
  /\ planCalls = [c \in PlanCalls |-> planCalls[c]]
  /\ planNotes = [amounts |-> PlanAmountsNoted, changes |-> PlanChanges, crossed |-> PlanCrossed]
  /\ PlanAmountsNoted = [p \in PlanIds |-> PlanAmountsNoted[p]]
  /\ PlanChanges \in Nat
  /\ subscriber \in [plan : PlanIds, amount : PlanAmounts]
  /\ today \in 0..DaysInPeriod + 1

AmountsNoted ==
  /\ \A p \in PlanIds : plans[p].amount \in PlanAmountsNoted[p]
  /\ subscriber.amount \in PlanAmountsNoted[subscriber.plan]
  /\ \A c \in PlanCalls : PlanCallOK(planCalls[c], PlanAmountsNoted, invoices)

AloneWithoutOverlap ==
  "overlap" \notin PlanCrossed =>
    \A c \in PlanCalls : planCalls[c] # P!NoPlanCall =>
      /\ \A d \in PlanCalls : d # c => planCalls[d] = P!NoPlanCall
      /\ planCalls[c].pc = "invoice" /\ planCalls[c].row.status # "VOID" =>
           invoices[planCalls[c].id].status # "VOID"

InvoicesCounted ==
  PlanCrossed = {} => Cardinality(Invoiced) <= PlanChanges + Cardinality(PlansChanging)

PlanInv == PlanTables /\ AmountsNoted /\ AloneWithoutOverlap /\ InvoicesCounted

(* The kinds of calls are told apart by where they are. *)
LEMMA PlanCallAt ==
  ASSUME NEW call, NEW amounts, NEW stored, PlanCallOK(call, amounts, stored)
  PROVE  /\ call.pc = "plan" => call \in EditingPlan
         /\ call.pc = "loaded" => call \in LoadedPlan
         /\ call.pc = "changed" => call \in ChangedPlan /\ call.row.amount \in amounts[call.row.plan]
         /\ call.pc = "invoice" => call \in EditingInvoice /\ stored[call.id] # P!NoInvoice
<1>1. P!NoPlanCall.pc = "none"
  BY DEF P!NoPlanCall
<1>2. /\ call \in EditingPlan => call.pc = "plan"
      /\ call \in LoadedPlan => call.pc = "loaded"
      /\ call \in ChangedPlan => call.pc = "changed"
      /\ call \in EditingInvoice => call.pc = "invoice"
  BY DEF EditingPlan, LoadedPlan, ChangedPlan, EditingInvoice
<1> QED BY <1>1, <1>2 DEF PlanCallOK

(* Both sets that are counted are finite. *)
LEMMA PlanSetsFinite ==
  ASSUME NEW X, X \subseteq InvoiceIds \/ X \subseteq PlanCalls
  PROVE  IsFiniteSet(X) /\ Cardinality(X) \in Nat
BY PlansAssumption, SubsetCount

(* The plans are as they were made at first, and nothing is under way. *)
LEMMA InitPlans == P!Init => PlanInv
<1> SUFFICES ASSUME P!Init PROVE PlanInv
  OBVIOUS
<1>1. PICK p \in PlanIds : subscriber = [plan |-> p, amount |-> plans[p].amount]
  BY DEF P!Init
<1>2. /\ plans \in [PlanIds -> PlanRow] /\ invoices = [i \in InvoiceIds |-> P!NoInvoice]
      /\ planCalls = [c \in PlanCalls |-> P!NoPlanCall]
      /\ planNotes = [amounts |-> [q \in PlanIds |-> {plans[q].amount}], changes |-> 0, crossed |-> {}]
  BY DEF P!Init, PlanRow
<1>3. /\ PlanAmountsNoted = [q \in PlanIds |-> {plans[q].amount}] /\ PlanChanges = 0
      /\ PlanCrossed = {}
  BY <1>2 DEF PlanAmountsNoted, PlanChanges, PlanCrossed
<1>4. today = 0 /\ 0 \in 0..DaysInPeriod + 1
  BY PlansAssumption DEF P!Init
<1>5. PlanTables
  BY <1>1, <1>2, <1>3, <1>4 DEF PlanTables, PlanRow
<1>6. AmountsNoted
  BY <1>1, <1>2, <1>3 DEF AmountsNoted, PlanCallOK
<1>7. AloneWithoutOverlap
  BY <1>2 DEF AloneWithoutOverlap
<1>8. Invoiced = {} /\ Cardinality({}) = 0
  BY <1>2, FS_EmptySet DEF Invoiced
<1>9. InvoicesCounted
  BY <1>3, <1>8, PlanSetsFinite DEF InvoicesCounted, PlansChanging
<1> QED BY <1>5, <1>6, <1>7, <1>9 DEF PlanInv

(* A call holds what it may, whatever else becomes of plans and invoices. *)
LEMMA PlanCallStays ==
  ASSUME NEW call, NEW amounts, NEW later, NEW stored, NEW kept,
         PlanCallOK(call, amounts, stored),
         \A p \in PlanIds : amounts[p] \subseteq later[p],
         \A i \in InvoiceIds : stored[i] # P!NoInvoice => kept[i] # P!NoInvoice
  PROVE  PlanCallOK(call, later, kept)
<1>1. CASE call \in ChangedPlan /\ call.row.amount \in amounts[call.row.plan]
  BY <1>1 DEF PlanCallOK, ChangedPlan
<1>2. CASE call \in EditingInvoice /\ stored[call.id] # P!NoInvoice
  BY <1>2 DEF PlanCallOK, EditingInvoice
<1> QED BY <1>1, <1>2 DEF PlanCallOK

(* One call moves, and what is noted only grows. *)
LEMMA PlanCallSteps ==
  ASSUME PlanInv, NEW c \in PlanCalls, NEW call, planCalls' = [planCalls EXCEPT ![c] = call],
         PlanCallOK(call, PlanAmountsNoted', invoices'),
         \A p \in PlanIds : PlanAmountsNoted[p] \subseteq PlanAmountsNoted'[p],
         \A i \in InvoiceIds : invoices[i] # P!NoInvoice => invoices'[i] # P!NoInvoice,
         \A p \in PlanIds : plans'[p].amount \in PlanAmountsNoted'[p],
         subscriber'.amount \in PlanAmountsNoted'[subscriber'.plan]
  PROVE  AmountsNoted'
<1>1. ASSUME NEW d \in PlanCalls
      PROVE  PlanCallOK(planCalls'[d], PlanAmountsNoted', invoices')
  <2>1. CASE d = c
    <3>1. planCalls'[d] = call
      BY <2>1 DEF PlanInv, PlanTables
    <3> QED BY <3>1
  <2>2. CASE d # c
    <3>1. planCalls'[d] = planCalls[d] /\ PlanCallOK(planCalls[d], PlanAmountsNoted, invoices)
      BY <2>2 DEF PlanInv, PlanTables, AmountsNoted
    <3>2. PlanCallOK(planCalls[d], PlanAmountsNoted', invoices')
      BY <3>1, PlanCallStays
    <3> QED BY <3>1, <3>2
  <2> QED BY <2>1, <2>2
<1> QED BY <1>1 DEF AmountsNoted

(* One call moves, ends, or begins alone. *)
LEMMA PlanCallAlone ==
  ASSUME PlanInv, NEW c \in PlanCalls, NEW call, planCalls' = [planCalls EXCEPT ![c] = call],
         PlanCrossed \subseteq PlanCrossed',
         "overlap" \notin PlanCrossed' =>
           /\ planCalls[c] # P!NoPlanCall \/ \A d \in PlanCalls : planCalls[d] = P!NoPlanCall
           /\ call.pc = "invoice" /\ call.row.status # "VOID" => invoices'[call.id].status # "VOID"
  PROVE  AloneWithoutOverlap'
<1> SUFFICES ASSUME "overlap" \notin PlanCrossed', NEW b \in PlanCalls,
                    planCalls'[b] # P!NoPlanCall
             PROVE  /\ \A d \in PlanCalls : d # b => planCalls'[d] = P!NoPlanCall
                    /\ planCalls'[b].pc = "invoice" /\ planCalls'[b].row.status # "VOID" =>
                         invoices'[planCalls'[b].id].status # "VOID"
  BY DEF AloneWithoutOverlap
<1>1. planCalls'[c] = call /\ \A d \in PlanCalls : d # c => planCalls'[d] = planCalls[d]
  BY DEF PlanInv, PlanTables
<1>2. \A d \in PlanCalls : d # c => planCalls[d] = P!NoPlanCall
  <2>1. "overlap" \notin PlanCrossed
    OBVIOUS
  <2> QED BY <2>1 DEF PlanInv, AloneWithoutOverlap
<1>3. b = c
  BY <1>1, <1>2
<1> QED BY <1>1, <1>2, <1>3

(* One call moves, and neither set that is counted changes. *)
LEMMA PlanCountsRest ==
  ASSUME PlanInv, NEW c \in PlanCalls, NEW call, planCalls' = [planCalls EXCEPT ![c] = call],
         PlanCrossed \subseteq PlanCrossed', PlanChanges' = PlanChanges,
         call.pc # "changed", planCalls[c].pc # "changed",
         \A i \in InvoiceIds : (invoices'[i] = P!NoInvoice) <=> (invoices[i] = P!NoInvoice)
  PROVE  InvoicesCounted'
<1>1. planCalls'[c] = call /\ \A d \in PlanCalls : d # c => planCalls'[d] = planCalls[d]
  BY DEF PlanInv, PlanTables
<1>2. PlansChanging' = PlansChanging
  BY <1>1 DEF PlansChanging
<1>3. Invoiced' = Invoiced
  BY DEF Invoiced
<1>4. PlanCrossed' = {} => PlanCrossed = {}
  OBVIOUS
<1> QED BY <1>2, <1>3, <1>4, Zenon DEF PlanInv, InvoicesCounted

(* A call begins, and notes whether another is under way. *)
LEMMA PlanCallBegins ==
  ASSUME PlanInv, NEW c \in PlanCalls, NEW call, P!Begin(c, call),
         UNCHANGED <<plans, subscriber, invoices, today>>,
         PlanCallOK(call, PlanAmountsNoted, invoices), call.pc # "changed",
         call.pc = "invoice" /\ call.row.status # "VOID" => invoices[call.id].status # "VOID"
  PROVE  PlanInv'
<1>1. /\ planCalls' = [planCalls EXCEPT ![c] = call] /\ planCalls[c] = P!NoPlanCall
      /\ plans' = plans /\ subscriber' = subscriber /\ invoices' = invoices /\ today' = today
  BY DEF P!Begin
<1>2. /\ PlanAmountsNoted' = PlanAmountsNoted /\ PlanChanges' = PlanChanges
      /\ PlanCrossed' = PlanCrossed \cup
           IF \E d \in PlanCalls : planCalls[d] # P!NoPlanCall THEN {"overlap"} ELSE {}
      /\ planNotes' = [amounts |-> PlanAmountsNoted', changes |-> PlanChanges', crossed |-> PlanCrossed']
  <2> DEFINE more == IF \E d \in PlanCalls : planCalls[d] # P!NoPlanCall THEN {"overlap"} ELSE {}
  <2>1. planNotes' = [planNotes EXCEPT !.crossed = @ \cup more]
    BY DEF P!Begin
  <2>2. planNotes = [amounts |-> PlanAmountsNoted, changes |-> PlanChanges, crossed |-> PlanCrossed]
    BY DEF PlanInv, PlanTables
  <2> HIDE DEF more
  <2>3. planNotes' = [amounts |-> PlanAmountsNoted, changes |-> PlanChanges,
                      crossed |-> PlanCrossed \cup more]
    BY <2>1, <2>2
  <2> QED BY <2>3 DEF PlanAmountsNoted, PlanChanges, PlanCrossed, more
<1>3. planCalls[c].pc = "none"
  BY <1>1 DEF P!NoPlanCall
<1>4. PlanTables'
  BY <1>1, <1>2 DEF PlanInv, PlanTables
<1>5. AmountsNoted'
  <2>1. PlanCallOK(call, PlanAmountsNoted', invoices')
    BY <1>1, <1>2 DEF PlanCallOK
  <2>2. /\ \A p \in PlanIds : plans'[p].amount \in PlanAmountsNoted'[p]
        /\ subscriber'.amount \in PlanAmountsNoted'[subscriber'.plan]
    BY <1>1, <1>2 DEF PlanInv, AmountsNoted
  <2> QED BY <1>1, <1>2, <2>1, <2>2, PlanCallSteps
<1>6. AloneWithoutOverlap'
  BY <1>1, <1>2, PlanCallAlone
<1>7. InvoicesCounted'
  BY <1>1, <1>2, <1>3, PlanCountsRest
<1> QED BY <1>4, <1>5, <1>6, <1>7 DEF PlanInv

(* What the notes become when a part of them is replaced. *)
LEMMA NotesAre ==
  ASSUME PlanInv, NEW a, NEW n, NEW x,
         planNotes' = [amounts |-> a, changes |-> n, crossed |-> x]
  PROVE  /\ PlanAmountsNoted' = a /\ PlanChanges' = n /\ PlanCrossed' = x
         /\ planNotes' = [amounts |-> PlanAmountsNoted', changes |-> PlanChanges', crossed |-> PlanCrossed']
BY DEF PlanAmountsNoted, PlanChanges, PlanCrossed

(* A call that ends leaves nothing under way that was not. *)
LEMMA PlanCallEnds ==
  ASSUME PlanInv, NEW c \in PlanCalls, P!End(c), planCalls[c].pc # "none",
         PlanTables', PlanCrossed \subseteq PlanCrossed',
         \A p \in PlanIds : PlanAmountsNoted[p] \subseteq PlanAmountsNoted'[p],
         \A i \in InvoiceIds : (invoices'[i] = P!NoInvoice) <=> (invoices[i] = P!NoInvoice),
         \A p \in PlanIds : plans'[p].amount \in PlanAmountsNoted'[p],
         subscriber'.amount \in PlanAmountsNoted'[subscriber'.plan],
         \/ PlanCrossed' # {}
         \/ PlanChanges' = PlanChanges /\ planCalls[c].pc # "changed"
         \/ PlanChanges' = PlanChanges + 1
  PROVE  PlanInv'
<1>1. /\ planCalls' = [planCalls EXCEPT ![c] = P!NoPlanCall] /\ planCalls[c] # P!NoPlanCall
      /\ P!NoPlanCall.pc = "none"
  BY DEF P!End, P!NoPlanCall
<1>2. PlanCallOK(P!NoPlanCall, PlanAmountsNoted', invoices')
  BY DEF PlanCallOK
<1>3. AmountsNoted'
  BY <1>1, <1>2, PlanCallSteps
<1>4. AloneWithoutOverlap'
  BY <1>1, PlanCallAlone
<1>5. ASSUME PlanChanges' = PlanChanges + 1
      PROVE  InvoicesCounted'
  <2>1. PlansChanging \ {c} \subseteq PlansChanging' /\ PlansChanging \subseteq PlanCalls /\ PlansChanging' \subseteq PlanCalls
    BY <1>1 DEF PlansChanging, PlanInv, PlanTables
  <2>2. PlansChanging \subseteq PlansChanging' \cup {c}
    BY <2>1
  <2>3. Cardinality(PlansChanging) <= Cardinality(PlansChanging') + 1
    <3>1. IsFiniteSet(PlansChanging') /\ Cardinality(PlansChanging') \in Nat
      BY <2>1, PlanSetsFinite
    <3>2. /\ IsFiniteSet(PlansChanging' \cup {c}) /\ Cardinality(PlansChanging' \cup {c}) \in Nat
          /\ Cardinality(PlansChanging' \cup {c}) <= Cardinality(PlansChanging') + 1
      BY <3>1, WithCount
    <3>3. /\ Cardinality(PlansChanging) \in Nat
          /\ Cardinality(PlansChanging) <= Cardinality(PlansChanging' \cup {c})
      BY <2>2, <3>2, SubsetCount
    <3> QED BY <3>1, <3>2, <3>3
  <2>4. Invoiced' = Invoiced /\ Invoiced \subseteq InvoiceIds
    BY DEF Invoiced
  <2>5. PlanCrossed' = {} => PlanCrossed = {}
    OBVIOUS
  <2>6. Cardinality(PlansChanging) \in Nat /\ Cardinality(PlansChanging') \in Nat /\ Cardinality(Invoiced) \in Nat
    BY <2>1, <2>4, PlanSetsFinite
  <2>7. PlanChanges \in Nat
    BY DEF PlanInv, PlanTables
  <2>8. PlanCrossed' = {} => Cardinality(Invoiced') <= PlanChanges' + Cardinality(PlansChanging')
    BY <1>5, <2>3, <2>4, <2>5, <2>6, <2>7 DEF PlanInv, InvoicesCounted
  <2> QED BY <2>8 DEF InvoicesCounted
<1>6. InvoicesCounted'
  BY <1>1, <1>5, PlanCountsRest DEF InvoicesCounted
<1> QED BY <1>3, <1>4, <1>6 DEF PlanInv

(* An edit of a plan is saved, and its amount noted. *)
LEMMA PlanIsSaved == ASSUME PlanInv, NEW c \in PlanCalls, P!SavePlan(c) PROVE PlanInv'
<1> DEFINE call == planCalls[c]
           noted == [PlanAmountsNoted EXCEPT ![call.plan] = @ \cup {call.row.amount}]
<1>1. call.pc = "plan" /\ call \in EditingPlan
  BY PlanCallAt DEF PlanInv, AmountsNoted, P!SavePlan
<1>2. call.plan \in PlanIds /\ call.row \in PlanRow /\ call.row.amount \in PlanAmounts
  BY <1>1 DEF EditingPlan, PlanRow
<1>3. planNotes' = [amounts |-> noted, changes |-> PlanChanges, crossed |-> PlanCrossed]
  <2>1. planNotes = [amounts |-> PlanAmountsNoted, changes |-> PlanChanges, crossed |-> PlanCrossed]
    BY DEF PlanInv, PlanTables
  <2>2. planNotes' = [planNotes EXCEPT !.amounts[call.plan] = @ \cup {call.row.amount}]
    BY DEF P!SavePlan
  <2> HIDE DEF call
  <2> QED BY <2>1, <2>2
<1>4. /\ plans' = [plans EXCEPT ![call.plan] = call.row] /\ P!End(c)
      /\ subscriber' = subscriber /\ invoices' = invoices /\ today' = today
  BY DEF P!SavePlan
<1> HIDE DEF noted, call
<1>5. /\ PlanAmountsNoted' = noted /\ PlanChanges' = PlanChanges /\ PlanCrossed' = PlanCrossed
      /\ planNotes' = [amounts |-> PlanAmountsNoted', changes |-> PlanChanges', crossed |-> PlanCrossed']
  BY <1>3, NotesAre
<1>6. /\ noted = [p \in PlanIds |-> noted[p]]
      /\ \A p \in PlanIds : noted[p] = IF p = call.plan THEN PlanAmountsNoted[p] \cup {call.row.amount}
                                                        ELSE PlanAmountsNoted[p]
  BY <1>2 DEF noted, PlanInv, PlanTables
<1>7. PlanTables'
  <2>1. plans' \in [PlanIds -> PlanRow]
    BY <1>2, <1>4 DEF PlanInv, PlanTables
  <2>2. planCalls' = [d \in PlanCalls |-> planCalls'[d]]
    BY <1>4 DEF P!End, PlanInv, PlanTables
  <2> QED BY <1>4, <1>5, <1>6, <2>1, <2>2 DEF PlanInv, PlanTables
<1>8. \A p \in PlanIds : plans'[p].amount \in PlanAmountsNoted'[p]
  <2> SUFFICES ASSUME NEW p \in PlanIds PROVE plans'[p].amount \in PlanAmountsNoted'[p]
    OBVIOUS
  <2>1. plans'[p] = IF p = call.plan THEN call.row ELSE plans[p]
    BY <1>4 DEF PlanInv, PlanTables
  <2>2. plans[p].amount \in PlanAmountsNoted[p]
    BY DEF PlanInv, AmountsNoted
  <2> QED BY <1>5, <1>6, <2>1, <2>2
<1>9. \A p \in PlanIds : PlanAmountsNoted[p] \subseteq PlanAmountsNoted'[p]
  BY <1>5, <1>6
<1>10. subscriber'.amount \in PlanAmountsNoted'[subscriber'.plan]
  BY <1>4, <1>9 DEF PlanInv, PlanTables, AmountsNoted
<1> QED BY <1>1, <1>4, <1>5, <1>7, <1>8, <1>9, <1>10, PlanCallEnds DEF call

(* A change of plan is saved, with an amount that its plan has had. *)
LEMMA ChangeIsSaved == ASSUME PlanInv, NEW c \in PlanCalls, P!SaveChange(c) PROVE PlanInv'
<1>1. /\ planCalls[c].pc = "changed" /\ planCalls[c] \in ChangedPlan
      /\ planCalls[c].row.amount \in PlanAmountsNoted[planCalls[c].row.plan]
  BY PlanCallAt DEF PlanInv, AmountsNoted, P!SaveChange
<1>2. planCalls[c].row \in [plan : PlanIds, amount : PlanAmounts]
  BY <1>1 DEF ChangedPlan
<1>3. planNotes' = [amounts |-> PlanAmountsNoted, changes |-> PlanChanges + 1, crossed |-> PlanCrossed]
  <2>1. planNotes = [amounts |-> PlanAmountsNoted, changes |-> PlanChanges, crossed |-> PlanCrossed]
    BY DEF PlanInv, PlanTables
  <2>2. planNotes' = [planNotes EXCEPT !.changes = @ + 1]
    BY DEF P!SaveChange
  <2> QED BY <2>1, <2>2
<1>4. /\ subscriber' = planCalls[c].row /\ P!End(c)
      /\ plans' = plans /\ invoices' = invoices /\ today' = today
  BY DEF P!SaveChange
<1>5. /\ PlanAmountsNoted' = PlanAmountsNoted /\ PlanChanges' = PlanChanges + 1
      /\ PlanCrossed' = PlanCrossed
      /\ planNotes' = [amounts |-> PlanAmountsNoted', changes |-> PlanChanges', crossed |-> PlanCrossed']
  BY <1>3, NotesAre
<1>6. PlanTables'
  <2>1. planCalls' = [d \in PlanCalls |-> planCalls'[d]]
    BY <1>4 DEF P!End, PlanInv, PlanTables
  <2>2. PlanChanges' \in Nat
    BY <1>5 DEF PlanInv, PlanTables
  <2> QED BY <1>2, <1>4, <1>5, <2>1, <2>2 DEF PlanInv, PlanTables
<1>7. /\ \A p \in PlanIds : plans'[p].amount \in PlanAmountsNoted'[p]
      /\ subscriber'.amount \in PlanAmountsNoted'[subscriber'.plan]
  BY <1>1, <1>4, <1>5 DEF PlanInv, AmountsNoted
<1> QED BY <1>1, <1>4, <1>5, <1>6, <1>7, PlanCallEnds

(* An invoice is saved, in the place of one. *)
LEMMA InvoiceIsSaved == ASSUME PlanInv, NEW c \in PlanCalls, P!SaveInvoice(c) PROVE PlanInv'
<1> DEFINE call == planCalls[c]
<1>1. call.pc = "invoice" /\ call \in EditingInvoice /\ invoices[call.id] # P!NoInvoice
  BY PlanCallAt DEF PlanInv, AmountsNoted, P!SaveInvoice
<1>2. call.id \in InvoiceIds /\ call.row \in Invoice /\ call.row # P!NoInvoice
  <2>1. call.id \in InvoiceIds /\ call.row \in Invoice
    BY <1>1 DEF EditingInvoice
  <2>2. call.row.status # "none" /\ P!NoInvoice.status = "none"
    BY <2>1 DEF Invoice, P!NoInvoice
  <2> QED BY <2>1, <2>2
<1>3. /\ invoices' = [invoices EXCEPT ![call.id] = call.row] /\ P!End(c)
      /\ plans' = plans /\ subscriber' = subscriber /\ today' = today /\ planNotes' = planNotes
  BY DEF P!SaveInvoice
<1> HIDE DEF call
<1>4. /\ PlanAmountsNoted' = PlanAmountsNoted /\ PlanChanges' = PlanChanges
      /\ PlanCrossed' = PlanCrossed
  BY <1>3 DEF PlanAmountsNoted, PlanChanges, PlanCrossed
<1>5. PlanTables'
  <2>1. planCalls' = [d \in PlanCalls |-> planCalls'[d]]
    BY <1>3 DEF P!End, PlanInv, PlanTables
  <2>2. invoices' \in [InvoiceIds -> Invoice \cup {P!NoInvoice}]
    BY <1>2, <1>3 DEF PlanInv, PlanTables
  <2> QED BY <1>3, <1>4, <2>1, <2>2 DEF PlanInv, PlanTables
<1>6. \A i \in InvoiceIds : (invoices'[i] = P!NoInvoice) <=> (invoices[i] = P!NoInvoice)
  <2>1. \A i \in InvoiceIds : invoices'[i] = IF i = call.id THEN call.row ELSE invoices[i]
    BY <1>3 DEF PlanInv, PlanTables
  <2> QED BY <1>1, <1>2, <2>1
<1>7. /\ \A p \in PlanIds : plans'[p].amount \in PlanAmountsNoted'[p]
      /\ subscriber'.amount \in PlanAmountsNoted'[subscriber'.plan]
  BY <1>3, <1>4 DEF PlanInv, AmountsNoted
<1> QED BY <1>1, <1>3, <1>4, <1>5, <1>6, <1>7, PlanCallEnds DEF call

(* A call that throws is noted. *)
LEMMA PlanCallThrows == ASSUME PlanInv, NEW c \in PlanCalls, P!Throw(c) PROVE PlanInv'
<1>1. /\ P!End(c) /\ planCalls[c] # P!NoPlanCall
      /\ plans' = plans /\ subscriber' = subscriber /\ invoices' = invoices /\ today' = today
  BY DEF P!Throw
<1>2. planCalls[c].pc # "none"
  <2>1. PlanCallOK(planCalls[c], PlanAmountsNoted, invoices)
    BY DEF PlanInv, AmountsNoted
  <2> QED BY <1>1, <2>1 DEF PlanCallOK, EditingPlan, LoadedPlan, ChangedPlan, EditingInvoice
<1>3. planNotes' = [amounts |-> PlanAmountsNoted, changes |-> PlanChanges,
                    crossed |-> PlanCrossed \cup {"thrown"}]
  <2>1. planNotes = [amounts |-> PlanAmountsNoted, changes |-> PlanChanges, crossed |-> PlanCrossed]
    BY DEF PlanInv, PlanTables
  <2>2. planNotes' = [planNotes EXCEPT !.crossed = @ \cup {"thrown"}]
    BY DEF P!Throw
  <2> QED BY <2>1, <2>2
<1>4. /\ PlanAmountsNoted' = PlanAmountsNoted /\ PlanChanges' = PlanChanges
      /\ PlanCrossed' = PlanCrossed \cup {"thrown"}
      /\ planNotes' = [amounts |-> PlanAmountsNoted', changes |-> PlanChanges', crossed |-> PlanCrossed']
  BY <1>3, NotesAre
<1>5. PlanTables'
  <2>1. planCalls' = [d \in PlanCalls |-> planCalls'[d]]
    BY <1>1 DEF P!End, PlanInv, PlanTables
  <2> QED BY <1>1, <1>4, <2>1 DEF PlanInv, PlanTables
<1>6. /\ \A p \in PlanIds : plans'[p].amount \in PlanAmountsNoted'[p]
      /\ subscriber'.amount \in PlanAmountsNoted'[subscriber'.plan]
  BY <1>1, <1>4 DEF PlanInv, AmountsNoted
<1> QED BY <1>1, <1>2, <1>4, <1>5, <1>6, PlanCallEnds

(* What each call begins with. *)
LEMMA PlanCallsBegin ==
  ASSUME PlanInv, NEW c \in PlanCalls,
         \/ \E p \in PlanIds : P!EditPlan(c, p) \/ P!UpdateSubscription(c, p)
         \/ \E i \in InvoiceIds, to \in {"PROCESSING", "VOID"} : P!EditInvoice(c, i, to)
  PROVE  PlanInv'
<1>1. ASSUME NEW p \in PlanIds, P!EditPlan(c, p)
      PROVE  PlanInv'
  <2>1. PICK status \in {"ACTIVE", "ARCHIVED"}, amount \in PlanAmounts :
          P!Begin(c, [pc |-> "plan", plan |-> p, row |-> [status |-> status, amount |-> amount]])
    BY <1>1 DEF P!EditPlan
  <2> DEFINE call == [pc |-> "plan", plan |-> p, row |-> [status |-> status, amount |-> amount]]
  <2>2. PlanCallOK(call, PlanAmountsNoted, invoices) /\ call.pc = "plan"
    BY DEF PlanCallOK, EditingPlan, PlanRow
  <2>3. UNCHANGED <<plans, subscriber, invoices, today>>
    BY <1>1 DEF P!EditPlan
  <2> HIDE DEF call
  <2> QED BY <2>1, <2>2, <2>3, PlanCallBegins DEF call
<1>2. ASSUME NEW p \in PlanIds, P!UpdateSubscription(c, p)
      PROVE  PlanInv'
  <2> DEFINE call == [pc |-> "loaded", new |-> p, old |-> plans[subscriber.plan].amount]
  <2>1. P!Begin(c, call) /\ UNCHANGED <<plans, subscriber, invoices, today>>
    BY <1>2 DEF P!UpdateSubscription
  <2>2. plans[subscriber.plan].amount \in PlanAmounts
    BY DEF PlanInv, PlanTables, PlanRow
  <2>3. PlanCallOK(call, PlanAmountsNoted, invoices) /\ call.pc = "loaded"
    BY <2>2 DEF PlanCallOK, LoadedPlan
  <2> HIDE DEF call
  <2> QED BY <2>1, <2>3, PlanCallBegins
<1>3. ASSUME NEW i \in InvoiceIds, NEW to \in {"PROCESSING", "VOID"}, P!EditInvoice(c, i, to)
      PROVE  PlanInv'
  <2> DEFINE row == [invoices[i] EXCEPT !.status = to]
             call == [pc |-> "invoice", id |-> i, row |-> row]
  <2>1. P!Begin(c, call) /\ UNCHANGED <<plans, subscriber, invoices, today>>
    BY <1>3 DEF P!EditInvoice
  <2>2. invoices[i] # P!NoInvoice /\ (to = "PROCESSING" => invoices[i].status = "PENDING")
    BY <1>3 DEF P!EditInvoice
  <2>3. invoices[i] \in Invoice
    BY <2>2 DEF PlanInv, PlanTables
  <2>4. row \in Invoice /\ row.status = to
    BY <2>3 DEF Invoice
  <2> HIDE DEF row
  <2>5. /\ PlanCallOK(call, PlanAmountsNoted, invoices) /\ call.pc = "invoice"
        /\ call.id = i /\ call.row.status = to
    BY <2>2, <2>4 DEF PlanCallOK, EditingInvoice
  <2> HIDE DEF call
  <2>6. call.row.status # "VOID" => invoices[call.id].status # "VOID"
    BY <2>2, <2>5
  <2> QED BY <2>1, <2>5, <2>6, PlanCallBegins
<1> QED BY <1>1, <1>2, <1>3

(* A change of plan makes an invoice at most, and is yet to be saved. *)
LEMMA PlanIsChanged == ASSUME PlanInv, NEW c \in PlanCalls, P!ChangePlan(c) PROVE PlanInv'
<1> DEFINE call == planCalls[c]
           price == plans[call.new].amount
           next == [pc |-> "changed", row |-> [plan |-> call.new, amount |-> price]]
<1>1. call.pc = "loaded" /\ call \in LoadedPlan
  BY PlanCallAt DEF PlanInv, AmountsNoted, P!ChangePlan
<1>2. call.new \in PlanIds /\ call.old \in PlanAmounts /\ price \in PlanAmounts
      /\ price \in PlanAmountsNoted[call.new] /\ call # P!NoPlanCall
  BY <1>1 DEF LoadedPlan, PlanInv, PlanTables, PlanRow, AmountsNoted, P!NoPlanCall
<1>3. /\ planCalls' = [planCalls EXCEPT ![c] = next]
      /\ plans' = plans /\ subscriber' = subscriber /\ today' = today /\ planNotes' = planNotes
  BY DEF P!ChangePlan
<1>4. \/ invoices' = invoices
      \/ \E i \in InvoiceIds : invoices[i] = P!NoInvoice
           /\ invoices' = [invoices EXCEPT ![i] = [status |-> "PENDING", old |-> call.old, new |-> price]]
  BY DEF P!ChangePlan
<1>5. /\ next.pc = "changed" /\ next \in ChangedPlan /\ next.row.plan = call.new
      /\ next.row.amount = price
  BY <1>2 DEF ChangedPlan
<1>6. [status |-> "PENDING", old |-> call.old, new |-> price] \in Invoice
  BY <1>2 DEF Invoice
<1> HIDE DEF call, price, next
<1>7. /\ PlanAmountsNoted' = PlanAmountsNoted /\ PlanChanges' = PlanChanges
      /\ PlanCrossed' = PlanCrossed
  BY <1>3 DEF PlanAmountsNoted, PlanChanges, PlanCrossed
<1>8. \/ invoices' = invoices
      \/ /\ invoices' \in [InvoiceIds -> Invoice \cup {P!NoInvoice}]
         /\ \E i \in InvoiceIds : \A j \in InvoiceIds \ {i} : invoices'[j] = invoices[j]
         /\ \A i \in InvoiceIds : invoices[i] # P!NoInvoice => invoices'[i] = invoices[i]
  BY <1>4, <1>6 DEF PlanInv, PlanTables
<1>9. PlanTables'
  <2>1. planCalls' = [d \in PlanCalls |-> planCalls'[d]]
    BY <1>3 DEF PlanInv, PlanTables
  <2>2. invoices' \in [InvoiceIds -> Invoice \cup {P!NoInvoice}]
    BY <1>8 DEF PlanInv, PlanTables
  <2> QED BY <1>3, <1>7, <2>1, <2>2 DEF PlanInv, PlanTables
<1>10. \A i \in InvoiceIds : invoices[i] # P!NoInvoice => invoices'[i] # P!NoInvoice
  BY <1>8
<1>11. AmountsNoted'
  <2>1. PlanCallOK(next, PlanAmountsNoted', invoices')
    BY <1>2, <1>5, <1>7 DEF PlanCallOK
  <2>2. /\ \A p \in PlanIds : plans'[p].amount \in PlanAmountsNoted'[p]
        /\ subscriber'.amount \in PlanAmountsNoted'[subscriber'.plan]
    BY <1>3, <1>7 DEF PlanInv, AmountsNoted
  <2> QED BY <1>3, <1>7, <1>10, <2>1, <2>2, PlanCallSteps
<1>12. AloneWithoutOverlap'
  BY <1>2, <1>3, <1>5, <1>7, PlanCallAlone DEF call
<1>13. InvoicesCounted'
  <2>1. /\ PlansChanging \subseteq PlanCalls /\ PlansChanging' \subseteq PlanCalls
        /\ Invoiced \subseteq InvoiceIds /\ Invoiced' \subseteq InvoiceIds
    BY DEF PlansChanging, Invoiced
  <2>2. c \in PlansChanging' /\ PlansChanging \subseteq PlansChanging' \ {c}
    <3>1. /\ planCalls'[c] = next /\ planCalls[c].pc = "loaded"
          /\ \A d \in PlanCalls : d # c => planCalls'[d] = planCalls[d]
      BY <1>1, <1>3 DEF PlanInv, PlanTables, call
    <3> QED BY <1>5, <3>1 DEF PlansChanging
  <2>3. /\ IsFiniteSet(PlansChanging) /\ IsFiniteSet(PlansChanging')
        /\ IsFiniteSet(Invoiced) /\ IsFiniteSet(Invoiced')
    BY <2>1, PlanSetsFinite
  <2>4. /\ Cardinality(PlansChanging) \in Nat /\ Cardinality(PlansChanging') \in Nat
        /\ Cardinality(PlansChanging) + 1 <= Cardinality(PlansChanging')
    BY <2>2, <2>3, WithoutCount
  <2>5. PICK i : Invoiced' \subseteq Invoiced \cup {i}
    BY <1>8 DEF Invoiced
  <2>6. /\ Cardinality(Invoiced) \in Nat /\ Cardinality(Invoiced') \in Nat
        /\ Cardinality(Invoiced') <= Cardinality(Invoiced) + 1
    <3>1. /\ IsFiniteSet(Invoiced \cup {i}) /\ Cardinality(Invoiced \cup {i}) \in Nat
          /\ Cardinality(Invoiced) \in Nat
          /\ Cardinality(Invoiced \cup {i}) <= Cardinality(Invoiced) + 1
      BY <2>3, WithCount
    <3>2. /\ Cardinality(Invoiced') \in Nat
          /\ Cardinality(Invoiced') <= Cardinality(Invoiced \cup {i})
      BY <2>5, <3>1, SubsetCount
    <3> QED BY <3>1, <3>2
  <2>7. PlanChanges \in Nat
    BY DEF PlanInv, PlanTables
  <2>8. PlanCrossed = {} => Cardinality(Invoiced) <= PlanChanges + Cardinality(PlansChanging)
    BY DEF PlanInv, InvoicesCounted
  <2>9. PlanCrossed = {} => Cardinality(Invoiced') <= PlanChanges + Cardinality(PlansChanging')
    BY <2>4, <2>6, <2>7, <2>8
  <2> QED BY <1>7, <2>9 DEF InvoicesCounted
<1> QED BY <1>9, <1>11, <1>12, <1>13 DEF PlanInv

(* Every step of the plans keeps their invariant. *)
LEMMA NextPlanInv == PlanInv /\ P!Next => PlanInv'
<1> SUFFICES ASSUME PlanInv, P!Next PROVE PlanInv'
  OBVIOUS
<1>1. CASE P!Day
  <2>1. /\ UNCHANGED <<plans, subscriber, invoices, planCalls, plansMade, planNotes>>
        /\ today < DaysInPeriod + 1 /\ today' = today + 1
    BY <1>1 DEF P!Day
  <2>2. today' \in 0..DaysInPeriod + 1
    BY <2>1, PlansAssumption DEF PlanInv, PlanTables
  <2>3. PlanAmountsNoted' = PlanAmountsNoted /\ PlanChanges' = PlanChanges /\ PlanCrossed' = PlanCrossed
    BY <2>1 DEF PlanAmountsNoted, PlanChanges, PlanCrossed
  <2>4. Invoiced' = Invoiced /\ PlansChanging' = PlansChanging
    BY <2>1 DEF Invoiced, PlansChanging
  <2>5. PlanTables'
    BY <2>1, <2>2, <2>3 DEF PlanInv, PlanTables
  <2>6. AmountsNoted' /\ AloneWithoutOverlap'
    BY <2>1, <2>3 DEF PlanInv, AmountsNoted, AloneWithoutOverlap
  <2>7. InvoicesCounted'
    BY <2>3, <2>4 DEF PlanInv, InvoicesCounted
  <2> QED BY <2>5, <2>6, <2>7 DEF PlanInv
<1> QED BY <1>1, PlanIsSaved, PlanIsChanged, ChangeIsSaved, InvoiceIsSaved, PlanCallThrows,
          PlanCallsBegin DEF P!Next

(* Other parts leave the plans alone. *)
LEMMA RestingPlans == PlanInv /\ UNCHANGED ofPlans => PlanInv'
BY DEF ofPlans, PlanInv, PlanTables, AmountsNoted, AloneWithoutOverlap, InvoicesCounted,
   Invoiced, PlansChanging, PlanAmountsNoted, PlanChanges, PlanCrossed

(* A step that opens a voided invoice is that of a call which overlapped. *)
LEMMA VoidIsKept ==
  ASSUME PlanInv, P!Next, NEW i \in InvoiceIds,
         invoices[i].status = "VOID", invoices'[i].status # "VOID"
  PROVE  "overlap" \in planNotes.crossed
<1>1. invoices' # invoices
  OBVIOUS
<1>2. PICK c \in PlanCalls : P!ChangePlan(c) \/ P!SaveInvoice(c)
  BY <1>1 DEF P!Next, P!Day, P!SavePlan, P!SaveChange, P!Throw, P!EditPlan, P!UpdateSubscription,
     P!EditInvoice
<1>3. CASE P!ChangePlan(c)
  <2>1. PICK j \in InvoiceIds :
          /\ invoices[j] = P!NoInvoice
          /\ \E row : invoices' = [invoices EXCEPT ![j] = row]
    BY <1>1, <1>3 DEF P!ChangePlan
  <2>2. j # i
    BY <2>1 DEF P!NoInvoice
  <2>3. invoices'[i] = invoices[i]
    BY <2>1, <2>2 DEF PlanInv, PlanTables
  <2> QED BY <2>3
<1>4. CASE P!SaveInvoice(c)
  <2>1. /\ planCalls[c].pc = "invoice" /\ planCalls[c] \in EditingInvoice
        /\ invoices' = [invoices EXCEPT ![planCalls[c].id] = planCalls[c].row]
    BY <1>4, PlanCallAt DEF PlanInv, AmountsNoted, P!SaveInvoice
  <2>2. planCalls[c].id = i /\ planCalls[c].row.status # "VOID"
    BY <2>1 DEF PlanInv, PlanTables, EditingInvoice
  <2>3. planCalls[c] # P!NoPlanCall
    BY <2>1 DEF P!NoPlanCall
  <2>4. "overlap" \in PlanCrossed
    BY <2>1, <2>2, <2>3 DEF PlanInv, AloneWithoutOverlap
  <2> QED BY <2>4 DEF PlanCrossed
<1> QED BY <1>2, <1>3, <1>4

(* The inductive invariant gives what the properties say. *)
LEMMA PlanImplies ==
  ASSUME PlanInv
  PROVE  P!TypeOK /\ P!AmountIsOfPlan /\ P!ChangesAreBilledOnce
<1>1. P!TypeOK
  <2>1. \A i \in P!Prorations : invoices[i] \in Invoice
    BY DEF P!Prorations, PlanInv, PlanTables
  <2>2. plans \in [PlanIds -> PlanRow] /\ subscriber \in [plan : PlanIds, amount : PlanAmounts]
        /\ today \in 0..DaysInPeriod + 1
    BY DEF PlanInv, PlanTables
  <2>3. \A i \in P!Prorations : invoices[i].status \in {"PENDING", "PROCESSING", "VOID"}
    BY <2>1 DEF Invoice
  <2> QED BY <2>2, <2>3 DEF P!TypeOK, PlanRow
<1>2. P!AmountIsOfPlan
  BY DEF PlanInv, AmountsNoted, PlanAmountsNoted, P!AmountIsOfPlan
<1>3. P!ChangesAreBilledOnce
  <2>1. Invoiced = P!Prorations /\ PlansChanging = {c \in PlanCalls : planCalls[c].pc = "changed"}
    BY DEF Invoiced, P!Prorations, PlansChanging
  <2>2. \A X : P!Cardinality(X) = Cardinality(X)
    BY DEF P!Cardinality, Cardinality
  <2> QED BY <2>1, <2>2 DEF PlanInv, InvoicesCounted, PlanCrossed, PlanChanges, P!ChangesAreBilledOnce
<1> QED BY <1>1, <1>2, <1>3

-----------------------------------------------------------------------------

(***************************************************************************)
(* Usage.  UsageInv: while no client asks with another about to record, a   *)
(* period has two records at most, the first of them below the limit, and   *)
(* one at most, below the limit, while a client is about to record.         *)
(***************************************************************************)

(* A total is computed by a function of the subsets of the records.         *)
Picked(s) == CHOOSE u \in s : TRUE
Totals(X, g) ==
  g = [s \in SUBSET X |-> IF s = {} THEN 0
                          ELSE usage[Picked(s)].quantity + g[s \ {Picked(s)}]]

LEMMA TotalIsChosen ==
  ASSUME NEW p
  PROVE  U!Total(p) = (CHOOSE g : Totals(U!Recorded(p), g))[U!Recorded(p)]
BY DEF U!Total, U!MapThenSumSet, U!MapThenFoldSet, Totals, Picked

(* What it computes for no record, for one and for two. *)
SumsUp(X, u, v, n) ==
  /\ X = {} => n = 0
  /\ X = {u} => n = usage[u].quantity
  /\ X = {u, v} /\ u # v => n = usage[u].quantity + usage[v].quantity

LEMMA TotalOfTwo ==
  ASSUME NEW u, NEW v, NEW X, X \subseteq {u, v},
         usage[u].quantity \in Nat, usage[v].quantity \in Nat
  PROVE  /\ \E g : Totals(X, g)
         /\ \A g : Totals(X, g) => SumsUp(X, u, v, g[X])
<1> DEFINE q(s) == (IF u \in s THEN usage[u].quantity ELSE 0)
                     + (IF v \in s /\ u # v THEN usage[v].quantity ELSE 0)
           h == [s \in SUBSET X |-> q(s)]
<1>1. ASSUME NEW s \in SUBSET X, s # {}
      PROVE  q(s) = usage[Picked(s)].quantity + q(s \ {Picked(s)})
  <2>1. Picked(s) \in s
    BY <1>1 DEF Picked
  <2>2. CASE Picked(s) = u
    <3>1. u \in s /\ u \notin s \ {Picked(s)} /\ (v \in s /\ u # v <=> v \in s \ {Picked(s)} /\ u # v)
      BY <2>1, <2>2
    <3> QED BY <2>2, <3>1
  <2>3. CASE Picked(s) # u
    <3>1. /\ Picked(s) = v /\ u # v /\ v \in s /\ v \notin s \ {Picked(s)}
          /\ (u \in s <=> u \in s \ {Picked(s)})
      BY <2>1, <2>3
    <3> QED BY <3>1
  <2> QED BY <2>2, <2>3
<1>2. q({}) = 0
  OBVIOUS
<1>3. \A s \in SUBSET X : h[s] = IF s = {} THEN 0 ELSE usage[Picked(s)].quantity + h[s \ {Picked(s)}]
  <2> SUFFICES ASSUME NEW s \in SUBSET X
               PROVE  h[s] = IF s = {} THEN 0 ELSE usage[Picked(s)].quantity + h[s \ {Picked(s)}]
    OBVIOUS
  <2>1. h[s] = q(s) /\ s \ {Picked(s)} \in SUBSET X
    OBVIOUS
  <2>2. h[s \ {Picked(s)}] = q(s \ {Picked(s)})
    BY <2>1
  <2> HIDE DEF q, h
  <2> QED BY <1>1, <1>2, <2>1, <2>2
<1>4. h = [s \in SUBSET X |-> h[s]]
  OBVIOUS
<1>5. Totals(X, h)
  <2> HIDE DEF h
  <2> QED BY <1>3, <1>4 DEF Totals
<1>6. SUFFICES ASSUME NEW g, Totals(X, g)
               PROVE  SumsUp(X, u, v, g[X])
  <2> HIDE DEF h
  <2> QED BY <1>5
<1> HIDE DEF h, q
<1>7. \A s \in SUBSET X : g[s] = IF s = {} THEN 0 ELSE usage[Picked(s)].quantity + g[s \ {Picked(s)}]
  BY <1>6 DEF Totals
<1>8. \A s : s # {} => Picked(s) \in s
  BY DEF Picked
<1>9. X = {} => g[X] = 0
  BY <1>7
<1>10. ASSUME NEW x, {x} \in SUBSET X, usage[x].quantity \in Nat PROVE g[{x}] = usage[x].quantity
  <2>1. Picked({x}) = x /\ {x} \ {x} = {} /\ {} \in SUBSET X
    BY <1>8
  <2>2. g[{}] = 0 /\ g[{x}] = usage[x].quantity + g[{x} \ {x}]
    BY <1>7, <1>10, <2>1
  <2> QED BY <1>10, <2>1, <2>2
<1>11. ASSUME X = {u, v}, u # v PROVE g[X] = usage[u].quantity + usage[v].quantity
  <2>1. g[{u}] = usage[u].quantity /\ g[{v}] = usage[v].quantity
    BY <1>10, <1>11
  <2>2. g[X] = usage[Picked(X)].quantity + g[X \ {Picked(X)}]
    BY <1>7, <1>11
  <2>3. \/ Picked(X) = u /\ X \ {Picked(X)} = {v}
        \/ Picked(X) = v /\ X \ {Picked(X)} = {u}
    BY <1>8, <1>11
  <2>4. CASE Picked(X) = u /\ X \ {Picked(X)} = {v}
    <3>1. g[X] = usage[u].quantity + usage[v].quantity
      BY <2>1, <2>2, <2>4
    <3> QED BY <3>1
  <2>5. CASE Picked(X) = v /\ X \ {Picked(X)} = {u}
    <3>1. g[X] = usage[v].quantity + usage[u].quantity
      BY <2>1, <2>2, <2>5
    <3> HIDE DEF Picked
    <3> QED BY <3>1
  <2> QED BY <2>3, <2>4, <2>5
<1> QED BY <1>9, <1>10, <1>11 DEF SumsUp

(* The total of a period with as many records. *)
LEMMA TotalOfFew ==
  ASSUME NEW p, NEW u, NEW v, usage[u].quantity \in Nat, usage[v].quantity \in Nat,
         U!Recorded(p) \subseteq {u, v}
  PROVE  SumsUp(U!Recorded(p), u, v, U!Total(p))
<1> DEFINE X == U!Recorded(p)
           g == CHOOSE k : Totals(X, k)
<1>1. U!Total(p) = g[X]
  BY TotalIsChosen
<1> HIDE DEF X
<1>2. X \subseteq {u, v}
  BY DEF X
<1>3. \E k : Totals(X, k)
  BY <1>2, TotalOfTwo
<1>4. Totals(X, g)
  BY <1>3
<1> HIDE DEF g
<1>5. SumsUp(X, u, v, g[X])
  BY <1>2, <1>4, TotalOfTwo
<1> QED BY <1>1, <1>5 DEF X

(* The total of a period with none. *)
LEMMA TotalOfNone ==
  ASSUME NEW p, U!Recorded(p) = {}
  PROVE  U!Total(p) = 0
<1>1. Totals({}, [s \in SUBSET {} |-> 0])
  BY DEF Totals
<1>2. Totals({}, CHOOSE g : Totals({}, g))
  BY <1>1
<1>3. \A g : Totals({}, g) => g[{}] = 0
  BY DEF Totals
<1>4. U!Total(p) = (CHOOSE g : Totals({}, g))[{}]
  BY TotalIsChosen
<1> QED BY <1>2, <1>3, <1>4

UsageRow == [quantity : Quantities, period : 1..period]
UsageTables ==
  /\ usage \in [UsageIds -> {U!NoUsage} \cup UsageRow]
  /\ meters \in [Meters -> {[pc |-> "idle"]} \cup [pc : {"allowed"}, quantity : Quantities, period : 1..period]]
  /\ period \in Nat \ {0}

HasRoom(p) ==
  \/ U!Recorded(p) = {}
  \/ \E u \in UsageIds : U!Recorded(p) = {u} /\ usage[u].quantity < UsageLimit
Few(p) ==
  \/ U!Recorded(p) = {}
  \/ \E u \in UsageIds : U!Recorded(p) = {u}
  \/ \E u \in UsageIds : \E v \in UsageIds \ {u} :
       U!Recorded(p) = {u, v} /\ usage[u].quantity < UsageLimit
OneAtATime ==
  checksMet = FALSE =>
    /\ \A m \in Meters : \A n \in Meters :
         meters[m].pc = "allowed" /\ meters[n].pc = "allowed" => m = n
    /\ \A p \in 1..period : Few(p)
    /\ \A m \in Meters : meters[m].pc = "allowed" =>
         \A p : meters[m].period = p => HasRoom(p)
UsageInv == UsageTables /\ OneAtATime /\ (checksMet = TRUE \/ checksMet = FALSE)

(* Nobody has recorded anything at first. *)
LEMMA InitUsage == U!Init => UsageInv
<1> SUFFICES ASSUME U!Init PROVE UsageInv
  OBVIOUS
<1>1. UsageTables
  BY DEF U!Init, UsageTables
<1>2. \A p : U!Recorded(p) = {}
  BY DEF U!Init, U!Recorded
<1>3. \A m \in Meters : meters[m].pc # "allowed"
  BY DEF U!Init
<1>4. OneAtATime
  BY <1>2, <1>3 DEF OneAtATime, Few
<1> QED BY <1>1, <1>4 DEF UsageInv, U!Init

(* What is within the limit leaves room for a record. *)
LEMMA WithinHasRoom ==
  ASSUME UsageTables, NEW q, U!WithinLimit(q)
  PROVE  HasRoom(period)
<1> DEFINE X == U!Recorded(period)
<1>1. IsFiniteSet(X)
  BY UsageAssumption, FS_Subset DEF U!Recorded
<1>2. \A Y : U!Cardinality(Y) = Cardinality(Y)
  BY DEF U!Cardinality, Cardinality
<1>3. CASE Cardinality(X) = 0
  <2>1. X = {}
    <3> HIDE DEF X
    <3> QED BY <1>1, <1>3, FS_EmptySet
  <2> QED BY <2>1 DEF HasRoom
<1>4. CASE Cardinality(X) = 1
  <2>1. \E u : X = {u}
    <3> HIDE DEF X
    <3> QED BY <1>1, <1>4, FS_Singleton
  <2>2. PICK u : X = {u}
    BY <2>1
  <2>3. u \in UsageIds /\ usage[u] # U!NoUsage
    BY <2>2 DEF U!Recorded
  <2>4. usage[u].quantity \in Nat
    BY <2>3, UsageAssumption DEF UsageTables, UsageRow
  <2>5. SumsUp(X, u, u, U!Total(period))
    BY <2>2, <2>4, TotalOfFew
  <2>6. U!Total(period) = usage[u].quantity
    BY <2>2, <2>5 DEF SumsUp
  <2>7. U!Total(period) < UsageLimit
    <3> DEFINE c == Cardinality(X)
               t == U!Total(period)
    <3>1. (CASE c = 0 -> q <= UsageLimit [] c = 1 -> t < UsageLimit [] OTHER -> FALSE)
      BY <1>2 DEF U!WithinLimit
    <3>2. c = 1
      BY <1>4
    <3> HIDE DEF c, t
    <3>3. t < UsageLimit
      BY <3>1, <3>2
    <3> QED BY <3>3 DEF t
  <2> QED BY <2>2, <2>3, <2>6, <2>7 DEF HasRoom
<1>5. CASE Cardinality(X) # 0 /\ Cardinality(X) # 1
  BY <1>2, <1>5 DEF U!WithinLimit
<1> QED BY <1>3, <1>4, <1>5

(* Asking: who is told yes while nobody else was is alone, with room. *)
LEMMA CheckUsageInv ==
  ASSUME UsageInv, NEW m \in Meters, NEW q \in Quantities, U!CheckUsageLimits(m, q)
  PROVE  UsageInv'
<1>1. /\ HasRoom(period) /\ UNCHANGED <<usage, period>>
      /\ meters' = [meters EXCEPT ![m] = [pc |-> "allowed", quantity |-> q, period |-> period]]
  BY WithinHasRoom DEF UsageInv, U!CheckUsageLimits
<1>2. UsageTables'
  <2>1. period \in 1..period
    BY DEF UsageInv, UsageTables
  <2> QED BY <1>1, <2>1 DEF UsageInv, UsageTables, UsageRow
<1>3. (checksMet' = TRUE \/ checksMet' = FALSE)
      /\ (checksMet' = FALSE => checksMet = FALSE /\ \A n \in Meters : meters[n].pc # "allowed")
  BY Zenon DEF U!CheckUsageLimits, UsageInv
<1>4. \A p : Few(p)' = Few(p) /\ HasRoom(p)' = HasRoom(p)
  BY <1>1 DEF Few, HasRoom, U!Recorded
<1>5. \A n \in Meters : meters'[n] = IF n = m THEN [pc |-> "allowed", quantity |-> q, period |-> period]
                                     ELSE meters[n]
  BY <1>1 DEF UsageInv, UsageTables
<1>6. OneAtATime'
  <2> SUFFICES ASSUME checksMet' = FALSE
               PROVE  /\ \A n \in Meters : \A o \in Meters :
                           meters'[n].pc = "allowed" /\ meters'[o].pc = "allowed" => n = o
                      /\ \A p \in 1..period' : Few(p)'
                      /\ \A n \in Meters : meters'[n].pc = "allowed" =>
                           \A p : meters'[n].period = p => HasRoom(p)'
    BY DEF OneAtATime
  <2>1. \A n \in Meters : meters'[n].pc = "allowed" => n = m
    BY <1>3, <1>5
  <2>2. \A p \in 1..period' : Few(p)'
    BY <1>1, <1>3, <1>4 DEF UsageInv, OneAtATime
  <2>3. meters'[m].period = period
    BY <1>5
  <2>4. \A p : meters'[m].period = p => HasRoom(p)'
    BY <1>1, <1>4, <2>3
  <2> QED BY <2>1, <2>2, <2>4
<1> QED BY <1>2, <1>3, <1>6 DEF UsageInv

(* Recording: the record is the second of its period at most, and where it *)
(* is, the first is below the limit.                                       *)
LEMMA RecordUsageInv ==
  ASSUME UsageInv, NEW m \in Meters, NEW u \in UsageIds, U!RecordUsage(m, u)
  PROVE  UsageInv'
<1> DEFINE q == meters[m].quantity
           o == meters[m].period
<1>1. /\ meters[m].pc = "allowed" /\ usage[u] = U!NoUsage
      /\ usage' = [usage EXCEPT ![u] = [quantity |-> q, period |-> o]]
      /\ meters' = [meters EXCEPT ![m] = [pc |-> "idle"]]
      /\ period' = period
  BY DEF U!RecordUsage
<1>2. (checksMet' = TRUE \/ checksMet' = FALSE) /\ (checksMet' = FALSE => checksMet = FALSE)
  BY Zenon DEF U!RecordUsage, UsageInv
<1>3. q \in Quantities /\ o \in 1..period /\ period \in Nat
  BY <1>1 DEF UsageInv, UsageTables
<1>4. UsageTables'
  BY <1>1, <1>3 DEF UsageInv, UsageTables, UsageRow
<1>5. /\ usage'[u].period = o /\ usage'[u] # U!NoUsage
      /\ \A w \in UsageIds : w # u => usage'[w] = usage[w]
  <2>1. usage'[u] = [quantity |-> q, period |-> o]
    BY <1>1 DEF UsageInv, UsageTables
  <2>2. o # 0
    BY <1>3
  <2>3. usage'[u].period # U!NoUsage.period
    BY <2>1, <2>2 DEF U!NoUsage
  <2>4. \A w \in UsageIds : w # u => usage'[w] = usage[w]
    BY <1>1 DEF UsageInv, UsageTables
  <2> QED BY <2>1, <2>3, <2>4
<1>6. \A p : /\ u \notin U!Recorded(p)
             /\ U!Recorded(p)' = IF p = o THEN U!Recorded(p) \cup {u} ELSE U!Recorded(p)
  <2> HIDE DEF o
  <2>1. \A p : u \notin U!Recorded(p)
    BY <1>1 DEF U!Recorded
  <2>2. \A p : U!Recorded(p)' = {w \in UsageIds : usage'[w] # U!NoUsage /\ usage'[w].period = p}
    BY DEF U!Recorded, U!NoUsage
  <2> QED BY <1>5, <2>1, <2>2 DEF U!Recorded
<1>7. \A n \in Meters : meters'[n].pc = "allowed" => n # m /\ meters[n].pc = "allowed"
  BY <1>1 DEF UsageInv, UsageTables
<1>8. OneAtATime'
  <2> SUFFICES ASSUME checksMet' = FALSE
               PROVE  /\ \A n \in Meters : \A k \in Meters :
                           meters'[n].pc = "allowed" /\ meters'[k].pc = "allowed" => n = k
                      /\ \A p \in 1..period' : Few(p)'
                      /\ \A n \in Meters : meters'[n].pc = "allowed" =>
                           \A p : meters'[n].period = p => HasRoom(p)'
    BY DEF OneAtATime
  <2>1. OneAtATime /\ checksMet = FALSE
    BY <1>2 DEF UsageInv
  <2>2. \A n \in Meters : meters'[n].pc # "allowed"
    BY <1>1, <1>7, <2>1 DEF OneAtATime
  <2>3. ASSUME NEW p \in 1..period' PROVE Few(p)'
    <3>1. Few(p)
      BY <1>1, <2>1 DEF OneAtATime
    <3>2. CASE p # o
      <4>1. U!Recorded(p)' = U!Recorded(p)
        BY <1>6, <3>2
      <4>2. \A w \in U!Recorded(p) : w \in UsageIds /\ usage'[w] = usage[w]
        BY <1>5, <1>6 DEF U!Recorded
      <4> QED BY <3>1, <4>1, <4>2 DEF Few
    <3>3. CASE p = o
      <4>1. HasRoom(p)
        BY <1>1, <2>1, <3>3 DEF OneAtATime
      <4>2. U!Recorded(p)' = U!Recorded(p) \cup {u} /\ u \notin U!Recorded(p)
        BY <1>6, <3>3
      <4>3. CASE U!Recorded(p) = {}
        BY <4>2, <4>3 DEF Few
      <4>4. CASE U!Recorded(p) # {}
        <5>1. PICK w \in UsageIds : U!Recorded(p) = {w} /\ usage[w].quantity < UsageLimit
          BY <4>1, <4>4 DEF HasRoom
        <5>2. w # u /\ usage'[w] = usage[w]
          BY <1>5, <4>2, <5>1
        <5>3. U!Recorded(p)' = {w, u} /\ u \in UsageIds \ {w}
          BY <4>2, <5>1, <5>2
        <5> QED BY <5>1, <5>2, <5>3 DEF Few
      <4> QED BY <4>3, <4>4
    <3> QED BY <3>2, <3>3
  <2> QED BY <2>2, <2>3
<1> QED BY <1>2, <1>4, <1>8 DEF UsageInv

(* Deleting: what is left had room, or was one of few. *)
LEMMA DeleteUsageInv ==
  ASSUME UsageInv, NEW u \in UsageIds, U!DeleteUsageRecord(u)
  PROVE  UsageInv'
<1>1. usage' = [usage EXCEPT ![u] = U!NoUsage] /\ UNCHANGED <<meters, period>>
  BY DEF U!DeleteUsageRecord
<1>2. checksMet' = checksMet
  BY DEF U!DeleteUsageRecord
<1>3. UsageTables'
  BY <1>1 DEF UsageInv, UsageTables, UsageRow
<1>4. /\ usage'[u] = U!NoUsage
      /\ \A w \in UsageIds : w # u => usage'[w] = usage[w]
  BY <1>1 DEF UsageInv, UsageTables
<1>5. \A p : /\ U!Recorded(p)' = U!Recorded(p) \ {u}
             /\ \A w \in U!Recorded(p)' : w \in UsageIds /\ usage'[w] = usage[w]
  <2>1. \A p : U!Recorded(p)' = {w \in UsageIds : usage'[w] # U!NoUsage /\ usage'[w].period = p}
    BY DEF U!Recorded, U!NoUsage
  <2> QED BY <1>4, <2>1 DEF U!Recorded
<1>6. ASSUME NEW p, HasRoom(p) PROVE HasRoom(p)'
  <2>1. CASE U!Recorded(p)' = {}
    BY <2>1 DEF HasRoom
  <2>2. CASE U!Recorded(p)' # {}
    <3>1. PICK w \in UsageIds : U!Recorded(p) = {w} /\ usage[w].quantity < UsageLimit
      BY <1>5, <1>6, <2>2 DEF HasRoom
    <3>2. U!Recorded(p)' = {w} /\ usage'[w] = usage[w]
      BY <1>5, <2>2, <3>1
    <3> QED BY <3>1, <3>2 DEF HasRoom
  <2> QED BY <2>1, <2>2
<1>7. ASSUME NEW p, Few(p) PROVE Few(p)'
  <2>1. CASE U!Recorded(p) = {}
    BY <1>5, <2>1 DEF Few
  <2>2. CASE \E v \in UsageIds : U!Recorded(p) = {v}
    <3>1. U!Recorded(p)' = {} \/ \E v \in UsageIds : U!Recorded(p)' = {v}
      BY <1>5, <2>2
    <3> QED BY <3>1 DEF Few
  <2>3. ASSUME NEW v \in UsageIds, NEW w \in UsageIds \ {v},
               U!Recorded(p) = {v, w}, usage[v].quantity < UsageLimit
        PROVE  Few(p)'
    <3>1. CASE u = v
      <4>1. U!Recorded(p)' = {w}
        BY <1>5, <2>3, <3>1
      <4> QED BY <4>1 DEF Few
    <3>2. CASE u = w
      <4>1. U!Recorded(p)' = {v}
        BY <1>5, <2>3, <3>2
      <4> QED BY <4>1 DEF Few
    <3>3. CASE u # v /\ u # w
      <4>1. U!Recorded(p)' = {v, w} /\ usage'[v] = usage[v]
        BY <1>4, <1>5, <2>3, <3>3
      <4> QED BY <2>3, <4>1 DEF Few
    <3> QED BY <3>1, <3>2, <3>3
  <2> QED BY <1>7, <2>1, <2>2, <2>3 DEF Few
<1>8. OneAtATime'
  <2>1. OneAtATime' <=>
          (checksMet = FALSE =>
             /\ \A m \in Meters : \A n \in Meters :
                  meters[m].pc = "allowed" /\ meters[n].pc = "allowed" => m = n
             /\ \A p \in 1..period : Few(p)'
             /\ \A m \in Meters : meters[m].pc = "allowed" =>
                  \A p : meters[m].period = p => HasRoom(p)')
    BY <1>1, <1>2 DEF OneAtATime
  <2> QED BY <1>6, <1>7, <2>1 DEF UsageInv, OneAtATime
<1> QED BY <1>2, <1>3, <1>8 DEF UsageInv

(* The next period has no record yet. *)
LEMMA NextPeriodInv ==
  ASSUME UsageInv, U!NextPeriod
  PROVE  UsageInv'
<1>1. period' = period + 1 /\ UNCHANGED <<usage, meters>>
  BY DEF U!NextPeriod
<1>2. checksMet' = checksMet
  BY DEF U!NextPeriod
<1>3. period \in Nat \ {0}
  BY DEF UsageInv, UsageTables
<1>4. 1..period \subseteq 1..period' /\ period' \in Nat \ {0}
      /\ \A p \in 1..period' : p \in 1..period \/ p = period'
  BY <1>1, <1>3
<1>5. UsageTables'
  BY <1>1, <1>4 DEF UsageInv, UsageTables, UsageRow
<1>6. \A p : Few(p)' = Few(p) /\ HasRoom(p)' = HasRoom(p) /\ U!Recorded(p)' = U!Recorded(p)
  BY <1>1 DEF Few, HasRoom, U!Recorded
<1>7. U!Recorded(period') = {}
  <2>1. \A u \in UsageIds : usage[u] # U!NoUsage => usage[u].period \in 1..period
    BY DEF UsageInv, UsageTables, UsageRow
  <2>2. period' \notin 1..period
    BY <1>1, <1>3
  <2> QED BY <2>1, <2>2 DEF U!Recorded
<1>8. Few(period')
  BY <1>7 DEF Few
<1>9. OneAtATime'
  BY <1>1, <1>2, <1>4, <1>6, <1>8 DEF UsageInv, OneAtATime
<1> QED BY <1>2, <1>5, <1>9 DEF UsageInv

(* Every call keeps UsageInv, and the other parts leave the usage alone. *)
LEMMA NextUsageInv == UsageInv /\ U!Next => UsageInv'
BY CheckUsageInv, RecordUsageInv, DeleteUsageInv, NextPeriodInv DEF U!Next

LEMMA RestingUsage == UsageInv /\ UNCHANGED ofUsage => UsageInv'
BY DEF ofUsage, UsageInv, UsageTables, OneAtATime, UsageRow, HasRoom, Few, U!Recorded

(* With two records at most, a period's total is within one quantity of the limit. *)
LEMMA UsageImplies == UsageInv => U!OvershootsByOneRecord
<1> SUFFICES ASSUME UsageInv, checksMet = FALSE, NEW p \in 1..period
             PROVE  \E q \in Quantities : U!Total(p) < UsageLimit + q
  BY DEF U!OvershootsByOneRecord, UsageInv
<1>1. UsageLimit \in Nat \ {0} /\ Quantities \subseteq Nat /\ Quantities # {}
  BY UsageAssumption
<1>2. Few(p)
  BY DEF UsageInv, OneAtATime
<1>3. \A u \in U!Recorded(p) : usage[u].quantity \in Quantities
  BY DEF UsageInv, UsageTables, UsageRow, U!Recorded
<1>4. CASE \E u \in UsageIds : U!Recorded(p) = {u}
  <2>1. PICK u \in UsageIds : U!Recorded(p) = {u}
    BY <1>4
  <2> DEFINE a == usage[u].quantity
  <2>2. a \in Quantities /\ a \in Nat
    BY <1>1, <1>3, <2>1
  <2>3. SumsUp(U!Recorded(p), u, u, U!Total(p))
    BY <2>1, <2>2, TotalOfFew
  <2>4. U!Total(p) = a
    BY <2>1, <2>3 DEF SumsUp
  <2> HIDE DEF a
  <2> QED BY <1>1, <2>2, <2>4
<1>5. CASE U!Recorded(p) = {}
  <2>1. U!Total(p) = 0
    BY <1>5, TotalOfNone
  <2>2. PICK q \in Quantities : q \in Nat
    BY <1>1
  <2> QED BY <1>1, <2>1, <2>2
<1>6. ASSUME NEW u \in UsageIds, NEW v \in UsageIds \ {u},
             U!Recorded(p) = {u, v}, usage[u].quantity < UsageLimit
      PROVE  \E q \in Quantities : U!Total(p) < UsageLimit + q
  <2> DEFINE a == usage[u].quantity
             b == usage[v].quantity
  <2>1. a \in Nat /\ b \in Quantities /\ b \in Nat
    BY <1>1, <1>3, <1>6
  <2>2. SumsUp(U!Recorded(p), u, v, U!Total(p))
    BY <1>6, <2>1, TotalOfFew
  <2>3. U!Total(p) = a + b /\ a < UsageLimit
    BY <1>6, <2>2 DEF SumsUp
  <2> HIDE DEF a, b
  <2> QED BY <1>1, <2>1, <2>3
<1> QED BY <1>2, <1>4, <1>5, <1>6 DEF Few

(* A bill is of an amount its plan had, a change of plan is billed once and a
   voided invoice stays void where no calls overlapped, and clients that ask one
   after another exceed a usage limit by less than one quantity
   (plan-management.service.ts, usage-metering.service.ts). *)
THEOREM BillsHold == SumSpec => BillsFollowPlans
<1>1. SumInit => PlanInv /\ UsageInv
  BY InitPlans, InitUsage DEF SumInit
<1>2. PlanInv /\ [SumNext]_sumVars => PlanInv'
  BY NextPlanInv, RestingPlans DEF SumNext, sumVars
<1>3. UsageInv /\ [SumNext]_sumVars => UsageInv'
  BY NextUsageInv, RestingUsage DEF SumNext, sumVars
<1>4. PlanInv => P!AmountIsOfPlan /\ P!ChangesAreBilledOnce
  BY PlanImplies
<1>5. UsageInv => U!OvershootsByOneRecord
  BY UsageImplies
<1>6. PlanInv /\ [SumNext]_sumVars =>
        [\A i \in InvoiceIds :
           invoices[i].status = "VOID" /\ invoices'[i].status # "VOID" =>
             "overlap" \in planNotes.crossed]_(P!plansVars)
  <2> SUFFICES ASSUME PlanInv, [SumNext]_sumVars, NEW i \in InvoiceIds,
                      invoices[i].status = "VOID", invoices'[i].status # "VOID"
               PROVE  "overlap" \in planNotes.crossed
    OBVIOUS
  <2>1. P!Next \/ UNCHANGED ofPlans
    BY DEF SumNext, sumVars
  <2>2. CASE UNCHANGED ofPlans
    BY <2>2 DEF ofPlans
  <2> QED BY <2>1, <2>2, VoidIsKept
<1>7. SumSpec => P!VoidIsFinalAlone
  BY <1>1, <1>2, <1>6, PTL DEF SumSpec, P!VoidIsFinalAlone
<1> QED BY <1>1, <1>2, <1>3, <1>4, <1>5, <1>7, PTL DEF SumSpec, BillsFollowPlans

-----------------------------------------------------------------------------

(***************************************************************************)
(* Types.  Most of them are parts of the invariants above; what is added   *)
(* is that a confirmed distribution stays stored, that a batch is made of  *)
(* swaps and approved by approvers, and that known sources are asked.      *)
(***************************************************************************)
ConfirmedStored == \A d \in confirmed : d \in Distributions /\ distribution[d] # S!NotStored
KnownSources == enabledSources \subseteq O!OracleSources

(* Nothing is confirmed, batched or disabled at first. *)
LEMMA InitTypes == S!Init /\ T!Init /\ O!Init => ConfirmedStored /\ T!TypeOK /\ KnownSources
<1>1. S!Init => ConfirmedStored
  BY DEF S!Init, ConfirmedStored
<1>2. ASSUME T!Init PROVE T!TypeOK
  <2>1. T!Cardinality(Swaps) \in Nat
    BY SwapsAssumption, FS_CardinalityType, SameCardinality
  <2>2. \A b \in BatchIds : ~T!Held(b) /\ approvals[b] = T!NotSubmitted
    BY <1>2 DEF T!Init, T!Held
  <2>3. completedSwaps = 0
    BY <1>2 DEF T!Init
  <2> QED BY <2>1, <2>2, <2>3 DEF T!TypeOK
<1>3. O!Init => KnownSources
  BY DEF O!Init, KnownSources
<1> QED BY <1>1, <1>2, <1>3

(* What is confirmed is stored when it is confirmed, and no row goes away. *)
LEMMA NextConfirmed ==
  ASSUME SplitInv, ConfirmedStored, S!Next
  PROVE  ConfirmedStored'
<1>1. ASSUME NEW q \in SplitRequests, S!SaveDistribution(q)
      PROVE  ConfirmedStored'
  <2> DEFINE r == splitRequest[q]
  <2>1. /\ r # S!NoRequest /\ r.pc = "distribution"
        /\ distribution' = [distribution EXCEPT ![r.d] = r.row]
        /\ confirmed' \subseteq confirmed \cup {r.d}
    BY <1>1 DEF S!SaveDistribution
  <2>2. r \in Distributing \/ r \in ChangingRow
    BY <2>1, SplitRequestAt
  <2>3. r.d \in Distributions /\ r.row.status \in {"EXECUTING", "COMPLETED", "FAILED"}
    BY <2>2 DEF Distributing, ChangingRow
  <2>4. r.row # S!NotStored
    BY <2>3 DEF S!NotStored
  <2>5. DOMAIN distribution = Distributions
    BY DEF SplitInv, SplitTables
  <2> HIDE DEF r
  <2> QED BY <2>1, <2>3, <2>4, <2>5 DEF ConfirmedStored
<1>2. ASSUME NEW q \in SplitRequests, ~S!SaveDistribution(q)
      PROVE  LET rest == UNCHANGED <<distribution, confirmed>> IN
             /\ S!ExecuteSplit(q) \/ S!CancelSplit(q) \/ S!RetryFailedDistributions(q) => rest
             /\ S!RefundSplit(q) \/ S!HandlePartialPayment(q) => rest
             /\ \A d, r : S!DistributeToRecipient(q, d, r) => rest
             /\ \A d : S!ConfirmDistribution(q, d) \/ S!FailDistribution(q, d) => rest
             /\ \A d : S!RefundSpecificDistribution(q, d) => rest
             /\ \A m : S!TriggerMilestone(q, m) \/ S!CompleteMilestone(q, m) => rest
             /\ S!ReadSplit(q) \/ S!SaveSplit(q) \/ S!SaveMilestone(q) => rest
             /\ S!ReadMilestones(q) \/ S!Throw(q) => rest
  <2>1. \A request : S!Begin(q, request) => UNCHANGED <<distribution, confirmed>>
    BY DEF S!Begin
  <2>2. \A d, r : S!DistributeToRecipient(q, d, r) => UNCHANGED <<distribution, confirmed>>
    BY <2>1, Zenon DEF S!DistributeToRecipient
  <2>3. \A d, does, status : S!ChangeDistribution(q, d, does, status) => UNCHANGED <<distribution, confirmed>>
    BY <2>1, Zenon DEF S!ChangeDistribution
  <2>4. \A row : S!SaveLater(q, row) => UNCHANGED <<distribution, confirmed>>
    BY <2>1 DEF S!SaveLater
  <2>5. \A m : S!TriggerMilestone(q, m) \/ S!CompleteMilestone(q, m) => UNCHANGED <<distribution, confirmed>>
    BY <2>1 DEF S!TriggerMilestone, S!CompleteMilestone
  <2>6. S!ReadSplit(q) \/ S!SaveSplit(q) \/ S!Throw(q) => UNCHANGED <<distribution, confirmed>>
    BY DEF S!ReadSplit, S!SaveSplit, S!Throw
  <2>7. S!SaveMilestone(q) \/ S!ReadMilestones(q) => UNCHANGED <<distribution, confirmed>>
    BY DEF S!SaveMilestone, S!ReadMilestones
  <2> QED BY <2>2, <2>3, <2>4, <2>5, <2>6, <2>7, Zenon
          DEF S!ExecuteSplit, S!CancelSplit, S!RetryFailedDistributions, S!RefundSplit,
              S!HandlePartialPayment, S!ConfirmDistribution, S!FailDistribution,
              S!RefundSpecificDistribution
<1>3. UNCHANGED <<distribution, confirmed>> => ConfirmedStored'
  BY DEF ConfirmedStored
<1> QED BY <1>1, <1>2, <1>3, Zenon DEF S!Next

(* A batch is made of swaps that have completed and approved by approvers. *)
LEMMA NextBatchTypes ==
  ASSUME SettlementInv, T!TypeOK, T!Next
  PROVE  T!TypeOK'
<1> DEFINE OK(row, approvers) ==
             /\ row # T!NoBatch => row.status \in T!BatchStatus /\ row.swaps \subseteq Swaps
             /\ approvers = T!NotSubmitted \/ approvers \subseteq Approvers
           n == T!Cardinality(Swaps)
<1>1. n \in Nat /\ Swaps = 1..n
  BY SwapsAssumption, FS_CardinalityType, SameCardinality
<1>2. completedSwaps \in 0..n /\ \A b \in BatchIds : OK(batch[b], approvals[b])
  BY DEF T!TypeOK, T!Held
<1>3. ASSUME completedSwaps' \in 0..n, \A b \in BatchIds : OK(batch'[b], approvals'[b])
      PROVE  T!TypeOK'
  BY <1>3 DEF T!TypeOK, T!Held
<1>4. ASSUME NEW b \in BatchIds, NEW row, NEW approvers, OK(row, approvers),
             batch' = [batch EXCEPT ![b] = row] \/ (batch' = batch /\ row = batch[b]),
             approvals' = [approvals EXCEPT ![b] = approvers]
               \/ (approvals' = approvals /\ approvers = approvals[b]),
             completedSwaps' = completedSwaps
      PROVE  T!TypeOK'
  <2>1. DOMAIN batch = BatchIds /\ DOMAIN approvals = BatchIds
    BY DEF SettlementInv
  <2>2. \A c \in BatchIds : /\ batch'[c] = (IF c = b THEN row ELSE batch[c])
                            /\ approvals'[c] = (IF c = b THEN approvers ELSE approvals[c])
    BY <1>4, <2>1
  <2>3. \A c \in BatchIds : OK(batch'[c], approvals'[c])
    BY <1>2, <1>4, <2>2
  <2> QED BY <1>2, <1>3, <1>4, <2>3
<1>5. \A b \in BatchIds : IsBatch(batch[b]) \/ batch[b] = T!NoBatch
  BY DEF SettlementInv, BatchOK
<1>6. T!NoBatch.status = "none"
  BY DEF T!NoBatch
<1> HIDE DEF n
<1>7. CASE T!CompleteSwap
  <2>1. /\ completedSwaps < n /\ completedSwaps' = completedSwaps + 1
        /\ batch' = batch /\ approvals' = approvals
    BY <1>7 DEF T!CompleteSwap, n
  <2> QED BY <1>1, <1>2, <1>3, <2>1
<1>8. CASE T!Restart
  <2>1. /\ \A b \in BatchIds : batch'[b] = T!NoBatch /\ approvals'[b] = T!NotSubmitted
        /\ completedSwaps' = completedSwaps
    BY <1>8 DEF T!Restart
  <2> QED BY <1>2, <1>3, <2>1
<1>9. ASSUME NEW b \in BatchIds, NEW first \in Swaps, NEW last \in Swaps,
             T!AggregatePayments(b, first, last)
      PROVE  T!TypeOK'
  <2> DEFINE row == [status |-> "pending", swaps |-> first..last, total |-> T!Strung(first..last)]
  <2>1. first..last \subseteq Swaps
    BY <1>1
  <2>2. OK(row, T!NotSubmitted)
    BY <2>1 DEF T!BatchStatus
  <2> QED BY <1>4, <1>9, <2>2 DEF T!AggregatePayments
<1>10. ASSUME NEW b \in BatchIds, T!ApplyNetting(b) PROVE T!TypeOK'
  <2> DEFINE row == [batch[b] EXCEPT !.status = "processing"]
  <2>1. IsBatch(batch[b]) /\ batch[b] # T!NoBatch
    BY <1>5, <1>6, <1>10 DEF T!ApplyNetting
  <2>2. row.status = "processing" /\ row.swaps = batch[b].swaps
    BY <2>1, BatchMoves DEF T!BatchStatus
  <2>3. OK(row, approvals[b])
    BY <1>2, <2>1, <2>2 DEF T!BatchStatus
  <2> QED BY <1>4, <1>10, <2>3 DEF T!ApplyNetting
<1>11. ASSUME NEW b \in BatchIds, T!SubmitSettlementForApproval(b) PROVE T!TypeOK'
  <2>1. OK(batch[b], {})
    BY <1>2
  <2> QED BY <1>4, <1>11, <2>1 DEF T!SubmitSettlementForApproval
<1>12. ASSUME NEW b \in BatchIds, NEW a \in Approvers, T!ApproveSettlement(b, a) PROVE T!TypeOK'
  <2> DEFINE approvers == approvals[b] \cup {a}
             row == [batch[b] EXCEPT !.status = "completed"]
  <2>1. approvers \subseteq Approvers
    BY <1>2, <1>12 DEF T!ApproveSettlement
  <2>2. CASE T!Enough(approvers)
    <3>1. IsBatch(batch[b]) /\ batch[b] # T!NoBatch
      BY <1>5, <1>12, <2>2 DEF T!ApproveSettlement, T!Held
    <3>2. row.status = "completed" /\ row.swaps = batch[b].swaps
      BY <3>1, BatchMoves DEF T!BatchStatus
    <3>3. OK(row, T!NotSubmitted)
      BY <1>2, <3>1, <3>2 DEF T!BatchStatus
    <3> QED BY <1>4, <1>12, <2>2, <3>3 DEF T!ApproveSettlement
  <2>3. CASE ~T!Enough(approvers)
    <3>1. OK(batch[b], approvers)
      BY <1>2, <2>1
    <3> QED BY <1>4, <1>12, <2>3, <3>1 DEF T!ApproveSettlement
  <2> QED BY <2>2, <2>3
<1> QED BY <1>7, <1>8, <1>9, <1>10, <1>11, <1>12 DEF T!Next

(* Sources are enabled and disabled, and none is added. *)
LEMMA NextSources == KnownSources /\ O!Next => KnownSources'
BY DEF KnownSources, O!Next, O!Request, O!StartUpdate, O!UpdatePair, O!Tick, O!SetOracleSourceEnabled

(* Other parts leave them alone. *)
LEMMA RestingTypes ==
  /\ ConfirmedStored /\ UNCHANGED ofPaymentSplit => ConfirmedStored'
  /\ T!TypeOK /\ UNCHANGED ofSettlement => T!TypeOK'
  /\ KnownSources /\ UNCHANGED ofOracle => KnownSources'
BY DEF ConfirmedStored, T!TypeOK, T!Held, KnownSources, ofPaymentSplit, ofSettlement, ofOracle

(* The invariants of the parts give their types. *)
LEMMA TypesFollow ==
  ASSUME SplitInv, ConfirmedStored, RefundBooksInv, ConversionInv, VolumeInv, QuoteInv, RouteInv,
         T!TypeOK, OracleInv, KnownSources, PlanInv, UsageInv
  PROVE  TypesOK
<1>1. S!TypeOK
  <2>1. split \in S!Split
    BY DEF SplitInv, SplitRowOK, SplitRowSound
  <2>2. ASSUME NEW q \in SplitRequests, splitRequest[q] # S!NoRequest
        PROVE  splitRequest[q].copy \in S!Split
    <3>1. SplitRequestOK(splitRequest[q], distribution, confirmed, completed)
      BY DEF SplitInv, SplitRequestsOK
    <3> QED BY <2>2, <3>1 DEF SplitRequestOK, SavingSplit, Distributing, ChangingRow, OnMilestone
  <2> QED BY <2>1, <2>2 DEF S!TypeOK, SplitInv, SplitTables, ConfirmedStored
<1>2. R!TypeOK
  BY DEF R!TypeOK, RefundBooksInv, RefundInv, RefundRows, RefundRow, R!Refund, TrailOK, EvidenceInv,
         DuplicateInv
<1>3. C!TypeOK
  BY ConversionImplies
<1>4. Q!TypeOK
  <2>1. Q!Range(answer.quotes) \subseteq Prices
    BY DEF QuoteInv, AreQuotes, Q!Range
  <2> QED BY <2>1 DEF Q!TypeOK, QuoteInv, QuoteTimes, Q!NoRequest
<1>5. B!TypeOK
  BY DEF B!TypeOK, RouteInv
<1>6. O!TypeOK
  <2>1. starved \in BOOLEAN /\ updating \in BOOLEAN
    BY Zenon DEF OracleInv, OracleFlags
  <2> QED BY <2>1 DEF O!TypeOK, OracleInv, OracleTimes, KnownSources
<1>7. P!TypeOK
  <2>1. ASSUME NEW i \in P!Prorations
        PROVE  invoices[i].status \in {"PENDING", "PROCESSING", "VOID"}
    BY <2>1 DEF P!Prorations, PlanInv, PlanTables, Invoice
  <2> QED BY <2>1 DEF P!TypeOK, PlanInv, PlanTables, PlanRow
<1>8. U!TypeOK
  BY DEF U!TypeOK, UsageInv, UsageTables, UsageRow
<1> QED BY <1>1, <1>2, <1>3, <1>4, <1>5, <1>6, <1>7, <1>8 DEF TypesOK

(* The rows, the requests and the caches of every part stay well formed: a saved
   copy is a row, a confirmed distribution is stored, what is quoted are prices and
   what is in a batch are swaps, whatever requests overlap (the services above). *)
THEOREM RequestTypesHold == SumSpec => []TypesOK
<1> DEFINE IInv == /\ SplitInv /\ ConfirmedStored /\ RefundBooksInv /\ ConversionInv /\ VolumeInv
                   /\ QuoteInv /\ RouteInv /\ SettlementInv /\ T!TypeOK /\ OracleInv
                   /\ KnownSources /\ PlanInv /\ UsageInv
<1>1. SumInit => IInv
  BY InitSplit, InitRefundBooks, InitConversion, InitPrices, InitRoutes, InitSettlement, InitTypes,
     InitPlans, InitUsage
     DEF SumInit
<1>2. SplitInv /\ ConfirmedStored /\ [SumNext]_sumVars => SplitInv' /\ ConfirmedStored'
  BY NextSplitInv, NextConfirmed, RestingSplit, RestingTypes DEF SumNext, sumVars
<1>3. RefundBooksInv /\ [SumNext]_sumVars => RefundBooksInv'
  BY NextRefundBooks, RestingRefunds DEF SumNext, sumVars
<1>4. ConversionInv /\ VolumeInv /\ [SumNext]_sumVars => ConversionInv' /\ VolumeInv'
  BY NextConversionInv, NextVolumeInv, RestingConversion DEF SumNext, sumVars
<1>5. QuoteInv /\ RouteInv /\ OracleInv /\ [SumNext]_sumVars => QuoteInv' /\ RouteInv' /\ OracleInv'
  BY NextQuoteInv, NextOracleInv, NextRouteInv, RestingPrices DEF SumNext, sumVars
<1>6. SettlementInv /\ T!TypeOK /\ [SumNext]_sumVars => SettlementInv' /\ T!TypeOK'
  BY NextSettlementInv, NextBatchTypes, RestingSettlement, RestingTypes DEF SumNext, sumVars
<1>7. KnownSources /\ [SumNext]_sumVars => KnownSources'
  BY NextSources, RestingTypes DEF SumNext, sumVars
<1>8. PlanInv /\ UsageInv /\ [SumNext]_sumVars => PlanInv' /\ UsageInv'
  BY NextPlanInv, RestingPlans, NextUsageInv, RestingUsage DEF SumNext, sumVars
<1>9. IInv /\ [SumNext]_sumVars => IInv'
  BY <1>2, <1>3, <1>4, <1>5, <1>6, <1>7, <1>8
<1>10. IInv => TypesOK
  BY TypesFollow
<1> QED BY <1>1, <1>9, <1>10, PTL DEF SumSpec
=============================================================================
