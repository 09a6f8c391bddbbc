--------------------------- MODULE JobStoreProofs ---------------------------
(***************************************************************************)
(* What the statements of JobStore do to one row and leave of the others,  *)
(* and that a page of the list holds stored rows, for any jobs and paths.  *)
(***************************************************************************)
EXTENDS JobStore, SequenceTheorems, FiniteSetTheorems, TLAPS

-----------------------------------------------------------------------------
(* The statements. *)

\* The rows have numbers of their own, and none is above their count: the next
\* row is the newest.
Ordered(R) ==
    /\ \A j \in Stored(R) : R[j].created <= Cardinality(Stored(R))
    /\ \A j, k \in Stored(R) : R[j].created = R[k].created => j = k

\* CreateJob adds a pending row or changes nothing.
LEMMA CreateJobAdds ==
    ASSUME NEW R \in [Job -> Row \cup {NoRow}], IsFiniteSet(Stored(R)),
           NEW j \in Job, NEW p \in Path
    PROVE  LET new == CreateJob(R, j, p)
           IN  /\ new \in [Job -> Row \cup {NoRow}]
               /\ IsFiniteSet(Stored(new))
               /\ \A k \in Job : R[k] # NoRow \/ k # j => new[k] = R[k]
               /\ R[j] = NoRow => new[j] # NoRow /\ new[j].status = "pending"
               /\ Ordered(R) => Ordered(new)
  <1> DEFINE row == [status |-> "pending", path |-> p,
                     created |-> Cardinality(Stored(R)) + 1,
                     started |-> FALSE, result |-> FALSE, completed |-> FALSE]
  <1>1. CASE R[j] # NoRow
    BY <1>1 DEF CreateJob
  <1>2. CASE R[j] = NoRow
    <2>1. CreateJob(R, j, p) = [R EXCEPT ![j] = row]
      BY <1>2 DEF CreateJob
    <2>2. Cardinality(Stored(R)) \in Nat
      BY FS_CardinalityType
    <2>3. row \in Row
      BY <2>2 DEF Row, Statuses
    <2>4. row # NoRow /\ row.status = "pending"
      BY <2>3, NoRowAssumption
    <2>5. row.created = Cardinality(Stored(R)) + 1
      OBVIOUS
    <2> HIDE DEF row
    <2> DEFINE new == [R EXCEPT ![j] = row]
    <2>6. new[j] = row /\ \A k \in Job : k # j => new[k] = R[k]
      OBVIOUS
    <2>7. Stored(new) = Stored(R) \cup {j} /\ j \notin Stored(R)
      BY <1>2, <2>4 DEF Stored
    <2>8. IsFiniteSet(Stored(new)) /\ Cardinality(Stored(new)) = Cardinality(Stored(R)) + 1
      <3> HIDE DEF new
      <3> QED BY <2>7, FS_AddElement
    <2>9. ASSUME Ordered(R) PROVE Ordered(new)
      <3>1. \A k \in Stored(R) : /\ k \in Job /\ k # j /\ new[k] = R[k]
                                 /\ R[k].created \in Nat /\ R[k].created <= Cardinality(Stored(R))
        BY <1>2, <2>9 DEF Stored, Ordered, Row
      <3>2. new[j].created = Cardinality(Stored(R)) + 1
        BY <2>5, <2>6
      <3> HIDE DEF new
      <3>3. \A k \in Stored(new) : new[k].created <= Cardinality(Stored(new))
        BY <2>2, <2>7, <2>8, <3>1, <3>2
      <3>4. \A k, l \in Stored(new) : new[k].created = new[l].created => k = l
        BY <2>2, <2>7, <2>9, <3>1, <3>2 DEF Ordered
      <3> QED BY <3>3, <3>4 DEF Ordered
    <2> QED BY <1>2, <2>1, <2>3, <2>4, <2>6, <2>8, <2>9
  <1> QED BY <1>1, <1>2

\* UpdateJobStatus gives a row its status and keeps its result.
LEMMA StatusIsSet ==
    ASSUME NEW R \in [Job -> Row \cup {NoRow}], NEW j \in Job, NEW s \in Statuses
    PROVE  LET new == UpdateJobStatus(R, j, s)
           IN  /\ new \in [Job -> Row \cup {NoRow}]
               /\ Stored(new) = Stored(R)
               /\ \A k \in Job : R[k] = NoRow \/ k # j => new[k] = R[k]
               /\ R[j] # NoRow => /\ new[j] # NoRow /\ new[j].status = s
                                  /\ new[j].result = R[j].result
                                  /\ new[j].created = R[j].created
               /\ R[j] # NoRow /\ s \in Terminal => new[j].completed
  <1> DEFINE new == UpdateJobStatus(R, j, s)
             row == [R[j] EXCEPT !.status = s, !.started = @ \/ s = "running",
                                 !.completed = @ \/ s \in Terminal]
  <1>1. CASE R[j] = NoRow
    BY <1>1 DEF UpdateJobStatus
  <1>2. CASE R[j] # NoRow
    <2>1. new = [R EXCEPT ![j] = row]
      BY <1>2 DEF UpdateJobStatus
    <2>2. R[j] \in Row
      BY <1>2
    <2>3. /\ (R[j].started \/ s = "running") \in BOOLEAN
          /\ (R[j].completed \/ s \in Terminal) \in BOOLEAN
      OBVIOUS
    <2>4. /\ row \in Row /\ row.status = s /\ row.result = R[j].result
          /\ row.created = R[j].created
          /\ s \in Terminal => row.completed
      BY <2>2, <2>3 DEF Row
    <2>5. row # NoRow
      BY <2>4, NoRowAssumption
    <2> HIDE DEF row
    <2>6. Stored([R EXCEPT ![j] = row]) = Stored(R)
      BY <1>2, <2>5 DEF Stored
    <2> QED BY <1>2, <2>1, <2>4, <2>5, <2>6
  <1> QED BY <1>1, <1>2

\* UpdateJobResult stores a result and keeps the status.
LEMMA ResultIsSet ==
    ASSUME NEW R \in [Job -> Row \cup {NoRow}], NEW j \in Job
    PROVE  LET new == UpdateJobResult(R, j)
           IN  /\ new \in [Job -> Row \cup {NoRow}]
               /\ Stored(new) = Stored(R)
               /\ \A k \in Job : R[k] = NoRow \/ k # j => new[k] = R[k]
               /\ R[j] # NoRow => /\ new[j] # NoRow /\ new[j].status = R[j].status
                                  /\ new[j].result /\ new[j].created = R[j].created
  <1> DEFINE row == [R[j] EXCEPT !.result = TRUE]
  <1>1. CASE R[j] = NoRow
    BY <1>1 DEF UpdateJobResult
  <1>2. CASE R[j] # NoRow
    <2>1. UpdateJobResult(R, j) = [R EXCEPT ![j] = row]
      BY <1>2 DEF UpdateJobResult
    <2>2. row \in Row /\ row.status = R[j].status /\ row.result /\ row.created = R[j].created
      BY <1>2 DEF Row
    <2>3. row # NoRow
      BY <2>2, NoRowAssumption
    <2> HIDE DEF row
    <2>4. Stored([R EXCEPT ![j] = row]) = Stored(R)
      BY <1>2, <2>3 DEF Stored
    <2> QED BY <1>2, <2>1, <2>2, <2>3, <2>4
  <1> QED BY <1>1, <1>2

\* Updates do not change the order.
LEMMA OrderStays ==
    ASSUME NEW R \in [Job -> Row \cup {NoRow}], Ordered(R), NEW j \in Job,
           NEW new, new = UpdateJobResult(R, j) \/ \E s \in Statuses : new = UpdateJobStatus(R, j, s)
    PROVE  Ordered(new)
  <1>1. /\ Stored(new) = Stored(R)
        /\ \A k \in Job : R[k] = NoRow \/ k # j => new[k] = R[k]
        /\ R[j] # NoRow => new[j].created = R[j].created
    BY StatusIsSet, ResultIsSet
  <1>2. \A k \in Stored(R) : new[k].created = R[k].created
    BY <1>1 DEF Stored
  <1> QED BY <1>1, <1>2 DEF Ordered

-----------------------------------------------------------------------------
(* The list of jobs. *)

\* The places of the selected rows are the numbers from 1 to their count: a
\* row's place counts the rows created after it, so that no two share one.
LEMMA NewestSelected ==
    ASSUME NEW R \in [Job -> Row \cup {NoRow}], IsFiniteSet(Stored(R)), Ordered(R),
           NEW sel \in SUBSET Stored(R)
    PROVE  Newest(R, sel) \in Seq(sel) /\ Len(Newest(R, sel)) = Cardinality(sel)
  <1> DEFINE later(j) == {k \in sel : R[k].created > R[j].created}
             place == [j \in sel |-> Cardinality(later(j))]
             size == Cardinality(sel)
  <1>1. IsFiniteSet(sel) /\ size \in Nat
    BY FS_Subset, FS_CardinalityType
  <1>2. \A j \in sel : R[j].created \in Nat
    BY DEF Stored, Row
  <1>3. \A j, k \in sel : R[j].created = R[k].created => j = k
    BY DEF Ordered
  <1>4. ASSUME NEW j \in sel
        PROVE  IsFiniteSet(later(j)) /\ Cardinality(later(j)) \in 0 .. size - 1
    <2>1. later(j) \subseteq sel /\ j \notin later(j)
      BY <1>2
    <2>2. IsFiniteSet(later(j)) /\ Cardinality(later(j)) \in Nat
      BY <1>1, <2>1, FS_Subset, FS_CardinalityType
    <2>3. Cardinality(later(j)) < size
      <3> HIDE DEF later
      <3>1. later(j) # sel
        BY <2>1
      <3> QED BY <1>1, <2>1, <2>2, <3>1, FS_Subset
    <2> QED BY <1>1, <2>2, <2>3
  <1>5. ASSUME NEW j \in sel, NEW k \in sel, R[j].created < R[k].created
        PROVE  Cardinality(later(k)) < Cardinality(later(j))
    <2>1. later(k) \subseteq later(j)
      BY <1>2, <1>5
    <2>2. k \in later(j) /\ k \notin later(k)
      BY <1>2, <1>5
    <2>3. IsFiniteSet(later(j))
      BY <1>4
    <2> HIDE DEF later
    <2>4. later(k) # later(j)
      BY <2>2
    <2>5. Cardinality(later(j)) \in Nat /\ Cardinality(later(k)) \in Nat
      BY <2>1, <2>3, FS_Subset, FS_CardinalityType
    <2> QED BY <2>1, <2>3, <2>4, <2>5, FS_Subset
  <1>6. place \in Injection(sel, 0 .. size - 1)
    <2>1. place \in [sel -> 0 .. size - 1]
      BY <1>4
    <2>2. ASSUME NEW j \in sel, NEW k \in sel, j # k PROVE place[j] # place[k]
      <3>1. R[j].created < R[k].created \/ R[k].created < R[j].created
        BY <1>2, <1>3, <2>2
      <3>2. place[j] = Cardinality(later(j)) /\ place[k] = Cardinality(later(k))
        OBVIOUS
      <3>3. Cardinality(later(j)) \in Int /\ Cardinality(later(k)) \in Int
        <4> HIDE DEF later, size
        <4>1. size \in Int
          BY <1>1
        <4> QED BY <1>4, <4>1
      <3> HIDE DEF later, place
      <3> QED BY <1>5, <3>1, <3>2, <3>3
    <2> HIDE DEF place
    <2> QED BY <2>1, <2>2 DEF Injection, IsInjective
  <1>7. IsFiniteSet(0 .. size - 1) /\ Cardinality(0 .. size - 1) = size
    BY <1>1, FS_Interval
  <1>8. place \in Surjection(sel, 0 .. size - 1)
    <2> HIDE DEF place
    <2> QED BY <1>6, <1>7, FS_Injection
  <1>9. ASSUME NEW i \in 1 .. size PROVE \E j \in sel : Cardinality(later(j)) = i - 1
    <2>1. i - 1 \in 0 .. size - 1
      BY <1>1
    <2> QED BY <1>8, <2>1 DEF Surjection
  <1>10. Newest(R, sel) \in [1 .. size -> sel]
    <2>1. Newest(R, sel) = [i \in 1 .. size |-> CHOOSE j \in sel : Cardinality(later(j)) = i - 1]
      BY DEF Newest
    <2> HIDE DEF later
    <2> QED BY <1>9, <2>1
  <1> HIDE DEF size
  <1> QED BY <1>1, <1>10, LenProperties DEF size

\* Every entry of a page is the id of a stored row.
LEMMA PageIsStored ==
    ASSUME NEW R \in [Job -> Row \cup {NoRow}], IsFiniteSet(Stored(R)), Ordered(R),
           NEW limit \in Nat, NEW offset \in Nat, NEW status
    PROVE  Range(Page(R, limit, offset, status)) \subseteq Stored(R)
  <1> DEFINE sel == {j \in Stored(R) : status \in {"", R[j].status}}
             newest == Newest(R, sel)
             last == IF offset + limit < Len(newest) THEN offset + limit ELSE Len(newest)
  <1>1. newest \in Seq(sel)
    BY NewestSelected
  <1>2. Page(R, limit, offset, status) = SubSeq(newest, offset + 1, last)
    BY DEF Page
  <1>3. sel \subseteq Stored(R)
    OBVIOUS
  <1> HIDE DEF newest, sel
  <1>4. Len(newest) \in Nat /\ last \in Nat /\ last <= Len(newest)
    BY <1>1, LenProperties
  <1>5. \A i \in offset + 1 .. last : newest[i] \in sel
    <2>1. \A i \in offset + 1 .. last : i \in 1 .. Len(newest)
      BY <1>4
    <2> QED BY <1>1, <2>1, ElementOfSeq
  <1> HIDE DEF last
  <1>6. SubSeq(newest, offset + 1, last) \in Seq(sel)
    BY <1>4, <1>5, SubSeqProperties
  <1> QED BY <1>2, <1>3, <1>6, RangeOfSeq
=============================================================================
