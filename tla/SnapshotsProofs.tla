---------------------------- MODULE SnapshotsProofs ----------------------------
(***************************************************************************)
(* TLAPS proofs about Snapshots and SnapshotUse, for any number of makers  *)
(* and creators at once.                                                   *)
(*                                                                         *)
(* HeadExists needs a stronger fact, Credit: a maker that may still erase  *)
(* has added a snapshot, so the list is at least as long as there are such *)
(* makers.  ListedExist needs that an id which was read is at the front of *)
(* the list until it is erased, by whomever, and never comes back.         *)
(* LatestUsable counts erasures: what a creator was given moves towards    *)
(* the front by one place at each, and is listed until it has passed it.   *)
(***************************************************************************)
EXTENDS SnapshotUse, FiniteSetTheorems, SequenceTheorems, TLAPS

-----------------------------------------------------------------------------
(* The types.                                                              *)

\* The start: the file's snapshots are snapshots.
LEMMA InitSnapshotType == Init => TypeOK
<1> SUFFICES ASSUME Init PROVE TypeOK
  OBVIOUS
<1>1. Stored \in Seq(Snapshot)
  <2>1. Stored \in [1 .. Len(Stored) -> Snapshot] /\ Len(Stored) \in Nat
    BY StoredAssumption, LenProperties DEF Snapshot
  <2> QED BY <2>1
<1>2. <<>> \in Seq(Snapshot) /\ Maker \subseteq Snapshot
  BY EmptySeq DEF Snapshot
<1>3. head \in [Maker -> Snapshot] /\ buf \in [Maker -> Seq(Snapshot)]
  BY <1>2 DEF Init
<1>4. /\ stamp \in [Snapshot -> 0 .. MaxTime] /\ now \in 0 .. MaxTime
      /\ crashes \in 0 .. MaxCrashes
  BY NumberAssumption DEF Init
<1>5. ec2 \in [Snapshot -> {"absent", "exists", "deleted"}]
  BY DEF Init
<1> QED BY <1>1, <1>3, <1>4, <1>5 DEF Init, TypeOK

\* What a stream writes over a file is lines of snapshots.
LEMMA OverwrittenType ==
  ASSUME NEW f \in Seq(Snapshot), NEW b \in Seq(Snapshot)
  PROVE  Overwritten(f, b) \in Seq(Snapshot)
<1>1. Len(b) + 1 \in Int /\ Len(f) \in Int
  BY LenProperties
<1>2. \A i \in Len(b) + 1 .. Len(f) : f[i] \in Snapshot
  BY LenProperties, ElementOfSeq
<1>3. SubSeq(f, Len(b) + 1, Len(f)) \in Seq(Snapshot)
  BY <1>1, <1>2, SubSeqProperties
<1> QED BY <1>3, ConcatProperties DEF Overwritten

\* The steps of a maker.
LEMMA MakeType ==
  ASSUME TypeOK, NEW k \in Maker, Make(k)
  PROVE  TypeOK'
<1> USE DEF TypeOK, Moves
<1>0. <<>> \in Seq(Snapshot) /\ k \in Snapshot
  BY EmptySeq DEF Snapshot
<1>1. CASE TakeTime(k)
  BY <1>0, <1>1 DEF TakeTime
<1>2. CASE CallCreate(k)
  BY <1>0, <1>2 DEF CallCreate
<1>3. CASE PollEnds(k)
  BY <1>3 DEF PollEnds
<1>4. CASE PushBack(k)
  BY <1>0, <1>4, AppendProperties DEF PushBack
<1>5. CASE CheckSize(k)
  BY <1>5 DEF CheckSize
<1>6. CASE ReadHead(k)
  BY <1>6, HeadTailProperties DEF ReadHead
<1>7. CASE EraseHead(k)
  BY <1>7, HeadTailProperties DEF EraseHead
<1>8. CASE DeleteHead(k)
  BY <1>8 DEF DeleteHead, Deletes
<1>9. CASE OpenFile(k)
  BY <1>0, <1>9 DEF OpenFile
<1>10. CASE CopyLines(k)
  BY <1>10 DEF CopyLines
<1>11. CASE CloseFile(k)
  BY <1>0, <1>11, OverwrittenType DEF CloseFile
<1>12. CASE ClearFlag(k)
  BY <1>12 DEF ClearFlag
<1> QED BY <1>1, <1>2, <1>3, <1>4, <1>5, <1>6, <1>7, <1>8, <1>9, <1>10, <1>11, <1>12 DEF Make

\* TypeOK is inductive.
LEMMA NextSnapshotType == TypeOK /\ [Next]_vars => TypeOK'
<1> SUFFICES ASSUME TypeOK, [Next]_vars PROVE TypeOK'
  OBVIOUS
<1>1. CASE Load
  <2>1. CASE Len(file) > MaxNumber
    <3>1. file # <<>>
      BY <2>1, EmptySeq, NumberAssumption
    <3> QED BY <1>1, <2>1, <3>1, HeadTailProperties DEF TypeOK, Load, Deletes
  <2>2. CASE ~(Len(file) > MaxNumber)
    BY <1>1, <2>2 DEF TypeOK, Load
  <2> QED BY <2>1, <2>2
<1>2. CASE Crash
  <2>1. <<>> \in Seq(Snapshot)
    BY EmptySeq
  <2>2. pc' \in [Maker -> {"off", "done"}]
    BY <1>2 DEF Crash
  <2>3. crashes' \in 0 .. MaxCrashes
    BY <1>2, NumberAssumption DEF TypeOK, Crash
  <2> QED BY <1>2, <2>1, <2>2, <2>3 DEF TypeOK, Crash
<1>3. CASE Tick
  BY <1>3, NumberAssumption DEF TypeOK, Tick
<1>4. ASSUME NEW k \in Maker, StartMaker(k)
      PROVE  TypeOK'
  BY <1>4 DEF TypeOK, StartMaker, Moves
<1>5. ASSUME NEW k \in Maker, Make(k)
      PROVE  TypeOK'
  BY <1>5, MakeType
<1>6. CASE UNCHANGED vars
  BY <1>6 DEF TypeOK, vars
<1> QED BY <1>1, <1>2, <1>3, <1>4, <1>5, <1>6 DEF Next

\* Every reachable state has the right types.
THEOREM SnapshotsTyped == Spec => []TypeOK
BY InitSnapshotType, NextSnapshotType, PTL DEF Spec

-----------------------------------------------------------------------------
(* HeadExists.                                                             *)

Credit == Cardinality(Trimming) <= Len(m_snapshots)

\* While the daemon is down no maker is under way.
DownInv == ~up => \A k \in Maker : pc[k] \in {"off", "done"}

\* The makers that may still erase are finitely many.
LEMMA TrimmingFinite ==
  /\ IsFiniteSet(Trimming) /\ Cardinality(Trimming) \in Nat
  /\ IsFiniteSet(Trimming') /\ Cardinality(Trimming') \in Nat
BY MakerAssumption, FS_Subset, FS_CardinalityType DEF Trimming

\* Steps that change neither the list nor who may still erase.
LEMMA IdleCredit ==
  ASSUME Trimming' = Trimming, m_snapshots' = m_snapshots, Credit
  PROVE  Credit'
BY DEF Credit

\* A maker that adds its snapshot is one more that may erase.
LEMMA PushCredit ==
  ASSUME TypeOK, Credit, NEW k \in Maker, PushBack(k)
  PROVE  Credit'
<1>1. Trimming' = Trimming \cup {k} /\ k \notin Trimming
  BY DEF TypeOK, Trimming, PushBack, Moves
<1>2. Cardinality(Trimming') = Cardinality(Trimming) + 1
  BY <1>1, TrimmingFinite, FS_AddElement
<1>3. Len(m_snapshots') = Len(m_snapshots) + 1 /\ Len(m_snapshots) \in Nat
  BY AppendProperties, LenProperties DEF TypeOK, PushBack, Snapshot
<1> QED BY <1>2, <1>3, TrimmingFinite DEF Credit

\* A maker that finds the list short enough is one less.
LEMMA CheckCredit ==
  ASSUME TypeOK, Credit, NEW k \in Maker, CheckSize(k)
  PROVE  Credit'
<1>1. Trimming' \subseteq Trimming
  BY DEF TypeOK, Trimming, CheckSize, Moves
<1>2. Cardinality(Trimming') <= Cardinality(Trimming)
  BY <1>1, TrimmingFinite, FS_Subset
<1>3. m_snapshots' = m_snapshots /\ Len(m_snapshots) \in Nat
  BY LenProperties DEF TypeOK, CheckSize
<1> QED BY <1>2, <1>3, TrimmingFinite DEF Credit

\* A maker that erases is one less, and so is the list.
LEMMA EraseCredit ==
  ASSUME TypeOK, Credit, NEW k \in Maker, EraseHead(k)
  PROVE  Credit'
<1>1. Trimming' = Trimming \ {k} /\ k \in Trimming
  BY DEF TypeOK, Trimming, EraseHead, Moves
<1>2. Cardinality(Trimming') = Cardinality(Trimming) - 1
  BY <1>1, TrimmingFinite, FS_RemoveElement
<1>3. Len(m_snapshots') = Len(m_snapshots) - 1 /\ Len(m_snapshots) \in Nat
  BY HeadTailProperties, LenProperties DEF TypeOK, EraseHead
<1> QED BY <1>2, <1>3, TrimmingFinite DEF Credit

\* Credit is inductive.
LEMMA NextCredit ==
  TypeOK /\ Credit /\ DownInv /\ [Next]_vars => Credit' /\ DownInv'
<1> SUFFICES ASSUME TypeOK, Credit, DownInv, [Next]_vars
             PROVE  Credit' /\ DownInv'
  OBVIOUS
<1>1. CASE Load
  <2>1. Trimming' = {}
    BY <1>1 DEF DownInv, Load, Trimming
  <2>2. Cardinality(Trimming') = 0
    BY <2>1, FS_EmptySet
  <2>3. Len(m_snapshots') \in Nat
    BY <1>1, NextSnapshotType, LenProperties DEF TypeOK, Next
  <2> QED BY <1>1, <2>2, <2>3 DEF Credit, DownInv, Load
<1>2. CASE Crash
  <2>1. Trimming' = {}
    BY <1>2 DEF Crash, Trimming
  <2>2. Cardinality(Trimming') = 0 /\ Len(m_snapshots') = 0
    BY <1>2, <2>1, FS_EmptySet, EmptySeq DEF Crash
  <2> QED BY <1>2, <2>2 DEF Credit, DownInv, Crash
<1>3. CASE Tick
  BY <1>3, IdleCredit DEF Tick, Trimming, DownInv
<1>4. ASSUME NEW k \in Maker, StartMaker(k)
      PROVE  Credit' /\ DownInv'
  BY <1>4, IdleCredit DEF TypeOK, StartMaker, Moves, Trimming, DownInv
<1>5. ASSUME NEW k \in Maker, Make(k)
      PROVE  Credit' /\ DownInv'
  <2>1. DownInv'
    BY <1>5 DEF Make, TypeOK, DownInv, Moves, TakeTime, CallCreate, PollEnds, PushBack, CheckSize,
       ReadHead, EraseHead, DeleteHead, OpenFile, CopyLines, CloseFile, ClearFlag
  <2>2. CASE PushBack(k) \/ CheckSize(k) \/ EraseHead(k)
    BY <2>1, <2>2, PushCredit, CheckCredit, EraseCredit
  <2>3. CASE ~(PushBack(k) \/ CheckSize(k) \/ EraseHead(k))
    <3>1. Trimming' = Trimming /\ m_snapshots' = m_snapshots
      BY <1>5, <2>3 DEF Make, TypeOK, Trimming, Moves, TakeTime, CallCreate, PollEnds,
         ReadHead, DeleteHead, OpenFile, CopyLines, CloseFile, ClearFlag
    <3> QED BY <2>1, <3>1, IdleCredit
  <2> QED BY <2>2, <2>3
<1>6. CASE UNCHANGED vars
  BY <1>6, IdleCredit DEF vars, Trimming, DownInv
<1> QED BY <1>1, <1>2, <1>3, <1>4, <1>5, <1>6 DEF Next

\* A maker that has found the list too long always finds a front to read and to
\* erase: for any number of makers, and across stops and restarts.
THEOREM FrontExists == Spec => []HeadExists
<1>1. Init => TypeOK /\ Credit /\ DownInv
  <2> SUFFICES ASSUME Init PROVE TypeOK /\ Credit /\ DownInv
    OBVIOUS
  <2>1. Trimming = {}
    BY DEF Init, Trimming
  <2>2. Cardinality(Trimming) = 0
    BY <2>1, FS_EmptySet
  <2>3. Len(m_snapshots) \in Nat
    BY InitSnapshotType, LenProperties DEF TypeOK
  <2> QED BY <2>2, <2>3, InitSnapshotType DEF Credit, DownInv, Init
<1>2. TypeOK /\ Credit => HeadExists
  <2> SUFFICES ASSUME TypeOK, Credit, NEW k \in Maker, pc[k] \in {"head", "erase"}
               PROVE  m_snapshots # <<>>
    BY DEF HeadExists
  <2>1. k \in Trimming
    BY DEF Trimming
  <2>2. Cardinality(Trimming) # 0
    BY <2>1, TrimmingFinite, FS_EmptySet
  <2> QED BY <2>2, TrimmingFinite, EmptySeq DEF Credit
<1> QED BY <1>1, <1>2, NextSnapshotType, NextCredit, PTL DEF Spec

-----------------------------------------------------------------------------
(* Bounded, as long as the daemon has not been stopped.                    *)

\* Without a stop nothing is loaded again.
UpInv == crashes = 0 => up

\* The steps without a stop: none loads, and the daemon stays up.
LEMMA NextUp ==
  ASSUME TypeOK, UpInv, [Next]_vars
  PROVE  UpInv' /\ (crashes' = 0 => crashes = 0 /\ ~Load /\ ~Crash)
<1>1. CASE Load \/ Crash
  BY <1>1 DEF TypeOK, UpInv, Load, Crash
<1>2. CASE Tick
  BY <1>2 DEF UpInv, Tick, Load, Crash
<1>3. ASSUME NEW k \in Maker, StartMaker(k)
      PROVE  UNCHANGED <<up, crashes>>
  BY <1>3 DEF StartMaker
<1>4. ASSUME NEW k \in Maker, Make(k)
      PROVE  UNCHANGED <<up, crashes>>
  BY <1>4 DEF Make, TakeTime, CallCreate, PollEnds, PushBack, CheckSize, ReadHead,
     EraseHead, DeleteHead, OpenFile, CopyLines, CloseFile, ClearFlag
<1>5. CASE UNCHANGED vars
  BY <1>5 DEF UpInv, vars, Load, Crash
<1> QED BY <1>1, <1>2, <1>3, <1>4, <1>5 DEF Next, UpInv, Load, Crash

\* Steps of a maker other than its push, its check and its erase change neither
\* the list nor who may still erase.
LEMMA OtherSteps ==
  ASSUME TypeOK, NEW k \in Maker, Make(k), ~PushBack(k), ~CheckSize(k), ~EraseHead(k)
  PROVE  Trimming' = Trimming /\ m_snapshots' = m_snapshots
BY DEF Make, TypeOK, Trimming, Moves, TakeTime, CallCreate, PollEnds,
   ReadHead, DeleteHead, OpenFile, CopyLines, CloseFile, ClearFlag

\* What Bounded says of a daemon that has not been stopped.
Short == Len(m_snapshots) <= MaxNumber + Cardinality(Trimming)

\* The steps of a maker keep the list within its bound.
LEMMA MakeBounded ==
  ASSUME TypeOK, Short, NEW k \in Maker, Make(k)
  PROVE  Short'
<1>0. Len(m_snapshots) \in Nat
  BY LenProperties DEF TypeOK
<1>1. CASE PushBack(k)
  <2>1. Trimming' = Trimming \cup {k} /\ k \notin Trimming
    BY <1>1 DEF TypeOK, Trimming, PushBack, Moves
  <2>2. Cardinality(Trimming') = Cardinality(Trimming) + 1
    BY <2>1, TrimmingFinite, FS_AddElement
  <2>3. Len(m_snapshots') = Len(m_snapshots) + 1
    BY <1>1, AppendProperties DEF TypeOK, PushBack, Snapshot
  <2> QED BY <1>0, <2>2, <2>3, TrimmingFinite, NumberAssumption DEF Short
<1>2. CASE CheckSize(k) /\ Len(m_snapshots) > MaxNumber
  <2>1. Trimming' = Trimming
    BY <1>2 DEF TypeOK, Trimming, CheckSize, Moves
  <2> QED BY <1>2, <2>1 DEF Short, CheckSize
<1>3. CASE CheckSize(k) /\ Len(m_snapshots) <= MaxNumber
  <2>1. m_snapshots' = m_snapshots
    BY <1>3 DEF CheckSize
  <2> QED BY <1>0, <1>3, <2>1, TrimmingFinite, NumberAssumption DEF Short
<1>4. CASE EraseHead(k)
  <2>1. Trimming' = Trimming \ {k} /\ k \in Trimming
    BY <1>4 DEF TypeOK, Trimming, EraseHead, Moves
  <2>2. Cardinality(Trimming') = Cardinality(Trimming) - 1
    BY <2>1, TrimmingFinite, FS_RemoveElement
  <2>3. Len(m_snapshots') = Len(m_snapshots) - 1
    BY <1>4, HeadTailProperties DEF TypeOK, EraseHead
  <2> QED BY <1>0, <2>2, <2>3, TrimmingFinite, NumberAssumption DEF Short
<1>5. CASE ~PushBack(k) /\ ~CheckSize(k) /\ ~EraseHead(k)
  BY <1>5, OtherSteps DEF Short
<1> QED BY <1>0, <1>1, <1>2, <1>3, <1>4, <1>5, NumberAssumption

\* Bounded is inductive.
LEMMA NextBounded == TypeOK /\ UpInv /\ Bounded /\ [Next]_vars => Bounded'
<1> SUFFICES ASSUME TypeOK, UpInv, Short, [Next]_vars, crashes' = 0, crashes = 0, ~Load, ~Crash
             PROVE  Short'
  BY NextUp DEF Bounded, Short
<1>1. CASE Tick
  BY <1>1 DEF Tick, Short, Trimming
<1>2. ASSUME NEW k \in Maker, StartMaker(k)
      PROVE  Short'
  <2>1. Trimming' = Trimming /\ m_snapshots' = m_snapshots
    BY <1>2 DEF TypeOK, StartMaker, Moves, Trimming
  <2> QED BY <2>1 DEF Short
<1>3. ASSUME NEW k \in Maker, Make(k)
      PROVE  Short'
  BY <1>3, MakeBounded
<1>4. CASE UNCHANGED vars
  BY <1>4 DEF vars, Short, Trimming
<1> QED BY <1>1, <1>2, <1>3, <1>4 DEF Next

\* However many makers run at once, the list exceeds its maximum only by those
\* that have not come to their own check and erase.
THEOREM ListIsBounded == Spec => []Bounded
<1>1. Init => TypeOK /\ UpInv /\ Bounded
  <2> SUFFICES ASSUME Init PROVE Bounded
    BY InitSnapshotType DEF Init, UpInv
  <2>1. Len(Stored) \in Nat
    BY StoredAssumption, LenProperties
  <2> QED BY <2>1, TrimmingFinite, StoredAssumption, NumberAssumption DEF Init, Bounded
<1> QED BY <1>1, NextSnapshotType, NextUp, NextBounded, PTL DEF Spec

-----------------------------------------------------------------------------
(* ListedExist, as long as the daemon has not been stopped.                *)

Elems(s) == {s[i] : i \in 1 .. Len(s)}
Once(s) == \A i, j \in 1 .. Len(s) : s[i] = s[j] => i = j

\* The makers that have not added their snapshot and may still do so.
Unborn == {k \in Maker : pc[k] \in {"off", "time", "call", "poll", "push"}}

OnceInv == Once(m_snapshots)
UnbornInv == \A k \in Unborn : k \notin Elems(m_snapshots) /\ ec2[k] # "deleted"
ReadInv == \A k \in Maker : pc[k] \in {"erase", "delete"} => head[k] \notin Unborn
FrontInv ==
  \A k \in Maker :
    pc[k] = "erase" /\ head[k] \in Elems(m_snapshots) => head[k] = Head(m_snapshots)
GoneInv == \A k \in Maker : pc[k] = "delete" => head[k] \notin Elems(m_snapshots)
ElemsExist == \A x \in Elems(m_snapshots) : ec2[x] # "deleted"
ExistInv == OnceInv /\ UnbornInv /\ ReadInv /\ FrontInv /\ GoneInv /\ ElemsExist

\* What is left when the front of a list without duplicates goes.
LEMMA TailElems ==
  ASSUME NEW S, NEW s \in Seq(S), s # <<>>, Once(s)
  PROVE  Once(Tail(s)) /\ Elems(Tail(s)) = Elems(s) \ {Head(s)} /\ Head(s) \in Elems(s)
<1>1. /\ Len(s) \in Nat /\ Len(s) > 0 /\ Head(s) = s[1] /\ Len(Tail(s)) = Len(s) - 1
      /\ \A i \in 1 .. Len(Tail(s)) : Tail(s)[i] = s[i + 1]
  BY HeadTailProperties, LenProperties, EmptySeq
<1>2. Once(Tail(s))
  BY <1>1 DEF Once
<1>3. Elems(Tail(s)) \subseteq Elems(s) \ {Head(s)}
  BY <1>1 DEF Once, Elems
<1>4. ASSUME NEW i \in 1 .. Len(s), s[i] # Head(s)
      PROVE  s[i] \in Elems(Tail(s))
  <2>1. i - 1 \in 1 .. Len(Tail(s)) /\ Tail(s)[i - 1] = s[i]
    BY <1>1, <1>4
  <2> QED BY <2>1 DEF Elems
<1>5. Head(s) \in Elems(s)
  BY <1>1 DEF Elems
<1> QED BY <1>2, <1>3, <1>4, <1>5 DEF Elems

\* What a list without duplicates is after something new is appended.
LEMMA AppendElems ==
  ASSUME NEW S, NEW s \in Seq(S), NEW e \in S, Once(s), e \notin Elems(s)
  PROVE  /\ Once(Append(s, e)) /\ Elems(Append(s, e)) = Elems(s) \cup {e}
         /\ s # <<>> => Head(Append(s, e)) = Head(s)
<1>1. /\ Len(s) \in Nat /\ Len(Append(s, e)) = Len(s) + 1
      /\ \A i \in 1 .. Len(s) : Append(s, e)[i] = s[i]
      /\ Append(s, e)[Len(s) + 1] = e
  BY AppendProperties, LenProperties
<1>2. Once(Append(s, e))
  BY <1>1 DEF Once, Elems
<1>3. Elems(Append(s, e)) = Elems(s) \cup {e}
  <2>1. e \in Elems(Append(s, e))
    BY <1>1 DEF Elems
  <2>2. Elems(s) \subseteq Elems(Append(s, e))
    BY <1>1 DEF Elems
  <2>3. Elems(Append(s, e)) \subseteq Elems(s) \cup {e}
    BY <1>1 DEF Elems
  <2> QED BY <2>1, <2>2, <2>3
<1>4. s # <<>> => Head(Append(s, e)) = Head(s)
  <2> SUFFICES ASSUME s # <<>> PROVE Head(Append(s, e)) = Head(s)
    OBVIOUS
  <2>1. Len(s) > 0 /\ Head(s) = s[1]
    BY <1>1, HeadTailProperties, EmptySeq
  <2>2. Append(s, e) \in Seq(S) /\ Append(s, e) # <<>>
    BY AppendProperties
  <2> QED BY <1>1, <2>1, <2>2, HeadTailProperties
<1> QED BY <1>2, <1>3, <1>4

\* ElemsExist implies ListedExist, and the elements of the list are snapshots.
LEMMA ListedElems ==
  ASSUME TypeOK
  PROVE  (ElemsExist => ListedExist) /\ Elems(m_snapshots) \subseteq Snapshot
BY LenProperties, ElementOfSeq DEF TypeOK, ListedExist, ElemsExist, Elems

\* A maker's push: a snapshot nobody could have read or deleted yet.
LEMMA PushExist ==
  ASSUME TypeOK, TypeOK', ExistInv, NEW k \in Maker, PushBack(k)
  PROVE  ExistInv'
<1>1. k \in Unborn /\ Unborn' = Unborn \ {k} /\ k \in Snapshot
  BY DEF TypeOK, PushBack, Moves, Unborn, Snapshot
<1>2. k \notin Elems(m_snapshots) /\ ec2[k] # "deleted"
  BY <1>1 DEF ExistInv, UnbornInv
<1>3. m_snapshots' = Append(m_snapshots, k) /\ UNCHANGED <<head, ec2>>
  BY DEF PushBack
<1>4. /\ Once(m_snapshots') /\ Elems(m_snapshots') = Elems(m_snapshots) \cup {k}
      /\ m_snapshots # <<>> => Head(m_snapshots') = Head(m_snapshots)
  BY <1>1, <1>2, <1>3, AppendElems DEF TypeOK, ExistInv, OnceInv
<1>5. UnbornInv'
  BY <1>1, <1>3, <1>4 DEF ExistInv, UnbornInv
<1>6. \A j \in Maker : pc'[j] \in {"erase", "delete"} => pc[j] = pc'[j] /\ head[j] # k
  BY <1>1 DEF TypeOK, PushBack, Moves, ExistInv, ReadInv
<1>7. ReadInv'
  BY <1>1, <1>3, <1>6 DEF ExistInv, ReadInv
<1>8. m_snapshots = <<>> => Elems(m_snapshots) = {}
  BY EmptySeq DEF Elems
<1>9. FrontInv' /\ GoneInv'
  BY <1>3, <1>4, <1>6, <1>8 DEF ExistInv, FrontInv, GoneInv
<1>10. ElemsExist'
  BY <1>2, <1>3, <1>4 DEF ExistInv, ElemsExist
<1> QED BY <1>4, <1>5, <1>7, <1>9, <1>10 DEF ExistInv, OnceInv

\* A maker's read of the front.
LEMMA ReadExist ==
  ASSUME TypeOK, ExistInv, NEW k \in Maker, ReadHead(k)
  PROVE  ExistInv'
<1>1. UNCHANGED <<m_snapshots, ec2>> /\ head'[k] = Head(m_snapshots) /\ pc'[k] = "erase"
  BY DEF TypeOK, ReadHead, Moves
<1>2. \A j \in Maker : j # k => pc'[j] = pc[j] /\ head'[j] = head[j]
  BY DEF TypeOK, ReadHead, Moves
<1>3. Unborn' = Unborn
  BY DEF TypeOK, ReadHead, Moves, Unborn
<1>4. Head(m_snapshots) \notin Unborn
  BY TailElems DEF TypeOK, ReadHead, ExistInv, OnceInv, UnbornInv
<1>5. OnceInv' /\ UnbornInv' /\ ElemsExist'
  BY <1>1, <1>3 DEF ExistInv, OnceInv, UnbornInv, ElemsExist
<1>6. ReadInv'
  BY <1>1, <1>2, <1>3, <1>4 DEF ExistInv, ReadInv
<1>7. FrontInv' /\ GoneInv'
  BY <1>1, <1>2 DEF ExistInv, FrontInv, GoneInv
<1> QED BY <1>5, <1>6, <1>7 DEF ExistInv

\* A maker's erase: what it has read is in the list no more, whether it or
\* another maker erased it.
LEMMA EraseExist ==
  ASSUME TypeOK, TypeOK', ExistInv, NEW k \in Maker, EraseHead(k)
  PROVE  ExistInv'
<1>1. UNCHANGED <<head, ec2>> /\ pc[k] = "erase" /\ pc'[k] = "delete"
  BY DEF TypeOK, EraseHead, Moves
<1>2. \A j \in Maker : j # k => pc'[j] = pc[j]
  BY DEF TypeOK, EraseHead, Moves
<1>3. Unborn' = Unborn
  BY DEF TypeOK, EraseHead, Moves, Unborn
<1>4. /\ Once(m_snapshots') /\ Elems(m_snapshots') = Elems(m_snapshots) \ {Head(m_snapshots)}
  BY TailElems DEF TypeOK, EraseHead, ExistInv, OnceInv
<1>5. OnceInv' /\ UnbornInv'
  BY <1>1, <1>3, <1>4 DEF ExistInv, OnceInv, UnbornInv
<1>6. ReadInv'
  BY <1>1, <1>2, <1>3 DEF ExistInv, ReadInv
<1>7. FrontInv' /\ GoneInv'
  BY <1>1, <1>2, <1>4 DEF ExistInv, FrontInv, GoneInv
<1>8. ElemsExist'
  BY <1>1, <1>4 DEF ExistInv, ElemsExist
<1> QED BY <1>5, <1>6, <1>7, <1>8 DEF ExistInv

\* A maker's delete-snapshot: of nothing listed, and of nothing still to come.
LEMMA DeleteExist ==
  ASSUME TypeOK, TypeOK', ExistInv, NEW k \in Maker, DeleteHead(k)
  PROVE  ExistInv'
<1>1. UNCHANGED <<head, m_snapshots>> /\ pc[k] = "delete" /\ pc'[k] = "open"
  BY DEF TypeOK, DeleteHead, Moves
<1>2. \A j \in Maker : j # k => pc'[j] = pc[j]
  BY DEF TypeOK, DeleteHead, Moves
<1>3. Unborn' = Unborn
  BY DEF TypeOK, DeleteHead, Moves, Unborn
<1>4. head[k] \notin Unborn /\ head[k] \notin Elems(m_snapshots)
  BY <1>1 DEF ExistInv, ReadInv, GoneInv
<1>5. \A x \in Snapshot : x # head[k] => ec2'[x] = ec2[x]
  BY DEF TypeOK, DeleteHead, Deletes
<1>6. OnceInv' /\ UnbornInv'
  BY <1>1, <1>3, <1>4, <1>5 DEF Unborn, Snapshot, ExistInv, OnceInv, UnbornInv
<1>7. ReadInv' /\ FrontInv' /\ GoneInv'
  BY <1>1, <1>2, <1>3 DEF ExistInv, ReadInv, FrontInv, GoneInv
<1>8. ElemsExist'
  BY <1>1, <1>4, <1>5, ListedElems DEF ExistInv, ElemsExist
<1> QED BY <1>6, <1>7, <1>8 DEF ExistInv

\* The other steps: none touches the list, what was read, or a listed snapshot.
LEMMA OtherExist ==
  ASSUME TypeOK, TypeOK', ExistInv, UNCHANGED <<m_snapshots, head>>,
         Unborn' \subseteq Unborn,
         \A k \in Maker : pc'[k] \in {"erase", "delete"} => pc'[k] = pc[k],
         \A x \in Snapshot : ec2'[x] = "deleted" => ec2[x] = "deleted"
  PROVE  ExistInv'
<1>1. OnceInv' /\ UnbornInv' /\ ReadInv'
  BY DEF ExistInv, OnceInv, UnbornInv, ReadInv, Unborn, Snapshot
<1>2. FrontInv' /\ GoneInv'
  BY DEF ExistInv, FrontInv, GoneInv
<1>3. ElemsExist'
  BY ListedElems DEF ExistInv, ElemsExist
<1> QED BY <1>1, <1>2, <1>3 DEF ExistInv

\* The inductive invariant: ExistInv, as long as the daemon has not been stopped.
StayInv == crashes = 0 => ExistInv

\* It is inductive.
LEMMA NextExist == TypeOK /\ TypeOK' /\ UpInv /\ StayInv /\ [Next]_vars => StayInv'
<1> SUFFICES ASSUME TypeOK, TypeOK', UpInv, ExistInv, [Next]_vars, ~Load, ~Crash
             PROVE  ExistInv'
  BY NextUp DEF StayInv
<1>1. CASE Tick
  BY <1>1, OtherExist DEF Tick, Unborn
<1>2. ASSUME NEW k \in Maker, StartMaker(k)
      PROVE  ExistInv'
  BY <1>2, OtherExist DEF StartMaker, Moves, TypeOK, Unborn
<1>3. ASSUME NEW k \in Maker, Make(k)
      PROVE  ExistInv'
  <2>1. CASE PushBack(k) \/ ReadHead(k) \/ EraseHead(k) \/ DeleteHead(k)
    BY <2>1, PushExist, ReadExist, EraseExist, DeleteExist
  <2>2. CASE CallCreate(k)
    BY <2>2, OtherExist DEF CallCreate, Moves, TypeOK, Unborn
  <2>3. CASE TakeTime(k) \/ PollEnds(k) \/ CheckSize(k)
    BY <2>3, OtherExist DEF TakeTime, PollEnds, CheckSize, Moves, TypeOK, Unborn
  <2>4. CASE OpenFile(k) \/ CopyLines(k) \/ CloseFile(k) \/ ClearFlag(k)
    BY <2>4, OtherExist DEF OpenFile, CopyLines, CloseFile, ClearFlag, Moves, TypeOK, Unborn
  <2> QED BY <1>3, <2>1, <2>2, <2>3, <2>4 DEF Make
<1>4. CASE UNCHANGED vars
  BY <1>4, OtherExist DEF vars, Unborn
<1> QED BY <1>1, <1>2, <1>3, <1>4 DEF Next

\* The start: the file's snapshots exist, and nobody has read or added any.
LEMMA InitStay == Init => UpInv /\ StayInv
<1> SUFFICES ASSUME Init PROVE ExistInv
  BY DEF Init, UpInv, StayInv
<1>1. Elems(m_snapshots) = OldId /\ OnceInv
  BY StoredAssumption, LenProperties DEF Init, Elems, OnceInv, Once, OldId
<1>2. UnbornInv
  BY <1>1, StoredAssumption DEF Init, UnbornInv, Unborn, Snapshot
<1>3. ReadInv /\ FrontInv /\ GoneInv
  BY DEF Init, ReadInv, FrontInv, GoneInv
<1>4. ElemsExist
  BY <1>1, StoredAssumption DEF Init, Snapshot, ElemsExist
<1> QED BY <1>1, <1>2, <1>3, <1>4 DEF ExistInv

\* No listed snapshot has been deleted, though the id that is deleted and the
\* record that is erased are taken from the front at two times, by any number of
\* makers at once.
THEOREM ListedAreLeft == Spec => []ListedExist
<1>1. TypeOK /\ StayInv => ListedExist
  BY ListedElems DEF ExistInv, StayInv, ListedExist
<1> QED BY <1>1, InitSnapshotType, InitStay, NextSnapshotType, NextUp, NextExist, PTL DEF Spec

-----------------------------------------------------------------------------
(* LatestUsable.                                                           *)

UseTypeInv ==
  /\ left \in [Creator -> Nat]
  /\ snapshotId \in [Creator -> Snapshot \cup {NoSnapshot}]

\* As long as erasures are left, a creator's snapshot is at that place of the list.
PlaceInv ==
  \A c \in Creator :
    left[c] > 0 => left[c] <= Len(m_snapshots) /\ snapshotId[c] = m_snapshots[left[c]]

\* The steps of SnapshotUse are steps of Snapshots, or leave its state alone.
LEMMA UseRefines == [UseNext]_allVars => [Next]_vars
BY DEF UseNext, SnapshotStep, CrashBoth, Next, Use, FindsNone, FindsSome, ReadLatest,
   CreateVolume, allVars

\* What the list may become without a stop: it stays, grows by one, or loses its
\* front.
LEMMA ListSteps ==
  ASSUME TypeOK, Next, ~Load, ~Crash
  PROVE  \/ m_snapshots' = m_snapshots
         \/ \E s \in Snapshot : m_snapshots' = Append(m_snapshots, s)
         \/ m_snapshots # <<>> /\ m_snapshots' = Tail(m_snapshots)
<1>1. CASE Tick
  BY <1>1 DEF Tick
<1>2. ASSUME NEW k \in Maker, StartMaker(k)
      PROVE  m_snapshots' = m_snapshots
  BY <1>2 DEF StartMaker
<1>3. ASSUME NEW k \in Maker, Make(k)
      PROVE  \/ m_snapshots' = m_snapshots
             \/ \E s \in Snapshot : m_snapshots' = Append(m_snapshots, s)
             \/ m_snapshots # <<>> /\ m_snapshots' = Tail(m_snapshots)
  BY <1>3 DEF Make, Snapshot, TakeTime, CallCreate, PollEnds, PushBack, CheckSize, ReadHead,
     EraseHead, DeleteHead, OpenFile, CopyLines, CloseFile, ClearFlag
<1> QED BY <1>1, <1>2, <1>3 DEF Next

\* A step of the makers moves what is held as the count says.
LEMMA SnapshotStepPlace ==
  ASSUME TypeOK, UseTypeInv, PlaceInv, SnapshotStep, ~Load, ~Crash
  PROVE  PlaceInv'
<1> SUFFICES ASSUME NEW c \in Creator, left'[c] > 0
             PROVE  left'[c] <= Len(m_snapshots') /\ snapshotId'[c] = m_snapshots'[left'[c]]
  BY DEF PlaceInv
<1>0. left[c] \in Nat /\ snapshotId'[c] = snapshotId[c] /\ Len(m_snapshots) \in Nat
  BY LenProperties DEF TypeOK, UseTypeInv, SnapshotStep
<1>1. CASE m_snapshots' = m_snapshots
  <2>1. left'[c] = left[c]
    BY <1>0, <1>1 DEF SnapshotStep
  <2> QED BY <1>0, <1>1, <2>1 DEF PlaceInv
<1>2. ASSUME NEW s \in Snapshot, m_snapshots' = Append(m_snapshots, s)
      PROVE  left'[c] <= Len(m_snapshots') /\ snapshotId'[c] = m_snapshots'[left'[c]]
  <2>1. /\ Len(m_snapshots') = Len(m_snapshots) + 1
        /\ \A i \in 1 .. Len(m_snapshots) : m_snapshots'[i] = m_snapshots[i]
    BY <1>2, AppendProperties DEF TypeOK
  <2>2. left'[c] = left[c]
    BY <1>0, <2>1 DEF SnapshotStep
  <2> QED BY <1>0, <2>1, <2>2 DEF PlaceInv
<1>3. CASE m_snapshots # <<>> /\ m_snapshots' = Tail(m_snapshots)
  <2>1. /\ Len(m_snapshots') = Len(m_snapshots) - 1
        /\ \A i \in 1 .. Len(m_snapshots) - 1 : m_snapshots'[i] = m_snapshots[i + 1]
    BY <1>3, HeadTailProperties DEF TypeOK
  <2>2. left[c] > 0 /\ left'[c] = left[c] - 1
    BY <1>0, <2>1 DEF SnapshotStep
  <2> QED BY <1>0, <2>1, <2>2 DEF PlaceInv
<1> QED BY <1>1, <1>2, <1>3, ListSteps DEF SnapshotStep

\* The types and the places are inductive, as long as the daemon is not stopped.
LEMMA NextPlace ==
  ASSUME TypeOK, UpInv, UseTypeInv, crashes = 0 => PlaceInv, [UseNext]_allVars
  PROVE  UseTypeInv' /\ (crashes' = 0 => PlaceInv')
<1>1. CASE SnapshotStep
  <2>1. UseTypeInv'
    BY <1>1 DEF UseTypeInv, SnapshotStep
  <2>2. crashes' = 0 => PlaceInv'
    BY <1>1, NextUp, SnapshotStepPlace DEF SnapshotStep
  <2> QED BY <2>1, <2>2
<1>2. CASE CrashBoth
  BY <1>2 DEF CrashBoth, UseTypeInv, PlaceInv
<1>3. ASSUME NEW c \in Creator, Use(c)
      PROVE  UseTypeInv' /\ (crashes' = 0 => PlaceInv')
  <2>0. UNCHANGED vars
    BY <1>3 DEF Use, FindsNone, FindsSome, ReadLatest, CreateVolume
  <2>1. CASE FindsNone(c) \/ FindsSome(c)
    BY <2>0, <2>1 DEF FindsNone, FindsSome, UseTypeInv, PlaceInv, vars
  <2>2. CASE ReadLatest(c)
    <3>1. Len(m_snapshots) \in 1 .. Len(m_snapshots) /\ Len(m_snapshots) \in Nat
      BY <2>2, LenProperties, EmptySeq DEF TypeOK, ReadLatest
    <3>2. m_snapshots[Len(m_snapshots)] \in Snapshot
      BY <3>1, ElementOfSeq DEF TypeOK
    <3> QED BY <2>0, <2>2, <3>1, <3>2 DEF ReadLatest, UseTypeInv, PlaceInv, vars
  <2>3. CASE CreateVolume(c)
    BY <2>0, <2>3 DEF CreateVolume, UseTypeInv, PlaceInv, vars
  <2> QED BY <1>3, <2>1, <2>2, <2>3 DEF Use
<1>4. CASE UNCHANGED allVars
  BY <1>4 DEF allVars, useVars, vars, UseTypeInv, PlaceInv
<1> QED BY <1>1, <1>2, <1>3, <1>4 DEF UseNext

\* The snapshot that latest() has given a creator is deleted before its use only
\* when as many erasures have come in between as the list had snapshots: for any
\* numbers of makers and creators.
THEOREM LatestIsUsable == UseSpec => []LatestUsable
<1> DEFINE PInv == crashes = 0 => PlaceInv
           Inv == TypeOK /\ UpInv /\ StayInv /\ UseTypeInv /\ PInv
<1>1. UseInit => Inv
  BY InitSnapshotType, InitStay DEF UseInit, UseTypeInv, PlaceInv
<1>2. Inv /\ [UseNext]_allVars => Inv'
  <2> SUFFICES ASSUME Inv, [UseNext]_allVars PROVE Inv'
    OBVIOUS
  <2>1. [Next]_vars
    BY UseRefines
  <2>2. TypeOK' /\ UpInv' /\ StayInv'
    BY <2>1, NextSnapshotType, NextUp, NextExist
  <2> QED BY <2>2, NextPlace
<1>3. Inv => LatestUsable
  <2> SUFFICES ASSUME TypeOK, UseTypeInv, ExistInv, PlaceInv, NEW c \in Creator,
                      ec2[snapshotId[c]] = "deleted", left[c] # 0
               PROVE  FALSE
    BY DEF LatestUsable, StayInv
  <2>1. left[c] \in 1 .. Len(m_snapshots) /\ snapshotId[c] = m_snapshots[left[c]]
    BY LenProperties DEF UseTypeInv, PlaceInv, TypeOK
  <2> QED BY <2>1 DEF ExistInv, ElemsExist, Elems
<1> QED BY <1>1, <1>2, <1>3, PTL DEF UseSpec
=============================================================================
