---------------------------- MODULE SyncPoolProofs ----------------------------
(***************************************************************************)
(* TLAPS proofs about the passes, their date and what they have reached,   *)
(* for any numbers of passes, volumes, threads and stops, and whatever the *)
(* pool does: the file may be impossible to open, the machine may restart. *)
(***************************************************************************)
EXTENDS SyncPool, VolumePoolProofs, FiniteSetTheorems, TLAPS

PassControl == {"off", "decided", "done"} \cup Running

SyncTyped ==
  /\ spc \in [Pass -> PassControl]
  /\ out \in [Pass -> Int]
  /\ m_latestSync \in Int /\ syncFile \in Int /\ clock \in Nat
  /\ syncingOpPending \in BOOLEAN

\* While the daemon is down no pass runs.
PassesDown == pc[Main] = "down" => \A p \in Pass : spc[p] \in {"off", "done"}

\* A date on its way to the file is not later than the one in memory, which is
\* that of a pass that has ended.
DatesOrdered ==
  /\ Never <= syncFile /\ syncFile <= clock
  /\ Never <= m_latestSync /\ m_latestSync <= clock
  /\ \A p \in Pass : spc[p] = "close" => Never <= out[p] /\ out[p] <= m_latestSync

DateInv == SyncTyped /\ PassesDown /\ DatesOrdered /\ DateNotAhead

-----------------------------------------------------------------------------
(* The date.                                                               *)

LEMMA InitDate == SyncInit => DateInv
<1> SUFFICES ASSUME SyncInit PROVE DateInv
  OBVIOUS
<1>1. Main \in Thread
  BY DEF Thread
<1>2. pc[Main] # "down"
  BY <1>1 DEF SyncInit, Init
<1>3. SyncTyped
  <2>1. "off" \in PassControl /\ Never \in Int /\ 0 \in Nat
    BY DEF PassControl, Never
  <2> QED BY <2>1 DEF SyncInit, SyncTyped
<1> QED BY <1>2, <1>3 DEF DateInv, PassesDown, DatesOrdered, DateNotAhead, SyncInit, Never

\* Main and the dispatcher start passes while the daemon is up.
LEMMA StartDate ==
  ASSUME DateInv, NEW p \in Pass, MainDecides(p) \/ MainStarts(p) \/ RequestSync(p)
  PROVE  DateInv'
<1>1. /\ UNCHANGED <<pc, m_latestSync, syncFile, out, clock>>
      /\ syncingOpPending' \in BOOLEAN
      /\ \E q \in {"decided", "begin"} : spc' = [spc EXCEPT ![p] = q]
      /\ pc[Main] # "down"
  BY DEF DateInv, SyncTyped, PassesDown, MainDecides, MainStarts, RequestSync, Passes, vars, dateVars
<1>2. SyncTyped'
  BY <1>1 DEF DateInv, SyncTyped, PassControl, Running
<1>3. \A q \in Pass : spc'[q] = "close" => spc[q] = "close"
  BY <1>1 DEF DateInv, SyncTyped
<1> QED BY <1>1, <1>2, <1>3 DEF DateInv, PassesDown, DatesOrdered, DateNotAhead

\* The steps of a pass: the stream takes the date that is in memory.
LEMMA HandleDate ==
  ASSUME DateInv, NEW p \in Pass, Handle(p)
  PROVE  DateInv'
<1> USE DEF Passes, passVars
<1>1. /\ UNCHANGED <<pc, clock>> /\ syncingOpPending' \in BOOLEAN
      /\ spc[p] \in Running /\ pc[Main] # "down"
      /\ \E q \in Running \cup {"done"} : spc' = [spc EXCEPT ![p] = q]
  BY DEF DateInv, SyncTyped, PassesDown, Running, Handle, CopyList, Synchronize, EndLoop, SetTime, OpenDate,
     PutDate, CloseDate, ClearFlag, vars
<1>2. /\ out' \in [Pass -> Int] /\ m_latestSync' \in Int /\ syncFile' \in Int
      /\ m_latestSync' \in {m_latestSync, clock}
      /\ \A q \in Pass \ {p} : out'[q] = out[q]
      /\ spc'[p] = "close" => out'[p] = m_latestSync'
      /\ \/ syncFile' = syncFile
         \/ syncFile' = Never
         \/ spc[p] = "close" /\ syncFile' = out[p]
  BY DEF DateInv, SyncTyped, Never, Handle, CopyList, Synchronize, EndLoop, SetTime, OpenDate,
     PutDate, CloseDate, ClearFlag, dateVars
<1>3. SyncTyped'
  BY <1>1, <1>2 DEF DateInv, SyncTyped, PassControl
<1>4. \A q \in Pass : spc'[q] = "close" => q = p \/ spc[q] = "close"
  BY <1>1 DEF DateInv, SyncTyped
<1>5. Never <= m_latestSync' /\ m_latestSync <= m_latestSync' /\ m_latestSync' <= clock
  BY <1>2 DEF DateInv, DatesOrdered, SyncTyped, Never
<1>6. Never <= syncFile' /\ syncFile' <= m_latestSync'
  BY <1>1, <1>2, <1>5 DEF DateInv, DatesOrdered, DateNotAhead, SyncTyped, Never
<1>7. \A q \in Pass : spc'[q] = "close" => Never <= out'[q] /\ out'[q] <= m_latestSync'
  <2> SUFFICES ASSUME NEW q \in Pass, spc'[q] = "close"
               PROVE  Never <= out'[q] /\ out'[q] <= m_latestSync'
    OBVIOUS
  <2>1. CASE q = p
    BY <1>2, <1>5, <2>1 DEF Never
  <2>2. CASE q # p
    BY <1>2, <1>4, <1>5, <2>2 DEF DateInv, DatesOrdered, SyncTyped, Never
  <2> QED BY <2>1, <2>2
<1>8. DatesOrdered'
  BY <1>1, <1>5, <1>6, <1>7, <1>3 DEF DatesOrdered, SyncTyped, DateInv, Never
<1> QED BY <1>1, <1>3, <1>6, <1>8 DEF DateInv, PassesDown, DateNotAhead

\* The pool's steps and the clock leave the dates alone; a stop ends all passes,
\* and a start takes the date from the file.
LEMMA OtherDate ==
  ASSUME DateInv, PoolStep \/ CrashBoth \/ LoadBoth \/ Tick \/ UNCHANGED allVars
  PROVE  DateInv'
<1>1. CASE PoolStep
  BY <1>1 DEF PoolStep, syncVars, dateVars, DateInv, SyncTyped, PassesDown, DatesOrdered, DateNotAhead
<1>2. CASE CrashBoth
  <2>1. Main \in Thread
    BY DEF Thread
  <2>2. pc'[Main] = "down"
    BY <1>2, <2>1 DEF CrashBoth, Crash
  <2>3. /\ UNCHANGED <<syncFile, clock>> /\ m_latestSync' = Never
        /\ \A p \in Pass : spc'[p] \in {"off", "done"}
    BY <1>2 DEF CrashBoth
  <2>4. SyncTyped'
    <3>1. {"off", "done"} \subseteq PassControl /\ Never \in Int
      BY DEF PassControl, Never
    <3> QED BY <1>2, <3>1 DEF CrashBoth, DateInv, SyncTyped
  <2> QED BY <2>2, <2>3, <2>4 DEF DateInv, SyncTyped, PassesDown, DatesOrdered, DateNotAhead, Never
<1>3. CASE LoadBoth
  <2>1. pc[Main] = "down" /\ UNCHANGED <<syncFile, out, syncingOpPending, spc, clock>> /\ m_latestSync' = syncFile
    BY <1>3 DEF LoadBoth, LoadFile
  <2> QED BY <2>1 DEF DateInv, SyncTyped, PassesDown, DatesOrdered, DateNotAhead, Never
<1>4. CASE Tick
  <2>1. UNCHANGED <<pc, m_latestSync, syncFile, out, syncingOpPending, spc>> /\ clock' = clock + 1
    BY <1>4 DEF Tick, vars, dateVars
  <2> QED BY <2>1 DEF DateInv, SyncTyped, PassesDown, DatesOrdered, DateNotAhead, Never
<1>5. CASE UNCHANGED allVars
  BY <1>5 DEF allVars, vars, syncVars, dateVars, DateInv, SyncTyped, PassesDown, DatesOrdered, DateNotAhead
<1> QED BY <1>1, <1>2, <1>3, <1>4, <1>5

LEMMA NextDate == DateInv /\ [SyncNext]_allVars => DateInv'
<1> SUFFICES ASSUME DateInv, [SyncNext]_allVars PROVE DateInv'
  OBVIOUS
<1>1. Periodic \subseteq Pass /\ Requested \subseteq Pass
  BY DEF Pass
<1> QED BY <1>1, StartDate, HandleDate, OtherDate DEF SyncNext

\* A restart never loads a later date than the one the daemon goes by: it may
\* bring the next pass forward and never puts it off.
THEOREM DateNeverAhead == SyncSpec => []DateNotAhead
<1>1. DateInv => DateNotAhead
  BY DEF DateInv
<1> QED BY <1>1, InitDate, NextDate, PTL DEF SyncSpec

-----------------------------------------------------------------------------
(* The passes that run at once.                                            *)

Runs == {p \in Periodic : spc[p] \in Running}
Coming == {p \in Periodic : spc[p] \in Running \cup {"decided"}}
Cleared == {p \in Requested : spc[p] = "done"}

\* A SyncAll pass that has ended lets one more pass of main run beside the others;
\* until main has started it, the flag is down.
OverlapInv ==
  /\ Cardinality(Coming) <= 1 + Cardinality(Cleared)
  /\ ~syncingOpPending => Cardinality(Runs) <= Cardinality(Cleared)

\* What is counted is finite.
LEMMA CountsFinite ==
  ASSUME IsFiniteSet(Periodic), IsFiniteSet(Requested)
  PROVE  /\ IsFiniteSet(Runs) /\ IsFiniteSet(Coming) /\ IsFiniteSet(Cleared)
         /\ IsFiniteSet(Runs)' /\ IsFiniteSet(Coming)' /\ IsFiniteSet(Cleared)'
         /\ Cardinality(Runs) \in Nat /\ Cardinality(Coming) \in Nat /\ Cardinality(Cleared) \in Nat
<1>1. /\ Runs \subseteq Periodic /\ Coming \subseteq Periodic /\ Cleared \subseteq Requested
      /\ Runs' \subseteq Periodic /\ Coming' \subseteq Periodic /\ Cleared' \subseteq Requested
  BY DEF Runs, Coming, Cleared
<1> QED BY <1>1, FS_Subset, FS_CardinalityType

\* Main starts a pass only when the flag is down, and raises it.
LEMMA StartOverlap ==
  ASSUME IsFiniteSet(Periodic), IsFiniteSet(Requested), DateInv, OverlapInv,
         NEW p \in Periodic, MainDecides(p) \/ MainStarts(p)
  PROVE  OverlapInv'
<1>1. p \in Pass /\ p \notin Requested
  BY PassAssumption DEF Pass
<1>2. CASE MainDecides(p)
  <2>1. /\ ~syncingOpPending /\ UNCHANGED syncingOpPending
        /\ \A q \in Pass : spc[q] # "decided"
        /\ spc[p] = "off" /\ spc' = [spc EXCEPT ![p] = "decided"]
    BY <1>2 DEF MainDecides, Passes
  <2>2. Runs' = Runs /\ Cleared' = Cleared /\ Coming' = Runs \cup {p} /\ p \notin Runs
    BY <1>1, <2>1 DEF DateInv, SyncTyped, Runs, Coming, Cleared, Running, Pass
  <2>3. Cardinality(Runs \cup {p}) = Cardinality(Runs) + 1
    BY <2>2, CountsFinite, FS_AddElement
  <2> QED BY <2>1, <2>2, <2>3, CountsFinite DEF OverlapInv
<1>3. CASE MainStarts(p)
  <2>1. syncingOpPending' = TRUE /\ spc[p] = "decided" /\ spc' = [spc EXCEPT ![p] = "begin"]
    BY <1>3 DEF MainStarts, Passes
  <2>2. Cleared' = Cleared /\ Coming' = Coming
    BY <1>1, <2>1 DEF DateInv, SyncTyped, Coming, Cleared, Running, Pass
  <2> QED BY <2>1, <2>2 DEF OverlapInv
<1> QED BY <1>2, <1>3

\* A SyncAll request does not look at the flag, and raises it.
LEMMA RequestOverlap ==
  ASSUME DateInv, OverlapInv, NEW p \in Requested, RequestSync(p)
  PROVE  OverlapInv'
<1>1. p \in Pass /\ p \notin Periodic
  BY PassAssumption DEF Pass
<1>2. syncingOpPending' = TRUE /\ spc[p] = "off" /\ spc' = [spc EXCEPT ![p] = "begin"]
  BY DEF RequestSync, Passes
<1>3. Cleared' = Cleared /\ Coming' = Coming
  BY <1>1, <1>2 DEF DateInv, SyncTyped, Coming, Cleared, Pass
<1> QED BY <1>2, <1>3 DEF OverlapInv

\* A pass that ends takes the flag down for all.
LEMMA ClearOverlap ==
  ASSUME IsFiniteSet(Periodic), IsFiniteSet(Requested), DateInv, OverlapInv,
         NEW p \in Pass, ClearFlag(p)
  PROVE  OverlapInv'
<1>1. spc[p] = "clear" /\ spc' = [spc EXCEPT ![p] = "done"]
  BY DEF ClearFlag, Passes
<1>2. Runs \subseteq Coming
  BY DEF Runs, Coming
<1>3. Cardinality(Runs) <= Cardinality(Coming)
  BY <1>2, CountsFinite, FS_Subset
<1>4. CASE p \in Periodic
  <2>1. p \notin Requested
    BY <1>4, PassAssumption
  <2>2. Cleared' = Cleared /\ Coming' = Coming \ {p} /\ Runs' = Runs \ {p} /\ p \in Runs /\ p \in Coming
    BY <1>1, <1>4, <2>1 DEF DateInv, SyncTyped, Runs, Coming, Cleared, Running, Pass
  <2>3. /\ Cardinality(Runs \ {p}) = Cardinality(Runs) - 1
        /\ Cardinality(Coming \ {p}) = Cardinality(Coming) - 1
    BY <2>2, CountsFinite, FS_RemoveElement
  <2> QED BY <1>3, <2>2, <2>3, CountsFinite DEF OverlapInv
<1>5. CASE p \in Requested
  <2>1. p \notin Periodic
    BY <1>5, PassAssumption
  <2>2. Cleared' = Cleared \cup {p} /\ p \notin Cleared /\ Coming' = Coming /\ Runs' = Runs
    BY <1>1, <1>5, <2>1 DEF DateInv, SyncTyped, Runs, Coming, Cleared, Running, Pass
  <2>3. Cardinality(Cleared \cup {p}) = Cardinality(Cleared) + 1
    BY <2>2, CountsFinite, FS_AddElement
  <2> QED BY <1>3, <2>2, <2>3, CountsFinite DEF OverlapInv
<1> QED BY <1>4, <1>5 DEF Pass

\* The other steps of a pass leave it running, and the flag as it is.
LEMMA HandleOverlap ==
  ASSUME IsFiniteSet(Periodic), IsFiniteSet(Requested), DateInv, OverlapInv,
         NEW p \in Pass, Handle(p)
  PROVE  OverlapInv'
<1>1. CASE ClearFlag(p)
  BY <1>1, ClearOverlap
<1>2. CASE ~ClearFlag(p)
  <2>1. /\ UNCHANGED syncingOpPending
        /\ spc[p] \in Running /\ \E q \in Running : spc' = [spc EXCEPT ![p] = q]
    BY <1>2 DEF Running, Handle, CopyList, Synchronize, EndLoop, SetTime, OpenDate, PutDate, CloseDate, Passes
  <2>2. Cleared' = Cleared /\ Coming' = Coming /\ Runs' = Runs
    BY <2>1 DEF DateInv, SyncTyped, Runs, Coming, Cleared, Running, Pass
  <2> QED BY <2>1, <2>2 DEF OverlapInv
<1> QED BY <1>1, <1>2

\* A stop ends all passes.
LEMMA OtherOverlap ==
  ASSUME IsFiniteSet(Periodic), IsFiniteSet(Requested), DateInv, OverlapInv,
         PoolStep \/ CrashBoth \/ LoadBoth \/ Tick \/ UNCHANGED allVars
  PROVE  OverlapInv'
<1>1. CASE CrashBoth
  <2>1. \A p \in Pass : spc'[p] \in {"off", "done"}
    BY <1>1 DEF CrashBoth
  <2>2. Runs' = {} /\ Coming' = {}
    BY <2>1 DEF Runs, Coming, Running, Pass
  <2>3. Cardinality(Cleared') \in Nat /\ Cardinality({}) = 0
    BY CountsFinite, FS_CardinalityType, FS_EmptySet
  <2> QED BY <2>2, <2>3 DEF OverlapInv
<1>2. CASE PoolStep \/ LoadBoth \/ Tick \/ UNCHANGED allVars
  <2>1. UNCHANGED <<spc, syncingOpPending>>
    BY <1>2 DEF PoolStep, LoadBoth, Tick, allVars, syncVars
  <2> QED BY <2>1 DEF OverlapInv, Runs, Coming, Cleared
<1> QED BY <1>1, <1>2

\* However the passes and the requests meet on the flag they share, main's passes
\* that run at once are at most one more than the SyncAll passes there were.
THEOREM PassesOverlap ==
  ASSUME IsFiniteSet(Periodic), IsFiniteSet(Requested)
  PROVE  SyncSpec => []Overlap
<1>1. SyncInit => DateInv /\ OverlapInv
  <2> SUFFICES ASSUME SyncInit PROVE OverlapInv
    BY InitDate
  <2>1. Runs = {} /\ Coming = {} /\ Cleared = {}
    BY DEF SyncInit, Runs, Coming, Cleared, Running, Pass
  <2> QED BY <2>1, FS_EmptySet DEF OverlapInv
<1>2. DateInv /\ OverlapInv /\ [SyncNext]_allVars => (DateInv /\ OverlapInv)'
  <2> SUFFICES ASSUME DateInv, OverlapInv, [SyncNext]_allVars PROVE OverlapInv'
    BY NextDate
  <2> QED BY StartOverlap, RequestOverlap, HandleOverlap, OtherOverlap DEF SyncNext
<1>3. DateInv /\ OverlapInv => Overlap
  <2> SUFFICES ASSUME DateInv, OverlapInv PROVE Overlap
    OBVIOUS
  <2> DEFINE Asked == {p \in Requested : spc[p] # "off"}
  <2>1. Runs \subseteq Coming /\ Cleared \subseteq Asked /\ Asked \subseteq Requested
    BY DEF Runs, Coming, Cleared
  <2>2. /\ Cardinality(Runs) <= Cardinality(Coming) /\ Cardinality(Cleared) <= Cardinality(Asked)
        /\ Cardinality(Asked) \in Nat
    BY <2>1, CountsFinite, FS_Subset, FS_CardinalityType
  <2> QED BY <2>2, CountsFinite DEF OverlapInv, Overlap, Runs
<1> QED BY <1>1, <1>2, <1>3, PTL DEF SyncSpec

-----------------------------------------------------------------------------
(* What a pass has reached: the inductive invariant, in parts.  A pass     *)
(* finds a volume when the place its copy names is where the volume is     *)
(* mounted.  An idle record names this machine, a record never becomes     *)
(* idle again, and while a pass runs only creators mount volumes here,     *)
(* their own, which no list and no copy knows.                             *)

AtHome(s) == \A i \in DOMAIN s : s[i].status = "idle" => s[i].attachedTo = Here

HomeInv == AtHome(m_volumes) /\ AtHome(volumeFile) /\ \A t \in Thread : AtHome(buf[t])

CopyTyped ==
  /\ copy \in [Pass -> Seq(Record)]
  /\ next \in [Pass -> Nat]
  /\ written \in [Pass -> SUBSET Volume]

\* EC2 knows every volume that is listed, copied or being prepared.
KnownInv ==
  /\ \A v \in Listed : ebs[v] # "absent"
  /\ \A p \in Pass : \A v \in Ids(copy[p]) : ebs[v] # "absent"
  /\ \A t \in Creator : vid[t] # NoVolume => ebs[vid[t]] # "absent"

\* A creator's volume is its own: it is in no list and no copy yet.
OwnInv ==
  /\ \A t \in Creator :
       vid[t] # NoVolume =>
         /\ vid[t] \notin Ids(m_volumes)
         /\ \A p \in Pass : vid[t] \notin Ids(copy[p])
         /\ \A u \in Creator \ {t} : vid[u] # vid[t]
  /\ pc[Main] = "down" => \A t \in Creator : vid[t] = NoVolume

\* A pass runs after start-up has remounted the volumes.
LoopInv == \A p \in Pass : spc[p] \in Running \cup {"decided"} => pc[Main] = "loop"

\* A record of p's copy places v here, and p has not passed it in vain.
Reached(p, v) ==
  \E i \in DOMAIN copy[p] :
    /\ copy[p][i].id = v /\ copy[p][i].attachedTo = Here
    /\ i < next[p] /\ mountedAt[v] = Here => v \in written[p]

ReachInv ==
  \A p \in Pass :
    /\ spc[p] \in {"loop", "date"} => \A v \in Ids(copy[p]) \cap Idle(m_volumes) : Reached(p, v)
    /\ spc[p] = "loop" => next[p] > 0
    /\ spc[p] = "date" => \A i \in DOMAIN copy[p] : i < next[p]

PassInv == HomeInv /\ CopyTyped /\ KnownInv /\ OwnInv /\ LoopInv /\ ReachInv

\* What a step of the pool may do without a pass noticing: it lists no volume,
\* lets EC2 forget none, and mounts none here that a list or a copy knows.
NothingAdded ==
  /\ Idle(m_volumes') \subseteq Idle(m_volumes)
  /\ Ids(m_volumes') \subseteq Ids(m_volumes)
  /\ Listed' \subseteq Listed
  /\ HomeInv'

NothingMounted ==
  /\ \A v \in Volume : ebs[v] # "absent" => ebs'[v] # "absent"
  /\ \A v \in Volume : mountedAt'[v] = Here =>
       mountedAt[v] = Here \/ pc[Main] = "remount" \/ \E t \in Creator : vid[t] = v

CreatorsKept ==
  /\ \A t \in Creator : vid'[t] \in {vid[t], NoVolume}
  /\ pc'[Main] = pc[Main] \/ (pc[Main] = "remount" /\ pc'[Main] = "loop")

Unnoticed == NothingAdded /\ NothingMounted /\ CreatorsKept

-----------------------------------------------------------------------------
(* The steps of the pool that no pass notices.                             *)

\* erase, update and push_back keep the idle records at home.
LEMMA StoredHome ==
  ASSUME NEW s \in Seq(Record), AtHome(s), NEW v
  PROVE  /\ AtHome(Erased(s, v))
         /\ \A st \in Status \ {"idle"} : \A at : AtHome(Updated(s, v, st, at))
         /\ v \in Volume => AtHome(Append(s, IdleRecord(v)))
<1>1. AtHome(Erased(s, v))
  BY ErasedRecords DEF AtHome
<1>2. \A st \in Status \ {"idle"} : \A at : AtHome(Updated(s, v, st, at))
  BY UpdatedRecords DEF AtHome
<1>3. IdleRecord(v).attachedTo = Here
  BY DEF IdleRecord
<1>4. v \in Volume => AtHome(Append(s, IdleRecord(v)))
  BY <1>3, AppendedRecords DEF AtHome
<1> QED BY <1>1, <1>2, <1>4

\* A step that leaves the list, the file and the copies on their way to it.
LEMMA ListsLeft ==
  ASSUME HomeInv, UNCHANGED <<m_volumes, volumeFile, buf>>
  PROVE  NothingAdded
BY DEF NothingAdded, HomeInv, Listed

\* A thread that erases a record, or gives one a status other than idle.
LEMMA ListStored ==
  ASSUME TypeInv, HomeInv, UNCHANGED <<volumeFile, buf>>, NEW v,
         \/ m_volumes' = m_volumes
         \/ m_volumes' = Erased(m_volumes, v)
         \/ \E st \in Status \ {"idle"}, at \in Client \cup {NoPlace} :
              m_volumes' = Updated(m_volumes, v, st, at)
  PROVE  NothingAdded
<1>1. m_volumes \in Seq(Record) /\ AtHome(m_volumes)
  BY DEF TypeInv, TypeOK, HomeInv
<1>2. Idle(m_volumes') \subseteq Idle(m_volumes) /\ Ids(m_volumes') \subseteq Ids(m_volumes)
  <2>1. CASE m_volumes' = m_volumes
    BY <2>1
  <2>2. CASE m_volumes' = Erased(m_volumes, v)
    BY <1>1, <2>2, ErasedList
  <2>3. ASSUME NEW st \in Status \ {"idle"}, NEW at \in Client \cup {NoPlace},
               m_volumes' = Updated(m_volumes, v, st, at)
        PROVE  Idle(m_volumes') \subseteq Idle(m_volumes) /\ Ids(m_volumes') \subseteq Ids(m_volumes)
    BY <1>1, <2>3, UpdatedList
  <2> QED BY <2>1, <2>2, <2>3
<1>3. AtHome(m_volumes')
  BY <1>1, StoredHome
<1> QED BY <1>2, <1>3 DEF NothingAdded, HomeInv, Listed

\* EC2's state of one volume changes, or a mount goes.
LEMMA OneVolume ==
  ASSUME TypeInv, NEW v, NEW x, x # "absent", NEW y, y # Here,
         ebs' = ebs \/ ebs' = [ebs EXCEPT ![v] = x],
         mountedAt' = mountedAt \/ mountedAt' = [mountedAt EXCEPT ![v] = y]
  PROVE  NothingMounted
<1>1. \A w \in Volume : ebs'[w] = ebs[w] \/ ebs'[w] = x
  BY DEF TypeInv, TypeOK
<1>2. \A w \in Volume : mountedAt'[w] = mountedAt[w] \/ mountedAt'[w] = y
  BY DEF TypeInv, TypeOK
<1> QED BY <1>1, <1>2 DEF NothingMounted

\* A thread other than a creator moves on.
LEMMA OtherMoves ==
  ASSUME TypeInv, NEW t \in Worker, NEW q, pc' = pc \/ pc' = [pc EXCEPT ![t] = q],
         \/ vid' = vid
         \/ vid' = [vid EXCEPT ![t] = NoVolume]
         \/ t \notin Creator /\ \E x : vid' = [vid EXCEPT ![t] = x]
  PROVE  CreatorsKept
BY ThreadAssumption DEF CreatorsKept, TypeInv, TypeOK, Thread, Worker

\* write_to_file.
LEMMA WriteUnnoticed ==
  ASSUME TypeInv, HomeInv, NEW t \in Thread, WriteStep(t)
  PROVE  Unnoticed
<1>1. UNCHANGED <<m_volumes, ebs, mountedAt, vid, pc>>
  BY DEF WriteStep, OpenFile, OpenFails, CopyRecords, CloseFile, ec2Vars, localVars
<1>2. Ids(<<>>) = {} /\ AtHome(<<>>)
  BY DEF Ids, AtHome
<1>3. \A u \in Thread : buf'[u] \in {<<>>, m_volumes, buf[u]}
  BY DEF WriteStep, OpenFile, OpenFails, CopyRecords, CloseFile, TypeInv, TypeOK
<1>4. volumeFile' \in {<<>>, volumeFile, buf[t]}
  BY DEF WriteStep, OpenFile, OpenFails, CopyRecords, CloseFile
<1>5. HomeInv'
  BY <1>1, <1>2, <1>3, <1>4 DEF HomeInv
<1>6. \A u \in Thread : Ids(buf'[u]) \subseteq Listed
  BY <1>2, <1>3 DEF Listed
<1>7. Ids(volumeFile') \subseteq Listed
  BY <1>2, <1>4 DEF Listed
<1>8. Listed' \subseteq Listed
  BY <1>1, <1>6, <1>7 DEF Listed
<1> QED BY <1>1, <1>5, <1>8 DEF Unnoticed, NothingAdded, NothingMounted, CreatorsKept

\* Volumes::release, and the delete that may follow.
LEMMA ReleaseUnnoticed ==
  ASSUME TypeInv, HomeInv, NEW t \in Taker, Release(t) \/ DeleteTaken(t)
  PROVE  Unnoticed
<1>1. t \in Worker /\ t \notin Creator
  BY ThreadAssumption DEF Worker, Taker
<1>2. UNCHANGED <<volumeFile, buf>>
  BY DEF Release, GetIdleVolume, NoIdleVolume, ReadRecord, MarkTaken, Umount, DetachIssue, DetachRefused,
     DetachDone, DetachTimeout, MarkUndetached, DeleteTaken, fileVars
<1>3. \/ m_volumes' = m_volumes
      \/ \E st \in Status \ {"idle"}, at \in Client \cup {NoPlace} :
           m_volumes' = Updated(m_volumes, vid[t], st, at)
  BY DEF Release, GetIdleVolume, NoIdleVolume, ReadRecord, MarkTaken, Umount, DetachIssue, DetachRefused,
     DetachDone, DetachTimeout, MarkUndetached, DeleteTaken, UpdatesStatus, Stores, listVars, Status
<1>4. NothingAdded
  BY <1>2, <1>3, ListStored
<1>5. \/ pc' = pc \/ \E q : pc' = [pc EXCEPT ![t] = q]
  BY DEF Release, GetIdleVolume, NoIdleVolume, ReadRecord, MarkTaken, Umount, DetachIssue, DetachRefused,
     DetachDone, DetachTimeout, MarkUndetached, DeleteTaken, Moves
<1>6. vid' = vid \/ \E x : vid' = [vid EXCEPT ![t] = x]
  BY DEF Release, GetIdleVolume, NoIdleVolume, ReadRecord, MarkTaken, Umount, DetachIssue, DetachRefused,
     DetachDone, DetachTimeout, MarkUndetached, DeleteTaken, localVars
<1>7. CreatorsKept
  BY <1>1, <1>5, <1>6, OtherMoves
<1>8. /\ ebs' = ebs \/ \E x \in {"detaching", "deleted"} : ebs' = [ebs EXCEPT ![vid[t]] = x]
      /\ mountedAt' = mountedAt \/ mountedAt' = [mountedAt EXCEPT ![vid[t]] = "nowhere"]
  BY DEF Release, GetIdleVolume, NoIdleVolume, ReadRecord, MarkTaken, Umount, DetachIssue, DetachRefused,
     DetachDone, DetachTimeout, MarkUndetached, DeleteTaken, Detaches, Deletes, ec2Vars
<1>9. NothingMounted
  BY <1>8, OneVolume DEF Here
<1> QED BY <1>4, <1>7, <1>9 DEF Unnoticed

\* clientDiskAquire_handler and clientDiskRelease_handler, and the drop of a record.
LEMMA AquireUnnoticed ==
  ASSUME TypeInv, HomeInv, NEW t \in Client \cup Remover \cup Releaser,
         (t \in Client /\ Aquire(t)) \/ CheckReleased(t) \/ DropRecord(t)
  PROVE  Unnoticed
<1>1. t \in Worker /\ t \notin Creator
  BY ThreadAssumption DEF Worker, Taker
<1>2. UNCHANGED <<volumeFile, buf, ebs, mountedAt, vid>>
  BY DEF Aquire, SendVolume, AckOK, AckFailed, ConnectionLost, CheckReleased, DropRecord, fileVars, ec2Vars,
     localVars
<1>3. \/ m_volumes' = m_volumes
      \/ m_volumes' = Erased(m_volumes, vid[t])
      \/ \E st \in Status \ {"idle"}, at \in Client \cup {NoPlace} :
           m_volumes' = Updated(m_volumes, vid[t], st, at)
  BY DEF Aquire, SendVolume, AckOK, AckFailed, ConnectionLost, CheckReleased, DropRecord, UpdatesStatus,
     Stores, listVars, Status
<1>4. NothingAdded
  BY <1>2, <1>3, ListStored
<1>5. \E q : pc' = [pc EXCEPT ![t] = q]
  BY DEF Aquire, SendVolume, AckOK, AckFailed, ConnectionLost, CheckReleased, DropRecord, Moves
<1>6. CreatorsKept
  BY <1>1, <1>2, <1>5, OtherMoves
<1> QED BY <1>2, <1>4, <1>6 DEF Unnoticed, NothingMounted

\* The clients and EC2.
LEMMA ClientUnnoticed ==
  ASSUME TypeInv, HomeInv,
         (\E c \in Client : ClientStep(c)) \/ (\E v \in Volume : EbsDetached(v))
  PROVE  Unnoticed
<1>1. NothingAdded
  <2>1. UNCHANGED <<m_volumes, volumeFile, buf>>
    BY DEF ClientStep, ClientAsks, ClientTurnedAway, ClientReceives, ClientAttaches, ClientAttachFails,
       ClientMounts, ClientMountFails, ClientDiscards, ClientAnswers, ClientDies, ClientDetaches,
       ClientDeletes, ClientReleaseFails, NotifyLost, ClientNotifies, EbsDetached, listVars, fileVars
  <2> QED BY <2>1, ListsLeft
<1>2. Here \notin Client /\ "absent" \notin Client
  BY InstanceAssumption DEF Here
<1>3. ASSUME NEW c \in Client, ClientStep(c) PROVE NothingMounted /\ CreatorsKept
  <2>1. ebs' = ebs \/ \E x \in {"detaching", "deleted", c} : ebs' = [ebs EXCEPT ![reply[c]] = x]
    BY <1>3 DEF ClientStep, ClientAsks, ClientTurnedAway, ClientReceives, ClientAttaches, ClientAttachFails,
       ClientMounts, ClientMountFails, ClientDiscards, ClientAnswers, ClientDies, ClientDetaches,
       ClientDeletes, ClientReleaseFails, NotifyLost, ClientNotifies, Detaches, Deletes, ec2Vars
  <2>2. mountedAt' = mountedAt \/ \E y \in {"nowhere", c} : mountedAt' = [mountedAt EXCEPT ![reply[c]] = y]
    BY <1>3 DEF ClientStep, ClientAsks, ClientTurnedAway, ClientReceives, ClientAttaches, ClientAttachFails,
       ClientMounts, ClientMountFails, ClientDiscards, ClientAnswers, ClientDies, ClientDetaches,
       ClientDeletes, ClientReleaseFails, NotifyLost, ClientNotifies, Deletes, ec2Vars
  <2>3. NothingMounted
    BY <1>2, <2>1, <2>2, OneVolume DEF Here
  <2>4. \E t \in {c} \cup Releaser : \E q :
          /\ pc' = pc \/ pc' = [pc EXCEPT ![t] = q]
          /\ vid' = vid \/ (t \in Releaser /\ \E x : vid' = [vid EXCEPT ![t] = x])
    BY <1>3 DEF ClientStep, ClientAsks, ClientTurnedAway, ClientReceives, ClientAttaches, ClientAttachFails,
       ClientMounts, ClientMountFails, ClientDiscards, ClientAnswers, ClientDies, ClientDetaches,
       ClientDeletes, ClientReleaseFails, NotifyLost, ClientNotifies, localVars
  <2>5. CreatorsKept
    <3>1. PICK t \in {c} \cup Releaser : \E q :
            /\ pc' = pc \/ pc' = [pc EXCEPT ![t] = q]
            /\ vid' = vid \/ (t \in Releaser /\ \E x : vid' = [vid EXCEPT ![t] = x])
      BY <2>4
    <3>2. t \in Worker /\ t \notin Creator
      BY ThreadAssumption DEF Worker, Taker
    <3> QED BY <3>1, <3>2, OtherMoves
  <2> QED BY <2>3, <2>5
<1>4. ASSUME NEW v \in Volume, EbsDetached(v) PROVE NothingMounted /\ CreatorsKept
  <2>1. /\ ebs' = [ebs EXCEPT ![v] = "available"] /\ mountedAt' = [mountedAt EXCEPT ![v] = "nowhere"]
        /\ UNCHANGED <<pc, vid>>
    BY <1>4 DEF EbsDetached, localVars
  <2> QED BY <2>1, OneVolume DEF CreatorsKept, Here
<1> QED BY <1>1, <1>3, <1>4 DEF Unnoticed

\* Volumes::acquire, but for the creation of its volume and its push_back: a mount
\* here is that of the creator's own volume.
LEMMA CreateUnnoticed ==
  ASSUME TypeInv, HomeInv, NEW t \in Creator,
         Create(t) \/ SpawnCreator(t), ~CreateVolume(t), ~AddVolume(t)
  PROVE  Unnoticed
<1>1. t \in Worker
  BY DEF Worker
<1>2. NothingAdded
  <2>1. UNCHANGED <<m_volumes, volumeFile, buf>>
    BY DEF Create, SpawnCreator, LoadCounter, StoreCounter, CreateFails, CreateMisread, AttachDone,
       AttachFails, DeleteUnattached, MountDone, MountGivenUp, listVars, fileVars
  <2> QED BY <2>1, ListsLeft
<1>3. CreatorsKept
  <2>1. \E q : pc' = [pc EXCEPT ![t] = q]
    BY DEF Create, SpawnCreator, LoadCounter, StoreCounter, CreateFails, CreateMisread, AttachDone,
       AttachFails, DeleteUnattached, MountDone, MountGivenUp, Moves
  <2>2. vid' = vid \/ vid' = [vid EXCEPT ![t] = NoVolume]
    BY DEF Create, SpawnCreator, LoadCounter, StoreCounter, CreateFails, CreateMisread, AttachDone,
       AttachFails, DeleteUnattached, MountDone, MountGivenUp, localVars
  <2>3. PICK q : pc' = [pc EXCEPT ![t] = q]
    BY <2>1
  <2> QED BY <1>1, <2>2, <2>3, OtherMoves
<1>4. NothingMounted
  <2>1. /\ ebs' = ebs \/ \E x \in {"detaching", "deleted", Here} : ebs' = [ebs EXCEPT ![vid[t]] = x]
        /\ mountedAt' = mountedAt \/ mountedAt' = [mountedAt EXCEPT ![vid[t]] = Here]
    BY DEF Create, SpawnCreator, LoadCounter, StoreCounter, CreateFails, CreateMisread, AttachDone,
       AttachFails, DeleteUnattached, MountDone, MountGivenUp, Detaches, Deletes, ec2Vars
  <2>2. \A w \in Volume : ebs[w] # "absent" => ebs'[w] # "absent"
    BY <2>1 DEF TypeInv, TypeOK, Here
  <2>3. \A w \in Volume : mountedAt'[w] = mountedAt[w] \/ w = vid[t]
    BY <2>1 DEF TypeInv, TypeOK
  <2> QED BY <2>2, <2>3 DEF NothingMounted
<1> QED BY <1>2, <1>3, <1>4 DEF Unnoticed

\* main, but for the load: start-up mounts volumes before the loop starts.
LEMMA MainUnnoticed ==
  ASSUME TypeInv, HomeInv,
         \/ \E t \in Remover : SpawnRemover(t)
         \/ RemountEnds
         \/ \E i : RemountKeeps(i) \/ RemountMounts(i) \/ RemountDrops(i)
  PROVE  Unnoticed
<1>1. Main \in Thread /\ Main \notin Worker
  BY ThreadAssumption DEF Thread
<1>2. ASSUME NEW t \in Remover, SpawnRemover(t) PROVE Unnoticed
  <2>1. UNCHANGED <<m_volumes, volumeFile, buf, ebs, mountedAt, vid>> /\ \E q : pc' = [pc EXCEPT ![t] = q]
    BY <1>2 DEF SpawnRemover, listVars, fileVars, ec2Vars, localVars
  <2>2. t \in Worker
    BY DEF Worker, Taker
  <2>3. CreatorsKept
    BY <2>1, <2>2, OtherMoves
  <2> QED BY <2>1, <2>3, ListsLeft DEF Unnoticed, NothingMounted
<1>3. ASSUME pc[Main] = "remount", pc' = [pc EXCEPT ![Main] = "remount"] \/ pc' = [pc EXCEPT ![Main] = "loop"],
             UNCHANGED <<volumeFile, buf, vid>>,
             NEW v, m_volumes' = m_volumes \/ m_volumes' = Erased(m_volumes, v),
             ebs' = ebs \/ ebs' = [ebs EXCEPT ![v] = "detaching"]
      PROVE  Unnoticed
  <2>1. NothingAdded
    BY <1>3, ListStored
  <2>2. NothingMounted
    BY <1>3 DEF NothingMounted, TypeInv, TypeOK
  <2>3. CreatorsKept
    BY <1>1, <1>3 DEF CreatorsKept, TypeInv, TypeOK
  <2> QED BY <2>1, <2>2, <2>3 DEF Unnoticed
<1>4. CASE RemountEnds
  BY <1>3, <1>4 DEF RemountEnds, Moves, listVars, fileVars, ec2Vars
<1>5. ASSUME NEW i, RemountKeeps(i) \/ RemountMounts(i) \/ RemountDrops(i) PROVE Unnoticed
  BY <1>3, <1>5 DEF RemountKeeps, RemountMounts, RemountDrops, Remounts, Moves, Stores, Detaches, listVars,
     fileVars, ec2Vars
<1> QED BY <1>2, <1>4, <1>5

\* The pool's steps are these, and four that a pass may notice.
LEMMA PoolUnnoticed ==
  ASSUME TypeInv, HomeInv, Next, ~LoadFile, ~Crash,
         \A t \in Creator : ~CreateVolume(t) /\ ~AddVolume(t)
  PROVE  Unnoticed
BY WriteUnnoticed, ReleaseUnnoticed, AquireUnnoticed, ClientUnnoticed, CreateUnnoticed, MainUnnoticed
DEF Next, StartUp

-----------------------------------------------------------------------------
(* PassInv is inductive.                                                   *)

\* What is listed or copied are volumes, and what is idle is listed.
LEMMA ListedVolumes ==
  ASSUME TypeInv, CopyTyped
  PROVE  /\ Idle(m_volumes) \subseteq Ids(m_volumes) /\ Ids(m_volumes) \subseteq Listed
         /\ Listed \subseteq Volume
         /\ \A p \in Pass : Ids(copy[p]) \subseteq Volume
<1>1. \A s \in Seq(Record) : Idle(s) \subseteq Ids(s) /\ Ids(s) \subseteq Volume
  <2> SUFFICES ASSUME NEW s \in Seq(Record) PROVE Idle(s) \subseteq Ids(s) /\ Ids(s) \subseteq Volume
    OBVIOUS
  <2>1. \A i \in DOMAIN s : s[i] \in Record
    OBVIOUS
  <2> QED BY <2>1 DEF Idle, IdleAt, Ids, Record
<1> QED BY <1>1 DEF TypeInv, TypeOK, CopyTyped, Listed

\* A pass that runs has no volume of a creator in its copy, so what is mounted
\* meanwhile is none of its volumes.
LEMMA UnnoticedPass ==
  ASSUME TypeInv, PassInv, Unnoticed, UNCHANGED syncVars
  PROVE  PassInv'
<1> USE DEF PassInv
<1>1. UNCHANGED <<copy, next, written, spc>>
  BY DEF syncVars, passVars
<1>2. HomeInv' /\ CopyTyped'
  BY <1>1 DEF Unnoticed, NothingAdded, CopyTyped
<1>3. KnownInv'
  BY <1>1, ListedVolumes DEF KnownInv, Unnoticed, NothingAdded, NothingMounted, CreatorsKept,
     TypeInv, TypeOK, Thread, Worker
<1>4. OwnInv'
  BY <1>1 DEF OwnInv, Unnoticed, NothingAdded, CreatorsKept
<1>5. LoopInv'
  BY <1>1 DEF LoopInv, Unnoticed, CreatorsKept
<1>6. ASSUME NEW p \in Pass, spc[p] \in {"loop", "date"}, NEW v \in Ids(copy[p]) \cap Idle(m_volumes')
      PROVE  Reached(p, v)'
  <2>1. Reached(p, v)
    BY <1>6 DEF ReachInv, Unnoticed, NothingAdded
  <2>2. v \in Volume /\ v # NoVolume
    BY <1>6, ListedVolumes, VolumeAssumption
  <2>3. pc[Main] = "loop" /\ \A t \in Creator : vid[t] # v
    BY <1>6, <2>2 DEF LoopInv, Running, OwnInv
  <2>4. mountedAt'[v] = Here => mountedAt[v] = Here
    BY <2>2, <2>3 DEF Unnoticed, NothingMounted
  <2> QED BY <1>1, <2>1, <2>4 DEF Reached
<1>7. ReachInv'
  BY <1>1, <1>6 DEF ReachInv
<1> QED BY <1>2, <1>3, <1>4, <1>5, <1>7

\* A new volume is one that no list and no copy knows.
LEMMA CreateVolumePass ==
  ASSUME TypeInv, DownInv, PassInv, NEW t \in Creator, CreateVolume(t), UNCHANGED syncVars
  PROVE  PassInv'
<1> USE DEF PassInv
<1>1. t \in Thread /\ t \in Worker /\ t # Main
  BY ThreadAssumption DEF Thread, Worker
<1>2. PICK v \in Volume : /\ ebs[v] = "absent" /\ ebs' = [ebs EXCEPT ![v] = "available"]
                          /\ vid' = [vid EXCEPT ![t] = v]
  BY DEF CreateVolume
<1>3. /\ UNCHANGED <<m_volumes, volumeFile, buf, mountedAt, copy, next, written, spc>>
      /\ pc[t] = "create" /\ pc' = [pc EXCEPT ![t] = "attach"]
  BY DEF CreateVolume, Moves, syncVars, passVars, listVars, fileVars
<1>4. pc'[Main] = pc[Main] /\ pc[Main] # "down"
  <2>1. pc'[Main] = pc[Main]
    BY <1>1, <1>3
  <2>2. pc[t] \notin {"off", "done"}
    BY <1>3
  <2> QED BY <1>1, <2>1, <2>2 DEF DownInv
<1>5. vid'[t] = v /\ \A u \in Creator \ {t} : vid'[u] = vid[u]
  BY <1>1, <1>2 DEF TypeInv, TypeOK
<1>6. ebs'[v] # "absent" /\ \A w \in Volume : ebs[w] # "absent" => ebs'[w] # "absent"
  BY <1>2 DEF TypeInv, TypeOK
<1>7. /\ v \notin Ids(m_volumes) /\ v # NoVolume
      /\ \A p \in Pass : v \notin Ids(copy[p])
      /\ \A u \in Creator : vid[u] # v
  BY <1>2, ListedVolumes, VolumeAssumption DEF KnownInv
<1>8. HomeInv' /\ CopyTyped' /\ LoopInv' /\ ReachInv'
  BY <1>3, <1>4 DEF HomeInv, CopyTyped, LoopInv, ReachInv, Reached
<1>9. KnownInv'
  <2>1. \A w \in Listed' : ebs'[w] # "absent"
    BY <1>3, <1>6, ListedVolumes DEF KnownInv, Listed
  <2>2. \A p \in Pass : \A w \in Ids(copy'[p]) : ebs'[w] # "absent"
    BY <1>3, <1>6, ListedVolumes DEF KnownInv
  <2>3. \A u \in Creator : vid'[u] # NoVolume => ebs'[vid'[u]] # "absent"
    <3>1. \A u \in Creator : vid[u] \in Volume \cup {NoVolume}
      BY DEF TypeInv, TypeOK, Thread, Worker
    <3> QED BY <1>5, <1>6, <3>1 DEF KnownInv
  <2> QED BY <2>1, <2>2, <2>3 DEF KnownInv
<1>10. OwnInv'
  BY <1>3, <1>4, <1>5, <1>7 DEF OwnInv
<1> QED BY <1>8, <1>9, <1>10

\* What a creator adds to the list is in no copy.
LEMMA AddVolumePass ==
  ASSUME TypeInv, DownInv, PassInv, NEW t \in Creator, AddVolume(t), UNCHANGED syncVars
  PROVE  PassInv'
<1> USE DEF PassInv
<1>1. t \in Thread /\ t \in Worker /\ t # Main
  BY ThreadAssumption DEF Thread, Worker
<1>2. /\ m_volumes' = Append(m_volumes, IdleRecord(vid[t])) /\ vid' = [vid EXCEPT ![t] = NoVolume]
      /\ UNCHANGED <<volumeFile, buf, ebs, mountedAt, copy, next, written, spc>>
      /\ pc[t] = "add" /\ pc' = [pc EXCEPT ![t] = "dec"]
  BY DEF AddVolume, Moves, Stores, syncVars, passVars, fileVars, ec2Vars
<1>3. vid[t] \in Volume /\ vid[t] # NoVolume /\ m_volumes \in Seq(Record)
  BY <1>1, <1>2 DEF TypeInv, TypeOK
<1>4. Ids(m_volumes') = Ids(m_volumes) \cup {vid[t]} /\ Idle(m_volumes') = Idle(m_volumes) \cup {vid[t]}
  BY <1>2, <1>3, AppendedList
<1>5. pc'[Main] = pc[Main] /\ pc[Main] # "down"
  <2>1. pc'[Main] = pc[Main]
    BY <1>1, <1>2
  <2>2. pc[t] \notin {"off", "done"}
    BY <1>2
  <2> QED BY <1>1, <2>1, <2>2 DEF DownInv
<1>6. vid'[t] = NoVolume /\ \A u \in Creator \ {t} : vid'[u] = vid[u]
  BY <1>1, <1>2 DEF TypeInv, TypeOK
<1>7. HomeInv'
  BY <1>2, <1>3, StoredHome DEF HomeInv
<1>8. KnownInv'
  <2>1. Listed' \subseteq Listed \cup {vid[t]}
    BY <1>2, <1>4 DEF Listed
  <2> QED BY <1>2, <1>3, <1>6, <2>1 DEF KnownInv
<1>9. OwnInv'
  BY <1>2, <1>3, <1>4, <1>5, <1>6 DEF OwnInv
<1>10. ReachInv'
  <2>1. \A p \in Pass : Ids(copy[p]) \cap Idle(m_volumes') \subseteq Idle(m_volumes)
    BY <1>3, <1>4 DEF OwnInv
  <2> QED BY <1>2, <2>1 DEF ReachInv, Reached
<1>11. CopyTyped' /\ LoopInv'
  BY <1>2, <1>5 DEF CopyTyped, LoopInv
<1> QED BY <1>7, <1>8, <1>9, <1>10, <1>11

\* A stop ends the passes and the creators; a start lists what the file holds.
LEMMA RestartPass ==
  ASSUME TypeInv, PassInv, CrashBoth \/ LoadBoth
  PROVE  PassInv'
<1> USE DEF PassInv
<1>1. Main \in Thread /\ Creator \subseteq Thread
  BY DEF Thread, Worker
<1>2. Ids(<<>>) = {} /\ AtHome(<<>>)
  BY DEF Ids, AtHome
<1>3. CASE CrashBoth
  <2>1. /\ m_volumes' = <<>> /\ buf' = [t \in Thread |-> <<>>] /\ vid' = [t \in Thread |-> NoVolume]
        /\ UNCHANGED <<volumeFile, ebs>>
    BY <1>3 DEF CrashBoth, Crash
  <2>2. /\ copy' = [p \in Pass |-> <<>>] /\ next' = [p \in Pass |-> 0] /\ written' = [p \in Pass |-> {}]
        /\ \A p \in Pass : spc'[p] \in {"off", "done"}
    BY <1>3 DEF CrashBoth
  <2>3. HomeInv' /\ CopyTyped'
    BY <1>2, <2>1, <2>2 DEF HomeInv, CopyTyped
  <2>4. KnownInv'
    <3>1. Listed' \subseteq Listed
      BY <1>2, <2>1 DEF Listed
    <3> QED BY <1>1, <1>2, <2>1, <2>2, <3>1 DEF KnownInv
  <2>5. OwnInv' /\ LoopInv' /\ ReachInv'
    BY <1>1, <2>1, <2>2 DEF OwnInv, LoopInv, Running, ReachInv
  <2> QED BY <2>3, <2>4, <2>5
<1>4. CASE LoadBoth
  <2>1. /\ m_volumes' = volumeFile /\ UNCHANGED <<volumeFile, buf, ebs, vid, copy, next, written, spc>>
        /\ pc[Main] = "down" /\ pc' = [pc EXCEPT ![Main] = "remount"]
    BY <1>4 DEF LoadBoth, LoadFile, passVars, ec2Vars
  <2>2. pc'[Main] = "remount" /\ \A t \in Creator : vid[t] = NoVolume
    BY <1>1, <2>1 DEF OwnInv, TypeInv, TypeOK
  <2>3. \A p \in Pass : spc[p] \notin Running \cup {"decided"}
    BY <2>1 DEF LoopInv
  <2>4. HomeInv' /\ CopyTyped'
    BY <2>1 DEF HomeInv, CopyTyped
  <2>5. KnownInv'
    <3>1. Listed' \subseteq Listed
      BY <2>1 DEF Listed
    <3> QED BY <2>1, <3>1 DEF KnownInv
  <2>6. OwnInv' /\ LoopInv' /\ ReachInv'
    BY <2>1, <2>2, <2>3 DEF OwnInv, LoopInv, Running, ReachInv
  <2> QED BY <2>4, <2>5, <2>6
<1> QED BY <1>3, <1>4

\* A step of the passes leaves the pool alone.
LEMMA PoolLeft ==
  ASSUME PassInv, UNCHANGED vars
  PROVE  HomeInv' /\ Ids(m_volumes') = Ids(m_volumes) /\ Idle(m_volumes') = Idle(m_volumes) /\ Listed' = Listed
BY DEF PassInv, HomeInv, Listed, vars, listVars, fileVars

\* A step of a pass, or the clock, that leaves the copies alone and brings no pass
\* into or out of its loop.
LEMMA CopiesLeft ==
  ASSUME PassInv, UNCHANGED vars, UNCHANGED passVars, LoopInv',
         \A p \in Pass : spc'[p] \in {"loop", "date"} => spc'[p] = spc[p]
  PROVE  PassInv'
<1>1. UNCHANGED <<copy, next, written, m_volumes, mountedAt, ebs, vid, pc>>
  BY DEF passVars, vars, listVars, ec2Vars, localVars
<1>2. KnownInv' /\ OwnInv' /\ CopyTyped' /\ ReachInv'
  BY <1>1, PoolLeft DEF PassInv, KnownInv, OwnInv, CopyTyped, ReachInv, Reached
<1> QED BY <1>2, PoolLeft DEF PassInv

\* Main and the dispatcher start passes while main is in its loop.
LEMMA StartPass ==
  ASSUME DateInv, PassInv, NEW p \in Pass, MainDecides(p) \/ MainStarts(p) \/ RequestSync(p)
  PROVE  PassInv'
<1>1. /\ UNCHANGED vars /\ UNCHANGED passVars /\ UNCHANGED pc
      /\ \E q \in {"decided", "begin"} : spc' = [spc EXCEPT ![p] = q]
      /\ pc[Main] = "loop"
  BY DEF PassInv, LoopInv, MainDecides, MainStarts, RequestSync, Passes, vars
<1>2. LoopInv' /\ \A r \in Pass : spc'[r] \in {"loop", "date"} => spc'[r] = spc[r]
  BY <1>1 DEF DateInv, SyncTyped, LoopInv
<1> QED BY <1>1, <1>2, CopiesLeft

\* The copy is that of the list: what is idle in it is to be found here.
LEMMA CopyListPass ==
  ASSUME TypeInv, DateInv, PassInv, NEW p \in Pass, CopyList(p)
  PROVE  PassInv'
<1> USE DEF PassInv
<1>1. /\ UNCHANGED vars /\ copy' = [copy EXCEPT ![p] = m_volumes] /\ next' = [next EXCEPT ![p] = 1]
      /\ written' = written /\ spc[p] = "begin" /\ spc' = [spc EXCEPT ![p] = "loop"]
  BY DEF CopyList, Passes
<1>2. UNCHANGED <<m_volumes, mountedAt, ebs, vid, pc>>
  BY <1>1 DEF vars, listVars, ec2Vars, localVars
<1>3. copy'[p] = m_volumes /\ next'[p] = 1 /\ \A r \in Pass \ {p} : copy'[r] = copy[r] /\ next'[r] = next[r]
  BY <1>1 DEF CopyTyped
<1>4. spc'[p] = "loop" /\ \A r \in Pass \ {p} : spc'[r] = spc[r]
  BY <1>1 DEF DateInv, SyncTyped
<1>5. CopyTyped' /\ LoopInv'
  BY <1>1, <1>2, <1>4 DEF CopyTyped, TypeInv, TypeOK, LoopInv, Running
<1>6. KnownInv' /\ OwnInv'
  BY <1>2, <1>3, PoolLeft, <1>1, ListedVolumes DEF KnownInv, OwnInv
<1>7. \A v \in Idle(m_volumes) : Reached(p, v)'
  <2> SUFFICES ASSUME NEW v \in Idle(m_volumes) PROVE Reached(p, v)'
    OBVIOUS
  <2>1. PICK i \in DOMAIN m_volumes : m_volumes[i].id = v /\ m_volumes[i].status = "idle"
    BY DEF Idle, IdleAt
  <2>2. m_volumes[i].attachedTo = Here /\ ~(i < 1)
    BY <2>1 DEF HomeInv, AtHome, TypeInv, TypeOK
  <2> QED BY <1>3, <2>1, <2>2 DEF Reached
<1>8. ReachInv'
  BY <1>1, <1>2, <1>3, <1>4, <1>7 DEF ReachInv, Reached
<1> QED BY <1>1, <1>5, <1>6, <1>8, PoolLeft

\* A volume that is mounted where its record says is written to.
LEMMA SynchronizePass ==
  ASSUME TypeInv, DateInv, PassInv, NEW p \in Pass, Synchronize(p)
  PROVE  PassInv'
<1> USE DEF PassInv
<1> DEFINE r == copy[p][next[p]]
<1>1. /\ UNCHANGED vars /\ copy' = copy /\ next' = [next EXCEPT ![p] = @ + 1]
      /\ written' = [written EXCEPT ![p] = IF Leads(r) THEN @ \cup {r.id} ELSE @]
      /\ next[p] \in DOMAIN copy[p] /\ spc[p] = "loop" /\ spc' = [spc EXCEPT ![p] = "loop"]
  BY DEF Synchronize, Passes
<1>2. UNCHANGED <<m_volumes, mountedAt, ebs, vid, pc>> /\ spc' = spc
  BY <1>1 DEF vars, listVars, ec2Vars, localVars, DateInv, SyncTyped
<1>3. /\ next'[p] = next[p] + 1 /\ written'[p] = IF Leads(r) THEN written[p] \cup {r.id} ELSE written[p]
      /\ \A q \in Pass \ {p} : next'[q] = next[q] /\ written'[q] = written[q]
      /\ next[p] \in Nat /\ copy[p] \in Seq(Record)
  BY <1>1 DEF CopyTyped
<1>4. r \in Record
  BY <1>1, <1>3
<1>5. CopyTyped'
  <2>1. r.id \in Volume
    BY <1>4 DEF Record
  <2> QED BY <1>1, <2>1 DEF CopyTyped
<1>6. KnownInv' /\ OwnInv' /\ LoopInv'
  BY <1>1, <1>2, PoolLeft DEF KnownInv, OwnInv, LoopInv
<1>7. ASSUME NEW v \in Ids(copy[p]) \cap Idle(m_volumes) PROVE Reached(p, v)'
  <2>1. PICK i \in DOMAIN copy[p] :
          /\ copy[p][i].id = v /\ copy[p][i].attachedTo = Here
          /\ i < next[p] /\ mountedAt[v] = Here => v \in written[p]
    BY <1>1, <1>7 DEF ReachInv, Reached
  <2>2. i < next[p] + 1 => i < next[p] \/ i = next[p]
    BY <1>3, <2>1
  <2>3. i < next'[p] /\ mountedAt[v] = Here => v \in written'[p]
    BY <1>3, <2>1, <2>2 DEF Leads
  <2> QED BY <1>1, <1>2, <2>1, <2>3 DEF Reached
<1>8. ReachInv'
  BY <1>1, <1>2, <1>3, <1>7 DEF ReachInv, Reached
<1> QED BY <1>1, <1>5, <1>6, <1>8, PoolLeft

\* The loop ends behind the last record.
LEMMA EndLoopPass ==
  ASSUME TypeInv, DateInv, PassInv, NEW p \in Pass, EndLoop(p)
  PROVE  PassInv'
<1> USE DEF PassInv
<1>1. /\ UNCHANGED vars /\ UNCHANGED <<copy, next, written>> /\ next[p] \notin DOMAIN copy[p]
      /\ spc[p] = "loop" /\ spc' = [spc EXCEPT ![p] = "date"]
  BY DEF EndLoop, Passes, passVars
<1>2. UNCHANGED <<m_volumes, mountedAt, ebs, vid, pc>>
  BY <1>1 DEF vars, listVars, ec2Vars, localVars
<1>3. spc'[p] = "date" /\ \A q \in Pass \ {p} : spc'[q] = spc[q]
  BY <1>1 DEF DateInv, SyncTyped
<1>4. \A i \in DOMAIN copy[p] : i < next[p]
  <2>1. copy[p] \in Seq(Record) /\ next[p] \in Nat /\ next[p] > 0
    BY <1>1 DEF CopyTyped, ReachInv
  <2> QED BY <1>1, <2>1
<1>5. CopyTyped' /\ KnownInv' /\ OwnInv'
  BY <1>1, <1>2, PoolLeft DEF CopyTyped, KnownInv, OwnInv
<1>6. LoopInv'
  BY <1>1, <1>2, <1>3 DEF LoopInv, Running
<1>7. ReachInv'
  BY <1>1, <1>2, <1>3, <1>4 DEF ReachInv, Reached
<1> QED BY <1>1, <1>5, <1>6, <1>7, PoolLeft

\* The time is taken and the copy dropped.
LEMMA SetTimePass ==
  ASSUME TypeInv, DateInv, PassInv, NEW p \in Pass, SetTime(p)
  PROVE  PassInv'
<1> USE DEF PassInv
<1>1. /\ UNCHANGED vars /\ copy' = [copy EXCEPT ![p] = <<>>] /\ next' = [next EXCEPT ![p] = 0]
      /\ written' = [written EXCEPT ![p] = {}]
      /\ spc[p] = "date" /\ spc' = [spc EXCEPT ![p] = "open"]
  BY DEF SetTime, Passes
<1>2. UNCHANGED <<m_volumes, mountedAt, ebs, vid, pc>>
  BY <1>1 DEF vars, listVars, ec2Vars, localVars
<1>3. /\ spc'[p] = "open" /\ copy'[p] = <<>> /\ Ids(copy'[p]) = {}
      /\ \A q \in Pass \ {p} : /\ spc'[q] = spc[q] /\ copy'[q] = copy[q]
                               /\ next'[q] = next[q] /\ written'[q] = written[q]
  BY <1>1 DEF DateInv, SyncTyped, CopyTyped, Ids
<1>4. CopyTyped'
  BY <1>1 DEF CopyTyped
<1>5. KnownInv' /\ OwnInv'
  BY <1>1, <1>2, <1>3, PoolLeft DEF KnownInv, OwnInv
<1>6. LoopInv'
  BY <1>1, <1>2, <1>3 DEF LoopInv, Running
<1>7. ReachInv'
  BY <1>2, <1>3 DEF ReachInv, Reached
<1> QED BY <1>1, <1>4, <1>5, <1>6, <1>7, PoolLeft

LEMMA HandlePass ==
  ASSUME TypeInv, DateInv, PassInv, NEW p \in Pass, Handle(p)
  PROVE  PassInv'
<1>1. CASE OpenDate(p) \/ PutDate(p) \/ CloseDate(p) \/ ClearFlag(p)
  <2>1. /\ UNCHANGED vars /\ UNCHANGED passVars /\ UNCHANGED pc
        /\ spc[p] \in Running /\ \E q \in {"put", "close", "clear", "done"} : spc' = [spc EXCEPT ![p] = q]
    BY <1>1 DEF OpenDate, PutDate, CloseDate, ClearFlag, Passes, vars, Running
  <2>2. LoopInv' /\ \A q \in Pass : spc'[q] \in {"loop", "date"} => spc'[q] = spc[q]
    BY <2>1 DEF DateInv, SyncTyped, PassInv, LoopInv
  <2> QED BY <2>1, <2>2, CopiesLeft
<1> QED BY <1>1, CopyListPass, SynchronizePass, EndLoopPass, SetTimePass DEF Handle

LEMMA InitPass == SyncInit => PassInv
<1> SUFFICES ASSUME SyncInit PROVE PassInv
  OBVIOUS
<1>1. /\ \A t \in Thread : vid[t] = NoVolume /\ buf[t] = <<>>
      /\ volumeFile = m_volumes /\ m_volumes = [i \in DOMAIN Loaded |-> IdleRecord(Loaded[i])]
      /\ ebs = [v \in Volume |-> IF \E i \in DOMAIN Loaded : Loaded[i] = v THEN Here ELSE "absent"]
  BY DEF SyncInit, Init
<1>2. \A p \in Pass : spc[p] = "off" /\ copy[p] = <<>>
  BY DEF SyncInit
<1>3. Ids(<<>>) = {} /\ AtHome(<<>>) /\ Creator \subseteq Thread
  BY DEF Ids, AtHome, Thread, Worker
<1>4. \A i \in DOMAIN Loaded : Loaded[i] \in Volume
  BY LoadedAssumption
<1>5. HomeInv
  BY <1>1, <1>3 DEF HomeInv, AtHome, IdleRecord
<1>6. CopyTyped
  BY DEF SyncInit, CopyTyped
<1>7. KnownInv
  <2>1. \A v \in Ids(m_volumes) : v \in Volume /\ ebs[v] = Here
    BY <1>1, <1>4 DEF Ids, IdleRecord
  <2>2. Listed = Ids(m_volumes)
    BY <1>1, <1>3 DEF Listed
  <2> QED BY <1>1, <1>2, <1>3, <2>1, <2>2 DEF KnownInv, Here
<1> QED BY <1>1, <1>2, <1>3, <1>5, <1>6, <1>7 DEF PassInv, OwnInv, LoopInv, Running, ReachInv

\* A pass, the main loop and the clock change nothing of the pool's: what each
\* step does to the pool is a step of VolumePool or none.
LEMMA StepOfPool == [SyncNext]_allVars => [Next]_vars
BY DEF SyncNext, PoolStep, CrashBoth, LoadBoth, Tick, MainDecides, MainStarts, RequestSync, Handle,
   CopyList, Synchronize, EndLoop, SetTime, OpenDate, PutDate, CloseDate, ClearFlag, allVars, Next, StartUp

\* The pool beside the passes is VolumePool: they restrict it and add nothing, so
\* every theorem about VolumePool's Spec holds while passes run.
THEOREM PassesKeepPool == SyncSpec => Spec
<1>1. SyncInit => Init
  BY DEF SyncInit
<1> QED BY <1>1, StepOfPool, PTL DEF SyncSpec, Spec

\* What the pool and the passes keep together.
SyncInv == TypeInv /\ PersistInv /\ DateInv /\ PassInv

LEMMA NextPass == SyncInv /\ [SyncNext]_allVars => SyncInv'
<1> SUFFICES ASSUME SyncInv, [SyncNext]_allVars PROVE SyncInv'
  OBVIOUS
<1> USE DEF SyncInv
<1>1. DateInv'
  BY NextDate
<1>2. [Next]_vars
  BY StepOfPool
<1>3. TypeInv' /\ PersistInv'
  BY <1>2, NextType, NextPersistent
<1>4. CASE PoolStep
  <2>1. Next /\ UNCHANGED syncVars /\ (pc[Main] = "down" <=> pc'[Main] = "down")
    BY <1>4 DEF PoolStep
  <2>2. ~LoadFile /\ ~Crash
    <3>1. Main \in Thread
      BY DEF Thread
    <3> QED BY <2>1, <3>1 DEF LoadFile, Crash, TypeInv, TypeOK
  <2>3. TypeInv /\ DownInv /\ PassInv /\ HomeInv
    BY DEF PersistInv, PassInv
  <2> QED BY <1>1, <1>3, <2>1, <2>2, <2>3, PoolUnnoticed, UnnoticedPass, CreateVolumePass, AddVolumePass
<1>5. CASE Tick \/ UNCHANGED allVars
  <2>1. UNCHANGED vars /\ UNCHANGED passVars /\ UNCHANGED spc
    BY <1>5 DEF Tick, allVars, syncVars
  <2>2. LoopInv'
    BY <2>1 DEF PassInv, LoopInv, vars
  <2> QED BY <1>1, <1>3, <2>1, <2>2, CopiesLeft
<1>6. Periodic \subseteq Pass /\ Requested \subseteq Pass
  BY DEF Pass
<1> QED BY <1>1, <1>3, <1>4, <1>5, <1>6, RestartPass, StartPass, HandlePass DEF SyncNext

\* Whatever the threads of the pool, the clients, EC2 and stops do meanwhile, and
\* whatever start-up has left mounted, a pass that claims its date has written to
\* every volume of its copy that is still offered and mounted.
THEOREM PassesReach == SyncSpec => []PassReaches
<1>1. SyncInit => SyncInv
  BY InitType, InitPersistent, InitDate, InitPass DEF SyncInit, SyncInv
<1>2. SyncInv => PassReaches
  <2> SUFFICES ASSUME SyncInv, NEW p \in Pass, spc[p] = "date",
                      NEW v \in Ids(copy[p]) \cap Idle(m_volumes), mountedAt[v] = Here
               PROVE  v \in written[p]
    BY DEF PassReaches
  <2> QED BY DEF SyncInv, PassInv, ReachInv, Reached
<1> QED BY <1>1, <1>2, NextPass, PTL DEF SyncSpec
=============================================================================
