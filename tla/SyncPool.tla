------------------------------- MODULE SyncPool -------------------------------
(***************************************************************************)
(* VolumePool together with the volumesSync_handler threads, which copy    *)
(* the list of volumes and synchronize each volume of the copy, while the  *)
(* list and the mounts change; and with the date of the last pass, which   *)
(* Sync keeps in memory and in a file of its own, written without a lock.  *)
(*                                                                         *)
(* A pass is started by main when one is due, or by the dispatcher on a    *)
(* SyncAll request, which does not look whether one is under way.  A pass  *)
(* writes to a path: that is the volume when the volume is mounted where   *)
(* the record said, and otherwise an ordinary directory or none.  What     *)
(* rsync returns is not looked at.                                         *)
(***************************************************************************)
EXTENDS VolumePool

CONSTANTS
  Periodic,   \* the passes that main starts
  Requested,  \* the passes that SyncAll requests start
  Interval,   \* conf.SyncVolumesInterval, in ticks of the clock
  MaxTime     \* bound: the last tick

Pass == Periodic \cup Requested
Never == -1   \* a date long past: what load() returns of no file or an empty one

ASSUME PassAssumption ==
  Periodic \cap Requested = {} /\ Interval \in Nat \ {0} /\ MaxTime \in Nat

VARIABLES
  m_latestSync,      \* the date in memory
  syncFile,          \* the date in the file
  syncingOpPending,  \* the flag of all passes
  spc,               \* spc[p]: where pass p is
  copy,              \* copy[p]: p's copy of the list
  next,              \* next[p]: the index p's iterator is at
  written,           \* written[p]: the volumes p has written to
  out,               \* out[p]: the date in p's stream
  clock              \* unixTime()

dateVars == <<m_latestSync, syncFile, out>>
passVars == <<copy, next, written>>
syncVars == <<dateVars, passVars, syncingOpPending, spc, clock>>
allVars == <<vars, syncVars>>

TimeToSync == clock - m_latestSync >= Interval \/ m_latestSync = Never

Passes(p, a, b) == spc[p] = a /\ spc' = [spc EXCEPT ![p] = b]

-----------------------------------------------------------------------------
(* How a pass is started.                                                  *)

\* Mutant of MainDecides: the flag is not looked at.
MainDecidesAnyway(p) ==
  /\ Passes(p, "off", "decided")
  /\ pc[Main] = "loop" /\ \A q \in Pass : spc[q] # "decided"
  /\ TimeToSync
  /\ UNCHANGED <<vars, dateVars, passVars, syncingOpPending, clock>>

MainDecides(p) ==
  /\ Passes(p, "off", "decided")
  /\ pc[Main] = "loop" /\ \A q \in Pass : spc[q] # "decided"
  /\ ~syncingOpPending /\ TimeToSync
  /\ UNCHANGED <<vars, dateVars, passVars, syncingOpPending, clock>>

MainStarts(p) ==
  /\ Passes(p, "decided", "begin")
  /\ syncingOpPending' = TRUE
  /\ UNCHANGED <<vars, dateVars, passVars, clock>>

RequestSync(p) ==
  /\ Passes(p, "off", "begin")
  /\ pc[Main] = "loop"
  /\ syncingOpPending' = TRUE
  /\ UNCHANGED <<vars, dateVars, passVars, clock>>

-----------------------------------------------------------------------------
(* volumesSync_handler.                                                    *)

CopyList(p) ==
  /\ Passes(p, "begin", "loop")
  /\ copy' = [copy EXCEPT ![p] = m_volumes]
  /\ next' = [next EXCEPT ![p] = 1]
  /\ UNCHANGED <<vars, dateVars, written, syncingOpPending, clock>>

\* Does the path of record r lead to its volume?
Leads(r) == mountedAt[r.id] = r.attachedTo

\* Mutant of Synchronize: the pass ends at the first volume it cannot write to.
SynchronizeOrEnd(p) ==
  /\ next[p] \in DOMAIN copy[p]
  /\ LET r == copy[p][next[p]]
     IN /\ written' = [written EXCEPT ![p] = IF Leads(r) THEN @ \cup {r.id} ELSE @]
        /\ Passes(p, "loop", IF Leads(r) THEN "loop" ELSE "date")
  /\ next' = [next EXCEPT ![p] = @ + 1]
  /\ UNCHANGED <<vars, dateVars, copy, syncingOpPending, clock>>

Synchronize(p) ==
  /\ Passes(p, "loop", "loop")
  /\ next[p] \in DOMAIN copy[p]
  /\ LET r == copy[p][next[p]]
     IN written' = [written EXCEPT ![p] = IF Leads(r) THEN @ \cup {r.id} ELSE @]
  /\ next' = [next EXCEPT ![p] = @ + 1]
  /\ UNCHANGED <<vars, dateVars, copy, syncingOpPending, clock>>

EndLoop(p) ==
  /\ Passes(p, "loop", "date")
  /\ next[p] \notin DOMAIN copy[p]
  /\ UNCHANGED <<vars, dateVars, passVars, syncingOpPending, clock>>

\* setSyncTime: first the memory, then the file.
SetTime(p) ==
  /\ Passes(p, "date", "open")
  /\ m_latestSync' = clock
  /\ copy' = [copy EXCEPT ![p] = <<>>] /\ next' = [next EXCEPT ![p] = 0]
  /\ written' = [written EXCEPT ![p] = {}]
  /\ UNCHANGED <<vars, syncFile, out, syncingOpPending, clock>>

OpenDate(p) ==
  /\ \/ Passes(p, "open", "put") /\ syncFile' = Never
     \/ OpenMayFail /\ Passes(p, "open", "clear") /\ UNCHANGED syncFile
  /\ UNCHANGED <<vars, m_latestSync, out, passVars, syncingOpPending, clock>>

\* Mutant of PutDate: the time is taken again.
PutTime(p) ==
  /\ Passes(p, "put", "close")
  /\ out' = [out EXCEPT ![p] = clock]
  /\ UNCHANGED <<vars, m_latestSync, syncFile, passVars, syncingOpPending, clock>>

PutDate(p) ==
  /\ Passes(p, "put", "close")
  /\ out' = [out EXCEPT ![p] = m_latestSync]
  /\ UNCHANGED <<vars, m_latestSync, syncFile, passVars, syncingOpPending, clock>>

CloseDate(p) ==
  /\ Passes(p, "close", "clear")
  /\ syncFile' = out[p]
  /\ out' = [out EXCEPT ![p] = Never]
  /\ UNCHANGED <<vars, m_latestSync, passVars, syncingOpPending, clock>>

ClearFlag(p) ==
  /\ Passes(p, "clear", "done")
  /\ syncingOpPending' = FALSE
  /\ UNCHANGED <<vars, dateVars, passVars, clock>>

Handle(p) ==
  \/ CopyList(p) \/ Synchronize(p) \/ EndLoop(p) \/ SetTime(p)
  \/ OpenDate(p) \/ PutDate(p) \/ CloseDate(p) \/ ClearFlag(p)

-----------------------------------------------------------------------------
(* The pool, the clock, and the stops they share.                          *)

Tick ==
  /\ clock < MaxTime /\ clock' = clock + 1
  /\ UNCHANGED <<vars, dateVars, passVars, syncingOpPending, spc>>

PoolStep ==
  /\ Next
  /\ pc[Main] = "down" <=> pc'[Main] = "down"
  /\ UNCHANGED syncVars

CrashBoth ==
  /\ Crash
  /\ spc' = [p \in Pass |-> IF spc[p] = "off" THEN "off" ELSE "done"]
  /\ copy' = [p \in Pass |-> <<>>] /\ next' = [p \in Pass |-> 0]
  /\ written' = [p \in Pass |-> {}]
  /\ out' = [p \in Pass |-> Never]
  /\ syncingOpPending' = FALSE
  /\ m_latestSync' = Never
  /\ UNCHANGED <<syncFile, clock>>

\* Sync::load, and the list.
LoadBoth ==
  /\ LoadFile
  /\ m_latestSync' = syncFile
  /\ UNCHANGED <<syncFile, out, passVars, syncingOpPending, spc, clock>>

SyncInit ==
  /\ Init
  /\ m_latestSync = Never /\ syncFile = Never
  /\ syncingOpPending = FALSE
  /\ spc = [p \in Pass |-> "off"]
  /\ copy = [p \in Pass |-> <<>>] /\ next = [p \in Pass |-> 0]
  /\ written = [p \in Pass |-> {}] /\ out = [p \in Pass |-> Never]
  /\ clock = 0

SyncNext ==
  \/ PoolStep \/ CrashBoth \/ LoadBoth \/ Tick
  \/ \E p \in Periodic : MainDecides(p) \/ MainStarts(p)
  \/ \E p \in Requested : RequestSync(p)
  \/ \E p \in Pass : Handle(p)

SyncSpec == SyncInit /\ [][SyncNext]_allVars

-----------------------------------------------------------------------------
(* Properties.                                                             *)

Running == {"begin", "loop", "date", "open", "put", "close", "clear"}

\* Overlap: main starts a pass beside one it has started only when a SyncAll pass
\* has ended and cleared the flag they share: the passes of main that run at once
\* are at most one more than the SyncAll passes.
Overlap ==
  Cardinality({p \in Periodic : spc[p] \in Running})
    <= 1 + Cardinality({p \in Requested : spc[p] # "off"})

\* DateNotAhead: the date a restart would load is never later than the one the
\* daemon goes by, though passes that end together write memory and file in
\* turns, and the file may be empty or out of reach: a restart may bring the next
\* pass forward and never puts it off.
DateNotAhead == pc[Main] # "down" => syncFile <= m_latestSync

\* PassReaches: when a pass claims its date, every volume of its copy that is
\* still offered and mounted has been written to by it, whatever was taken, erased
\* or added in the list meanwhile, and wherever start-up has left the mounts.
PassReaches ==
  \A p \in Pass :
    spc[p] = "date" =>
      \A v \in Ids(copy[p]) \cap Idle(m_volumes) :
        mountedAt[v] = Here => v \in written[p]
=============================================================================
