------------------------------- MODULE Shutdown -------------------------------
(***************************************************************************)
(* How volumesd stops: signalHandler, which interrupts main wherever it is *)
(* and never returns to it, the dispatcher thread it joins, and the six    *)
(* kinds of operation threads with the flags that say one is under way.    *)
(* What the operations do is VolumePool's and Snapshots'.                  *)
(*                                                                         *)
(* A flag is one int for all operations of its kind.  main sets those of   *)
(* snapshots and of its own syncs before it starts the thread, the         *)
(* dispatcher that of a SyncAll, and the other threads set theirs when     *)
(* they begin to run; every thread clears its flag at its end.             *)
(***************************************************************************)
EXTENDS Integers, Sequences

Kind == {"snapshot", "create", "remove", "acquire", "release", "sync"}
Awaited == <<"snapshot", "create", "remove", "acquire", "release">>
NoKind == "none"

CONSTANTS
  Op,         \* the operations of a behaviour: pairs of a kind and a number
  MaxSignals  \* bound: how many signals are sent

ASSUME OpAssumption == Op \subseteq Kind \X Nat
ASSUME SignalAssumption == MaxSignals \in Nat

VARIABLES
  op,           \* op[o]: "off", "started" (not running yet), "running", "done"
  pending,      \* pending[k]: the flag of kind k
  main,         \* where the main thread is, in its loop or in signalHandler
  raised,       \* the kind whose flag main has just set, before it starts the thread
  waitFor,      \* the position in Awaited of the flag signalHandler waits for
  signalCount,
  sigterm,
  dispatcher,   \* where the dispatcher thread is
  peer,         \* who the dispatcher is connected to: a client, or signalHandler
  poke          \* the connection of signalHandler to port 9000

mainVars == <<main, raised, waitFor>>
dispatcherVars == <<dispatcher, peer, poke>>
vars == <<op, pending, mainVars, signalCount, sigterm, dispatcherVars>>

-----------------------------------------------------------------------------
KindOf(o) == o[1]

\* exit() and an exception that leaves signalHandler end all threads.
Alive == main \notin {"exited", "aborted"}
MainMoves(p, q) == main = p /\ main' = q
DispatcherMoves(p, q) == Alive /\ dispatcher = p /\ dispatcher' = q
OpMoves(o, p, q) == op[o] = p /\ op' = [op EXCEPT ![o] = q]

-----------------------------------------------------------------------------
(* main's loop.  Whether a snapshot or a sync is due, and whether there are *)
(* too many volumes or too few, is up to the other modules.                *)

MainRaises(k) ==
  /\ MainMoves("loop", "raised") /\ raised' = k
  /\ k \in {"snapshot", "sync"} /\ (k = "sync" => ~pending[k])
  /\ \E o \in Op : KindOf(o) = k /\ op[o] = "off"
  /\ pending' = [pending EXCEPT ![k] = TRUE]
  /\ UNCHANGED <<op, waitFor, signalCount, sigterm, dispatcherVars>>

MainStarts(o) ==
  /\ \/ MainMoves("raised", "loop") /\ KindOf(o) = raised
     \/ MainMoves("loop", "loop") /\ KindOf(o) \in {"create", "remove"}
  /\ raised' = NoKind
  /\ OpMoves(o, "off", "started")
  /\ UNCHANGED <<pending, waitFor, signalCount, sigterm, dispatcherVars>>

-----------------------------------------------------------------------------
(* The operation threads.                                                  *)

\* Mutant of Begins: the flag is left to others.
BeginsUnflagged(o) ==
  /\ Alive /\ OpMoves(o, "started", "running")
  /\ UNCHANGED <<pending, mainVars, signalCount, sigterm, dispatcherVars>>

Begins(o) ==
  /\ Alive /\ OpMoves(o, "started", "running")
  /\ IF KindOf(o) \in {"snapshot", "sync"}
     THEN UNCHANGED pending
     ELSE pending' = [pending EXCEPT ![KindOf(o)] = TRUE]
  /\ UNCHANGED <<mainVars, signalCount, sigterm, dispatcherVars>>

Ends(o) ==
  /\ Alive /\ OpMoves(o, "running", "done")
  /\ pending' = [pending EXCEPT ![KindOf(o)] = FALSE]
  /\ UNCHANGED <<mainVars, signalCount, sigterm, dispatcherVars>>

-----------------------------------------------------------------------------
(* volumesDispatcher_handler, as far as it matters here.                   *)

\* while ((true) && (!sigterm)): leaving it closes the listening socket.
CheckSigterm ==
  /\ DispatcherMoves("check", IF sigterm THEN "ended" ELSE "accept")
  /\ UNCHANGED <<op, pending, mainVars, signalCount, sigterm, peer, poke>>

AcceptClient ==
  /\ DispatcherMoves("accept", "read") /\ peer' = "client"
  /\ UNCHANGED <<op, pending, mainVars, signalCount, sigterm, poke>>

AcceptPoke ==
  /\ DispatcherMoves("accept", "read") /\ peer' = "handler"
  /\ poke = "queued" /\ poke' = "accepted"
  /\ UNCHANGED <<op, pending, mainVars, signalCount, sigterm>>

\* A DiskRequest, a DiskRelease or a SyncAll.
Request(o) ==
  /\ DispatcherMoves("read", "check") /\ peer = "client"
  /\ KindOf(o) \in {"acquire", "release", "sync"}
  /\ OpMoves(o, "off", "started")
  /\ pending' = IF KindOf(o) = "sync" THEN [pending EXCEPT !["sync"] = TRUE] ELSE pending
  /\ UNCHANGED <<mainVars, signalCount, sigterm, peer, poke>>

\* The request is no request, the client went away, or signalHandler sent nothing.
NoRequest ==
  /\ DispatcherMoves("read", "check")
  /\ UNCHANGED <<op, pending, mainVars, signalCount, sigterm, peer, poke>>

-----------------------------------------------------------------------------
(* signalHandler.                                                          *)

\* Mutant of Signal: the loops are not told.
SignalUntold ==
  /\ main \in {"loop", "raised"} /\ main' = "connect"
  /\ signalCount < MaxSignals /\ signalCount' = signalCount + 1
  /\ UNCHANGED <<op, pending, raised, waitFor, sigterm, dispatcherVars>>

\* The first signal.
Signal ==
  /\ main \in {"loop", "raised"} /\ main' = "connect"
  /\ signalCount < MaxSignals
  /\ signalCount' = signalCount + 1 /\ sigterm' = TRUE
  /\ UNCHANGED <<op, pending, raised, waitFor, dispatcherVars>>

\* A later one, which another thread or a nested call of the handler takes.
SignalAgain ==
  /\ main \in {"connect", "send", "join", "wait"} /\ main' = "exited"
  /\ signalCount < MaxSignals /\ signalCount' = signalCount + 1
  /\ UNCHANGED <<op, pending, raised, waitFor, sigterm, dispatcherVars>>

\* Mutant of Connect: the dispatcher is joined without being woken.
ConnectOmitted ==
  /\ MainMoves("connect", "join")
  /\ UNCHANGED <<op, pending, raised, waitFor, signalCount, sigterm, dispatcherVars>>

Connect ==
  /\ MainMoves("connect", "send")
  /\ dispatcher # "ended" /\ poke' = "queued"
  /\ UNCHANGED <<op, pending, raised, waitFor, signalCount, sigterm, dispatcher, peer>>

\* The dispatcher does not listen any more: ClientSocket throws.
ConnectFails ==
  /\ MainMoves("connect", "aborted")
  /\ dispatcher = "ended"
  /\ UNCHANGED <<op, pending, raised, waitFor, signalCount, sigterm, dispatcherVars>>

Send ==
  /\ \/ MainMoves("send", "join")
     \/ MainMoves("send", "aborted") /\ dispatcher = "ended" /\ poke = "queued"
  /\ UNCHANGED <<op, pending, raised, waitFor, signalCount, sigterm, dispatcherVars>>

\* Mutant of Join: the dispatcher is detached instead.
JoinOmitted ==
  /\ MainMoves("join", "wait")
  /\ waitFor' = 1
  /\ UNCHANGED <<op, pending, raised, signalCount, sigterm, dispatcherVars>>

Join ==
  /\ MainMoves("join", "wait")
  /\ dispatcher = "ended"
  /\ waitFor' = 1
  /\ UNCHANGED <<op, pending, raised, signalCount, sigterm, dispatcherVars>>

WaitOver ==
  /\ MainMoves("wait", "wait")
  /\ waitFor <= Len(Awaited) /\ ~pending[Awaited[waitFor]]
  /\ waitFor' = waitFor + 1
  /\ UNCHANGED <<op, pending, raised, signalCount, sigterm, dispatcherVars>>

Exit ==
  /\ MainMoves("wait", "exited")
  /\ waitFor > Len(Awaited)
  /\ UNCHANGED <<op, pending, raised, waitFor, signalCount, sigterm, dispatcherVars>>

SignalHandler == Connect \/ ConnectFails \/ Send \/ Join \/ WaitOver \/ Exit

-----------------------------------------------------------------------------
Init ==
  /\ op = [o \in Op |-> "off"]
  /\ pending = [k \in Kind |-> FALSE]
  /\ main = "loop" /\ raised = NoKind /\ waitFor = 0
  /\ signalCount = 0 /\ sigterm = FALSE
  /\ dispatcher = "check" /\ peer = "none" /\ poke = "none"

Next ==
  \/ \E k \in Kind : MainRaises(k)
  \/ \E o \in Op : MainStarts(o) \/ Begins(o) \/ Ends(o) \/ Request(o)
  \/ CheckSigterm \/ AcceptClient \/ AcceptPoke \/ NoRequest
  \/ Signal \/ SignalAgain \/ SignalHandler

Spec == Init /\ [][Next]_vars

\* Threads run, operations come to an end, and a client that is connected says
\* something or goes away; no client need come.
FairSpec ==
  /\ Spec
  /\ WF_vars(SignalHandler)
  /\ WF_vars(CheckSigterm) /\ WF_vars(AcceptPoke)
  /\ WF_vars(NoRequest \/ \E o \in Op : Request(o))
  /\ \A o \in Op : WF_vars(Begins(o)) /\ WF_vars(Ends(o))

-----------------------------------------------------------------------------
(* Properties.                                                             *)

TypeOK ==
  /\ op \in [Op -> {"off", "started", "running", "done"}]
  /\ pending \in [Kind -> BOOLEAN]
  /\ main \in {"loop", "raised", "connect", "send", "join", "wait", "exited", "aborted"}
  /\ raised \in Kind \cup {NoKind} /\ (main = "raised" => raised \in Kind)
  /\ waitFor \in 0 .. Len(Awaited) + 1 /\ (main = "wait" => waitFor > 0)
  /\ signalCount \in 0 .. MaxSignals /\ sigterm = (signalCount > 0)
  /\ dispatcher \in {"check", "accept", "read", "ended"}
  /\ peer \in {"none", "client", "handler"}
  /\ poke \in {"none", "queued", "accepted"}

\* NoneStarted: once the flags are being looked at, no operation starts any more,
\* neither from main nor from a request the dispatcher had accepted before.
NoneStarted ==
  [][main = "wait" => \A o \in Op : op[o] = "off" => op'[o] = "off"]_vars

Lone(o) == \A p \in Op : (KindOf(p) = KindOf(o) /\ p # o) => op[p] = "off"

\* LoneAwaited: an operation that runs, the only one of its kind that was ever
\* started, holds up signalHandler where it waits for that kind.
LoneAwaited ==
  [][\A o \in Op, i \in 1 .. Len(Awaited) :
       (op[o] = "running" /\ Lone(o) /\ Awaited[i] = KindOf(o) /\ waitFor = i)
         => waitFor' = i]_vars

\* JoinEnds: the thread that blocks in accept, or that serves a client just then, is
\* woken and joined: signalHandler comes to its waits, or the process ends.
JoinEnds == signalCount > 0 ~> main \in {"wait", "exited", "aborted"}

-----------------------------------------------------------------------------
(* What the repository says and the code does not keep.                    *)

\* Graceful: after one signal the process exits when no operation is running
\* ("graceful stop", "check if main program have some opreation").
Graceful ==
  (main = "exited" /\ signalCount = 1) => \A o \in Op : op[o] # "running"
=============================================================================
