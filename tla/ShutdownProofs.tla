---------------------------- MODULE ShutdownProofs ----------------------------
(***************************************************************************)
(* TLAPS proofs about Shutdown, for any operations and any number of       *)
(* signals.                                                                *)
(*                                                                         *)
(* NoneStarted holds because the dispatcher has been joined before the     *)
(* flags are looked at.  LoneAwaited needs FlagInv: a flag that is shared  *)
(* by all operations of its kind can be trusted for as long as there has   *)
(* been only one of them, and main raises it before that one is started.   *)
(***************************************************************************)
EXTENDS Shutdown, TLAPS

\* signalHandler runs after a signal; the dispatcher has ended when the flags are
\* looked at, and not before is there a flag to wait for.
JoinInv ==
  /\ main \in {"connect", "send", "join", "wait"} => signalCount > 0
  /\ main = "wait" => dispatcher = "ended"
  /\ main \in {"loop", "raised", "connect", "send", "join"} => waitFor = 0

\* From where on the flag of an operation's kind is set.
Flagged(o) == op[o] = "running" \/ (op[o] = "started" /\ KindOf(o) \in {"snapshot", "sync"})

\* The flag that main has raised stays so until an operation of the kind ends.
RaisedInv ==
  main = "raised" => pending[raised] \/ \E o \in Op : KindOf(o) = raised /\ op[o] # "off"

FlagInv == \A o \in Op : Flagged(o) /\ Lone(o) => pending[KindOf(o)]

StopInv == TypeOK /\ JoinInv /\ RaisedInv /\ FlagInv

-----------------------------------------------------------------------------
\* The kinds that signalHandler waits for.
LEMMA AwaitedKinds == Len(Awaited) = 5 /\ \A i \in 1 .. 5 : Awaited[i] \in Kind
BY DEF Awaited, Kind

\* An operation's kind is one of the six.
LEMMA OpKinds == \A o \in Op : KindOf(o) \in Kind
BY OpAssumption DEF KindOf

LEMMA InitStop == Init => StopInv
<1> SUFFICES ASSUME Init PROVE StopInv
  OBVIOUS
<1>1. TypeOK
  <2>1. (signalCount > 0) = FALSE /\ signalCount \in 0 .. MaxSignals /\ waitFor \in 0 .. Len(Awaited) + 1
    BY AwaitedKinds, SignalAssumption DEF Init
  <2> QED BY <2>1 DEF Init, TypeOK
<1>2. JoinInv /\ RaisedInv /\ FlagInv
  BY DEF Init, JoinInv, RaisedInv, FlagInv, Flagged
<1> QED BY <1>1, <1>2 DEF StopInv

\* The types.
LEMMA NextStopType ==
  ASSUME TypeOK, JoinInv, [Next]_vars
  PROVE  TypeOK'
<1> USE SignalAssumption, AwaitedKinds DEF TypeOK, MainMoves, DispatcherMoves, mainVars, dispatcherVars
<1>1. ASSUME NEW k \in Kind, MainRaises(k) PROVE TypeOK'
  BY <1>1 DEF MainRaises
<1>2. ASSUME NEW o \in Op, MainStarts(o) PROVE TypeOK'
  BY <1>2 DEF MainStarts, OpMoves
<1>3. ASSUME NEW o \in Op, Begins(o) \/ Ends(o) PROVE TypeOK'
  BY <1>3, OpKinds DEF Begins, Ends, OpMoves
<1>4. ASSUME NEW o \in Op, Request(o) PROVE TypeOK'
  BY <1>4 DEF Request, OpMoves
<1>5. CASE CheckSigterm \/ AcceptClient \/ AcceptPoke \/ NoRequest
  BY <1>5 DEF CheckSigterm, AcceptClient, AcceptPoke, NoRequest
<1>6. CASE Signal \/ SignalAgain
  <2>1. signalCount' > 0 /\ signalCount' \in 0 .. MaxSignals
    BY <1>6 DEF Signal, SignalAgain
  <2>2. CASE Signal
    BY <2>1, <2>2 DEF Signal
  <2>3. CASE SignalAgain
    <3>1. signalCount > 0
      BY <2>3 DEF SignalAgain, JoinInv
    <3> QED BY <2>1, <2>3, <3>1 DEF SignalAgain
  <2> QED BY <1>6, <2>2, <2>3
<1>7. CASE SignalHandler
  BY <1>7 DEF SignalHandler, Connect, ConnectFails, Send, Join, WaitOver, Exit
<1>8. CASE UNCHANGED vars
  BY <1>8 DEF vars
<1> QED BY <1>1, <1>2, <1>3, <1>4, <1>5, <1>6, <1>7, <1>8 DEF Next

-----------------------------------------------------------------------------
(* The steps of operations, of main's loop and of the dispatcher's requests. *)

\* Steps that start, begin and end no operation and raise no flag.
LEMMA OtherStop ==
  ASSUME StopInv, TypeOK', UNCHANGED <<op, pending, raised>>, main' = "raised" => main = "raised",
         JoinInv'
  PROVE  StopInv'
BY DEF StopInv, RaisedInv, FlagInv, Flagged, Lone

LEMMA RaiseStop ==
  ASSUME StopInv, TypeOK', NEW k \in Kind, MainRaises(k)
  PROVE  StopInv'
<1>1. /\ UNCHANGED <<op, waitFor, signalCount>> /\ main = "loop" /\ main' = "raised" /\ raised' = k
      /\ pending' = [pending EXCEPT ![k] = TRUE]
  BY DEF MainRaises, MainMoves
<1>2. \A j \in Kind : pending[j] => pending'[j]
  BY <1>1 DEF StopInv, TypeOK
<1>3. pending'[k]
  BY <1>1 DEF StopInv, TypeOK
<1>4. JoinInv' /\ RaisedInv'
  BY <1>1, <1>3 DEF StopInv, JoinInv, RaisedInv
<1>5. FlagInv'
  BY <1>1, <1>2, OpKinds DEF StopInv, FlagInv, Flagged, Lone
<1> QED BY <1>4, <1>5 DEF StopInv

\* Nobody else of a lone operation's kind has been started, so that the flag main
\* has raised for it is still set.
LEMMA StartStop ==
  ASSUME StopInv, TypeOK', NEW o \in Op, MainStarts(o)
  PROVE  StopInv'
<1>1. /\ op[o] = "off" /\ op'[o] = "started" /\ \A p \in Op \ {o} : op'[p] = op[p]
      /\ UNCHANGED <<pending, waitFor, signalCount>> /\ main' = "loop" /\ main \in {"loop", "raised"}
      /\ (KindOf(o) = raised /\ main = "raised") \/ KindOf(o) \in {"create", "remove"}
  BY DEF MainStarts, MainMoves, OpMoves, StopInv, TypeOK
<1>2. JoinInv' /\ RaisedInv'
  BY <1>1 DEF StopInv, JoinInv, RaisedInv
<1>3. ASSUME NEW p \in Op, p # o, Flagged(p)', Lone(p)' PROVE pending'[KindOf(p)]
  <2>1. Flagged(p) /\ Lone(p)
    BY <1>1, <1>3 DEF Flagged, Lone
  <2> QED BY <1>1, <2>1 DEF StopInv, FlagInv
<1>4. ASSUME Flagged(o)', Lone(o)' PROVE pending'[KindOf(o)]
  <2>1. KindOf(o) = raised /\ main = "raised"
    BY <1>1, <1>4 DEF Flagged
  <2>2. \A p \in Op : KindOf(p) = raised => op[p] = "off"
    BY <1>1, <1>4, <2>1 DEF Lone
  <2> QED BY <1>1, <2>1, <2>2 DEF StopInv, RaisedInv
<1>5. FlagInv'
  BY <1>3, <1>4 DEF FlagInv
<1> QED BY <1>2, <1>5 DEF StopInv

LEMMA BeginStop ==
  ASSUME StopInv, TypeOK', NEW o \in Op, Begins(o)
  PROVE  StopInv'
<1>1. /\ op[o] = "started" /\ op'[o] = "running" /\ \A p \in Op \ {o} : op'[p] = op[p]
      /\ UNCHANGED <<main, raised, waitFor, signalCount, dispatcher>>
      /\ \A k \in Kind : pending[k] => pending'[k]
      /\ KindOf(o) \in {"snapshot", "sync"} \/ pending'[KindOf(o)]
  BY OpKinds DEF Begins, OpMoves, StopInv, TypeOK, mainVars, dispatcherVars
<1>2. JoinInv'
  BY <1>1 DEF StopInv, JoinInv
<1>3. RaisedInv'
  BY <1>1 DEF StopInv, TypeOK, RaisedInv
<1>4. \A p \in Op : Lone(p)' => Lone(p)
  BY <1>1 DEF Lone
<1>5. FlagInv'
  BY <1>1, <1>4, OpKinds DEF StopInv, FlagInv, Flagged
<1> QED BY <1>2, <1>3, <1>5 DEF StopInv

\* An operation that ends clears the flag of its kind; one that goes on is not
\* alone then.
LEMMA EndStop ==
  ASSUME StopInv, TypeOK', NEW o \in Op, Ends(o)
  PROVE  StopInv'
<1>1. /\ op[o] = "running" /\ op'[o] = "done" /\ \A p \in Op \ {o} : op'[p] = op[p]
      /\ UNCHANGED <<main, raised, waitFor, signalCount, dispatcher>>
      /\ \A k \in Kind \ {KindOf(o)} : pending[k] => pending'[k]
  BY OpKinds DEF Ends, OpMoves, StopInv, TypeOK, mainVars, dispatcherVars
<1>2. JoinInv'
  BY <1>1 DEF StopInv, JoinInv
<1>3. RaisedInv'
  BY <1>1 DEF StopInv, TypeOK, RaisedInv
<1>4. \A p \in Op : (Lone(p)' => Lone(p)) /\ (Lone(p)' /\ p # o => KindOf(p) # KindOf(o))
  BY <1>1 DEF Lone
<1>5. FlagInv'
  BY <1>1, <1>4, OpKinds DEF StopInv, FlagInv, Flagged
<1> QED BY <1>2, <1>3, <1>5 DEF StopInv

LEMMA RequestStop ==
  ASSUME StopInv, TypeOK', NEW o \in Op, Request(o)
  PROVE  StopInv'
<1>1. /\ op[o] = "off" /\ op'[o] = "started" /\ \A p \in Op \ {o} : op'[p] = op[p]
      /\ UNCHANGED <<main, raised, waitFor, signalCount>> /\ dispatcher = "read"
      /\ \A k \in Kind : pending[k] => pending'[k]
      /\ KindOf(o) \in {"acquire", "release"} \/ (KindOf(o) = "sync" /\ pending'["sync"])
  <2>1. op \in [Op -> {"off", "started", "running", "done"}] /\ pending \in [Kind -> BOOLEAN]
    BY DEF StopInv, TypeOK
  <2>2. pending' = IF KindOf(o) = "sync" THEN [pending EXCEPT !["sync"] = TRUE] ELSE pending
    BY DEF Request
  <2>3. /\ \A k \in Kind : pending[k] => pending'[k]
        /\ KindOf(o) = "sync" => pending'["sync"]
    BY <2>1, <2>2 DEF Kind
  <2> QED BY <2>1, <2>3 DEF Request, DispatcherMoves, OpMoves, mainVars
<1>2. JoinInv'
  BY <1>1 DEF StopInv, JoinInv
<1>3. RaisedInv'
  BY <1>1 DEF StopInv, TypeOK, RaisedInv
<1>4. \A p \in Op : Lone(p)' => Lone(p)
  BY <1>1 DEF Lone
<1>5. FlagInv'
  BY <1>1, <1>4, OpKinds DEF StopInv, FlagInv, Flagged
<1> QED BY <1>2, <1>3, <1>5 DEF StopInv

\* StopInv is inductive.
LEMMA NextStop == StopInv /\ [Next]_vars => StopInv'
<1> SUFFICES ASSUME StopInv, [Next]_vars PROVE StopInv'
  OBVIOUS
<1>0. TypeOK'
  BY NextStopType DEF StopInv
<1>1. CASE CheckSigterm \/ AcceptClient \/ AcceptPoke \/ NoRequest
  BY <1>0, <1>1, OtherStop DEF CheckSigterm, AcceptClient, AcceptPoke, NoRequest, DispatcherMoves,
     StopInv, JoinInv, mainVars
<1>2. CASE Signal \/ SignalAgain
  <2>1. JoinInv'
    BY <1>2 DEF Signal, SignalAgain, StopInv, JoinInv, TypeOK
  <2>2. UNCHANGED <<op, pending, raised>> /\ main' # "raised"
    BY <1>2 DEF Signal, SignalAgain
  <2> QED BY <1>0, <2>1, <2>2, OtherStop
<1>3. CASE SignalHandler
  BY <1>0, <1>3, OtherStop DEF SignalHandler, Connect, ConnectFails, Send, Join, WaitOver, Exit,
     MainMoves, StopInv, JoinInv, dispatcherVars
<1>4. CASE UNCHANGED vars
  BY <1>0, <1>4, OtherStop DEF vars, mainVars, dispatcherVars, StopInv, JoinInv
<1> QED BY <1>0, <1>1, <1>2, <1>3, <1>4, RaiseStop, StartStop, BeginStop, EndStop, RequestStop DEF Next

-----------------------------------------------------------------------------
(* What it is for.                                                         *)

\* Every reachable state has the right types, for any operations and signals.
THEOREM ShutdownTyped == Spec => []TypeOK
<1>1. StopInv => TypeOK
  BY DEF StopInv
<1> QED BY <1>1, InitStop, NextStop, PTL DEF Spec

\* Once signalHandler looks at the flags, neither main nor the dispatcher starts an
\* operation any more.
THEOREM NothingStarts == Spec => NoneStarted
<1>1. StopInv /\ [Next]_vars =>
        [main = "wait" => \A o \in Op : op[o] = "off" => op'[o] = "off"]_vars
  <2> SUFFICES ASSUME StopInv, Next, main = "wait", NEW o \in Op, op[o] = "off"
               PROVE  op'[o] = "off"
    OBVIOUS
  <2>1. dispatcher = "ended"
    BY DEF StopInv, JoinInv
  <2> QED BY <2>1 DEF Next, MainRaises, MainStarts, Begins, Ends, Request, CheckSigterm, AcceptClient,
        AcceptPoke, NoRequest, Signal, SignalAgain, SignalHandler, Connect, ConnectFails, Send, Join,
        WaitOver, Exit, MainMoves, DispatcherMoves, OpMoves, StopInv, TypeOK
<1> QED BY <1>1, InitStop, NextStop, PTL DEF Spec, NoneStarted

\* An operation that is the only one of its kind is waited for: its flag is set
\* while it runs, whoever has raised it.
THEOREM LoneIsAwaited == Spec => LoneAwaited
<1> DEFINE Waits ==
      \A o \in Op, i \in 1 .. Len(Awaited) :
        (op[o] = "running" /\ Lone(o) /\ Awaited[i] = KindOf(o) /\ waitFor = i) => waitFor' = i
<1>1. StopInv /\ [Next]_vars => [Waits]_vars
  <2> SUFFICES ASSUME StopInv, Next, NEW o \in Op, NEW i \in 1 .. Len(Awaited),
                      op[o] = "running", Lone(o), Awaited[i] = KindOf(o), waitFor = i
               PROVE  waitFor' = i
    OBVIOUS
  <2>1. pending[Awaited[i]]
    BY DEF StopInv, FlagInv, Flagged
  <2>2. waitFor # 0
    BY AwaitedKinds
  <2>3. ~Join /\ ~WaitOver
    BY <2>1, <2>2 DEF Join, WaitOver, MainMoves, StopInv, JoinInv
  <2> QED BY <2>3 DEF Next, MainRaises, MainStarts, Begins, Ends, Request, CheckSigterm, AcceptClient,
        AcceptPoke, NoRequest, Signal, SignalAgain, SignalHandler, Connect, ConnectFails, Send, Exit,
        mainVars
<1> QED BY <1>1, InitStop, NextStop, PTL DEF Spec, LoneAwaited
=============================================================================
