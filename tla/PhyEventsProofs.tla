-------------------------- MODULE PhyEventsProofs --------------------------
(***************************************************************************)
(* Theorems about PhyEvents, for every queue length, every published value *)
(* and every combination of failures, across restarts: what it says last,  *)
(* and that it implements LinkFeed.                                        *)
(***************************************************************************)
EXTENDS PhyEvents, SequenceTheorems, TLAPS

\* A new process, and the words for a link state, have their types.
LEMMA NewProcess ==
  NewLine \in Line /\ NewCallback \in Callback /\ NewHandler \in Handler
BY DEF NewLine, Line, NewCallback, Callback, NewHandler, Handler, LinkStates,
       HandlerPCs, PhyWords, NoState

LEMMA IdleCallback == NewCallback.pc = "idle" /\ NewCallback.state = NoState
BY DEF NewCallback

LEMMA WordsTyped == \A s : PhyWordsOf(s) \subseteq PhyWords
BY DEF PhyWordsOf, PhyWords

\* What the handler's record keeps when it moves on.
LEMMA HandlerMoves ==
  ASSUME NEW h \in Handler, NEW p \in HandlerPCs
  PROVE  [h EXCEPT !.pc = p] \in Handler
BY DEF Handler

LEMMA HandlerWord ==
  ASSUME NEW h \in Handler, NEW w \in PhyWords
  PROVE  [h EXCEPT !.pc = "lookup", !.word = w] \in Handler
BY DEF Handler, HandlerPCs

LEMMA HandlerTold ==
  ASSUME NEW h \in Handler
  PROVE  [h EXCEPT !.pc = "receive", !.told = TRUE] \in Handler
BY DEF Handler, HandlerPCs

\* Appending makes the new state the last, taking the head keeps the last.
LEMMA QueueAppend ==
  ASSUME NEW q \in Seq(LinkStates), NEW s \in LinkStates
  PROVE  /\ Append(q, s) \in Seq(LinkStates)
         /\ Append(q, s) # <<>>
         /\ Len(Append(q, s)) = Len(q) + 1
         /\ Append(q, s)[Len(Append(q, s))] = s
OBVIOUS

LEMMA QueueTail ==
  ASSUME NEW q \in Seq(LinkStates), q # <<>>
  PROVE  /\ Head(q) \in LinkStates
         /\ Tail(q) \in Seq(LinkStates)
         /\ Len(Tail(q)) = Len(q) - 1
         /\ Tail(q) = <<>> => q[Len(q)] = Head(q)
         /\ Tail(q) # <<>> => Tail(q)[Len(Tail(q))] = q[Len(q)]
<1>1. Len(q) \in Nat \ {0}
  OBVIOUS
<1>2. Head(q) \in LinkStates /\ Tail(q) \in Seq(LinkStates)
  OBVIOUS
<1>3. Len(Tail(q)) = Len(q) - 1
  OBVIOUS
<1>4. ASSUME Tail(q) = <<>> PROVE q[Len(q)] = Head(q)
  <2>1. Len(Tail(q)) = 0
    BY <1>2, <1>4, EmptySeq
  <2>2. Len(q) - 1 = 0
    BY <1>3, <2>1
  <2>3. Len(q) = 1
    BY <1>1, <2>2
  <2> QED
    BY <2>3
<1>5. ASSUME Tail(q) # <<>> PROVE Tail(q)[Len(Tail(q))] = q[Len(q)]
  <2>1. Len(Tail(q)) \in 1..Len(q) - 1
    BY <1>1, <1>2, <1>3, <1>5
  <2> QED
    BY <1>1, <1>3, <2>1
<1> QED
  BY <1>2, <1>3, <1>4, <1>5

-----------------------------------------------------------------------------
LEMMA TypeInit == Init => TypeOK
<1> SUFFICES ASSUME Init PROVE TypeOK
  OBVIOUS
<1>1. queue \in Seq(LinkStates) /\ Len(queue) <= MaxQueue
  BY PhyConstants DEF Init
<1> QED
  BY <1>1, NewProcess, IdleCallback DEF Init, TypeOK, StartPCs

LEMMA TypeStart == TypeOK /\ StartStep => TypeOK'
<1> SUFFICES ASSUME TypeOK, StartStep PROVE TypeOK'
  OBVIOUS
<1> USE DEF TypeOK, StartPCs
<1>1. CASE HalInit
  BY <1>1 DEF HalInit
<1>2. CASE LineInit
  BY <1>2, NewProcess DEF LineInit
<1>3. CASE TriggerEventHandlerThread
  <2>1. handler' \in Handler
    BY <1>3, HandlerMoves DEF TriggerEventHandlerThread, HandlerPCs
  <2> QED
    BY <1>3, <2>1 DEF TriggerEventHandlerThread
<1>4. CASE RegisterDslLinkStatusCallback
  BY <1>4 DEF RegisterDslLinkStatusCallback
<1> QED
  BY <1>1, <1>2, <1>3, <1>4 DEF StartStep

LEMMA TypeRestart == TypeOK /\ Restart => TypeOK'
BY NewProcess, IdleCallback DEF TypeOK, Restart, StartPCs

LEMMA TypeCallback ==
  ASSUME TypeOK,
         \/ CallbackStep \/ SendFails
         \/ \E v \in EventValues : LinkEvent(v)
  PROVE  TypeOK'
<1> USE DEF TypeOK
<1>1. ASSUME NEW v \in EventValues, LinkEvent(v) PROVE TypeOK'
  <2>1. PICK s \in LinkStatusOf(v) \ {NotValid} :
           /\ UpdateLinkStatus(s)
           /\ callback' = [pc |-> "open", heard |-> v, state |-> s]
    BY <1>1 DEF LinkEvent
  <2>2. s \in LinkStates
    BY <2>1 DEF LinkStatusOf, LinkStates, NotValid
  <2>3. line' \in Line /\ callback' \in Callback
    BY <2>1, <2>2 DEF UpdateLinkStatus, Line, Callback
  <2>4. callback'.pc # "idle" /\ callback'.state # NoState
    BY <2>1, <2>2 DEF LinkStates, NoState
  <2> QED
    BY <1>1, <2>3, <2>4 DEF LinkEvent
<1>2. CASE OpenQueue
  <2>1. CASE queueExists
    <3>1. callback' = [callback EXCEPT !.pc = "send"]
      BY <1>2, <2>1 DEF OpenQueue
    <3>2. callback' \in Callback
      BY <3>1 DEF Callback
    <3>3. callback'.pc # "idle" /\ callback'.state # NoState
      BY <1>2, <3>1 DEF OpenQueue, Callback
    <3> QED
      BY <1>2, <3>2, <3>3 DEF OpenQueue
  <2>2. CASE ~queueExists
    <3>1. callback' = NewCallback
      BY <1>2, <2>2 DEF OpenQueue
    <3> QED
      BY <1>2, <3>1, NewProcess, IdleCallback DEF OpenQueue
  <2> QED
    BY <2>1, <2>2
<1>3. CASE SendToQueue
  <2>1. callback' \in Callback /\ callback'.pc = "idle"
                              /\ callback'.state = NoState
    BY <1>3, NewProcess, IdleCallback DEF SendToQueue
  <2>2. callback.state \in LinkStates
    BY <1>3 DEF SendToQueue, Callback
  <2>3. queue' \in Seq(LinkStates) /\ Len(queue') <= MaxQueue
    BY <1>3, <2>2, QueueAppend, PhyConstants DEF SendToQueue
  <2> QED
    BY <1>3, <2>1, <2>3 DEF SendToQueue
<1>4. CASE SendFails
  BY <1>4, NewProcess, IdleCallback DEF SendFails
<1> QED
  BY <1>1, <1>2, <1>3, <1>4 DEF CallbackStep

LEMMA TypeHandler ==
  TypeOK /\ (HandlerStep \/ ReceiveFails) => TypeOK'
<1> SUFFICES ASSUME TypeOK, HandlerStep \/ ReceiveFails PROVE TypeOK'
  OBVIOUS
<1> USE DEF TypeOK
<1>1. CASE CreateQueue
  <2>1. handler' \in Handler
    BY <1>1, HandlerMoves DEF CreateQueue, HandlerPCs
  <2> QED
    BY <1>1, <2>1 DEF CreateQueue
<1>2. CASE Receive
  <2>1. queue # <<>> /\ queue' = Tail(queue)
    BY <1>2 DEF Receive
  <2>2. queue' \in Seq(LinkStates) /\ Len(queue') = Len(queue) - 1
    BY <2>1, QueueTail
  <2>3. Len(queue) \in Nat /\ MaxQueue \in Nat
    BY PhyConstants
  <2>4. Len(queue') <= MaxQueue
    BY <2>2, <2>3
  <2>5. handler' \in Handler
    BY <1>2, QueueTail DEF Receive, Handler, HandlerPCs, PhyWords
  <2> QED
    BY <1>2, <2>2, <2>4, <2>5 DEF Receive
<1>3. CASE Translate
  <2>1. PICK w \in PhyWordsOf(handler.msg) :
           handler' = [handler EXCEPT !.pc = "lookup", !.word = w]
    BY <1>3 DEF Translate
  <2>2. handler' \in Handler
    BY <2>1, WordsTyped, HandlerWord
  <2> QED
    BY <1>3, <2>2 DEF Translate
<1>4. CASE FindWanInstance
  <2>1. handler' \in Handler
    BY <1>4, HandlerMoves DEF FindWanInstance, HandlerPCs
  <2> QED
    BY <1>4, <2>1 DEF FindWanInstance
<1>5. CASE SetPhyStatus
  <2>1. handler' \in Handler
    BY <1>5, HandlerMoves, HandlerTold DEF SetPhyStatus, HandlerPCs
  <2>2. phy' \in PhyWords \cup {"none"}
    BY <1>5 DEF SetPhyStatus, Handler
  <2> QED
    BY <1>5, <2>1, <2>2 DEF SetPhyStatus
<1>6. CASE ReceiveFails
  <2>1. handler' \in Handler
    BY <1>6, HandlerMoves DEF ReceiveFails, HandlerPCs
  <2> QED
    BY <1>6, <2>1 DEF ReceiveFails
<1> QED
  BY <1>1, <1>2, <1>3, <1>4, <1>5, <1>6 DEF HandlerStep

LEMMA TypeNext == TypeOK /\ [Next]_vars => TypeOK'
<1>1. TypeOK /\ UNCHANGED vars => TypeOK'
  BY DEF TypeOK, vars
<1> QED
  BY <1>1, TypeStart, TypeRestart, TypeCallback, TypeHandler DEF Next

\* Every variable keeps its type, and the queue never holds more than
\* MaxQueue messages.
THEOREM TypeCorrect == Spec => []TypeOK
BY TypeInit, TypeNext, PTL DEF Spec
-----------------------------------------------------------------------------
(* The inductive invariant. LastWord alone is not inductive: the queue     *)
(* takes what the callback holds, so that has to be the line's state, and  *)
(* a dropped state must not be what the next send makes up for.            *)

\* The callback carries the state it has just written, and runs only once it
\* is registered, when start-up no longer touches the line record.
Carries ==
    /\ start # "done" => callback.pc = "idle"
    /\ callback.pc # "idle" => line.named /\ callback.state = line.LinkStatus

\* No handler runs before it is started.
Unstarted ==
    start \in {"halInit", "lineInit", "spawn"} =>
        handler.pc = "off" /\ ~handler.told

\* The handler's word is one for its message, and so is what the WAN manager
\* has taken.
Speaks ==
    /\ handler.pc \in {"lookup", "set"} =>
          handler.word \in PhyWordsOf(handler.msg)
    /\ handler.told =>
          /\ handler.pc \in {"receive", "ended"}
          /\ phy \in PhyWordsOf(handler.msg)

PhyInv == TypeOK /\ Carries /\ Unstarted /\ Speaks /\ LastWord

LEMMA InvInit == Init => PhyInv
<1> SUFFICES ASSUME Init PROVE PhyInv
  OBVIOUS
<1> QED
  BY TypeInit, IdleCallback
     DEF Init, PhyInv, Carries, Unstarted, Speaks, LastWord, NewLine,
         NewHandler

LEMMA InvStart == PhyInv /\ StartStep => PhyInv'
<1> SUFFICES ASSUME PhyInv, StartStep PROVE PhyInv'
  OBVIOUS
<1> USE DEF PhyInv
<1>1. TypeOK'
  BY TypeStart
<1>2. callback' = callback /\ callback.pc = "idle"
  BY DEF StartStep, HalInit, LineInit, TriggerEventHandlerThread,
         RegisterDslLinkStatusCallback, Carries
<1>3. Carries'
  BY <1>2 DEF Carries
<1>4. Unstarted' /\ Speaks' /\ LastWord'
  <2>1. CASE HalInit
    BY <1>2, <2>1 DEF HalInit, Unstarted, Speaks, LastWord, InFlight
  <2>2. CASE LineInit
    BY <1>2, <2>2 DEF LineInit, NewLine, Unstarted, Speaks, LastWord
  <2>3. CASE TriggerEventHandlerThread
    <3>1. /\ start' = "register"
          /\ ~handler'.told
          /\ handler'.pc \in {"off", "create"}
          /\ handler'.msg = handler.msg
      BY <2>3 DEF TriggerEventHandlerThread, Unstarted, TypeOK, Handler
    <3> QED
      BY <1>2, <2>3, <3>1
         DEF TriggerEventHandlerThread, Unstarted, Speaks, LastWord, InFlight
  <2>4. CASE RegisterDslLinkStatusCallback
    BY <1>2, <2>4
       DEF RegisterDslLinkStatusCallback, Unstarted, Speaks, LastWord, InFlight
  <2> QED
    BY <2>1, <2>2, <2>3, <2>4 DEF StartStep
<1> QED
  BY <1>1, <1>3, <1>4

LEMMA InvRestart == PhyInv /\ Restart => PhyInv'
<1> SUFFICES ASSUME PhyInv, Restart PROVE PhyInv'
  OBVIOUS
<1>1. TypeOK'
  BY TypeRestart DEF PhyInv
<1>2. Carries' /\ Unstarted' /\ Speaks' /\ LastWord'
  BY IdleCallback
     DEF Restart, Carries, Unstarted, Speaks, LastWord, NewLine, NewHandler
<1> QED
  BY <1>1, <1>2 DEF PhyInv

LEMMA InvCallback ==
  ASSUME PhyInv,
         \/ CallbackStep \/ SendFails
         \/ \E v \in EventValues : LinkEvent(v)
  PROVE  PhyInv'
<1> USE DEF PhyInv
<1>1. TypeOK'
  BY TypeCallback
<1>2. ASSUME NEW v \in EventValues, LinkEvent(v)
      PROVE  Carries' /\ Unstarted' /\ Speaks' /\ LastWord'
  <2>1. PICK s \in LinkStatusOf(v) \ {NotValid} :
           /\ UpdateLinkStatus(s)
           /\ callback' = [pc |-> "open", heard |-> v, state |-> s]
    BY <1>2 DEF LinkEvent
  <2>2. /\ line'.named /\ line'.LinkStatus = s
        /\ callback'.pc = "open" /\ callback'.state = s
    BY <2>1 DEF UpdateLinkStatus
  <2> QED
    BY <1>2, <2>2
       DEF LinkEvent, Carries, Unstarted, Speaks, LastWord, InFlight
<1>3. CASE OpenQueue
  <2>1. CASE queueExists
    <3>1. callback'.pc = "send" /\ callback'.state = callback.state
      BY <1>3, <2>1 DEF OpenQueue, TypeOK, Callback
    <3>2. callback.pc = "open" /\ missed' = missed
      BY <1>3, <2>1 DEF OpenQueue, TypeOK
    <3> QED
      BY <1>1, <1>3, <3>1, <3>2
         DEF OpenQueue, Carries, Unstarted, Speaks, LastWord, InFlight
  <2>2. CASE ~queueExists
    <3>1. callback'.pc = "idle" /\ missed'
      BY <1>3, <2>2, IdleCallback DEF OpenQueue
    <3> QED
      BY <1>1, <1>3, <3>1
         DEF OpenQueue, Carries, Unstarted, Speaks, LastWord
  <2> QED
    BY <2>1, <2>2
<1>4. CASE SendToQueue
  <2>1. callback.pc = "send" /\ callback'.pc = "idle"
    BY <1>4, IdleCallback DEF SendToQueue
  <2>2. Carries' /\ Unstarted' /\ Speaks'
    BY <1>4, <2>1 DEF SendToQueue, Carries, Unstarted, Speaks
  <2>3. LastWord'
    <3>1. callback.state = line.LinkStatus /\ callback.state \in LinkStates
      BY <2>1 DEF Carries, TypeOK, Line
    <3>2. queue' # <<>> /\ queue'[Len(queue')] = line.LinkStatus
      BY <1>4, <3>1, QueueAppend DEF SendToQueue, TypeOK
    <3> QED
      BY <1>4, <2>1, <3>2 DEF SendToQueue, LastWord, InFlight
  <2> QED
    BY <1>1, <2>2, <2>3
<1>5. CASE SendFails
  <2>1. callback'.pc = "idle" /\ missed'
    BY <1>5, IdleCallback DEF SendFails
  <2> QED
    BY <1>1, <1>5, <2>1 DEF SendFails, Carries, Unstarted, Speaks, LastWord
<1> QED
  BY <1>1, <1>2, <1>3, <1>4, <1>5 DEF CallbackStep

LEMMA InvHandler ==
  PhyInv /\ (HandlerStep \/ ReceiveFails) => PhyInv'
<1> SUFFICES ASSUME PhyInv, HandlerStep \/ ReceiveFails PROVE PhyInv'
  OBVIOUS
<1> USE DEF PhyInv
<1>1. TypeOK'
  BY TypeHandler
<1>2. handler.pc # "off" /\ UNCHANGED <<start, line, callback, missed>>
  BY DEF HandlerStep, CreateQueue, Receive, ReceiveFails, Translate,
         FindWanInstance, SetPhyStatus
<1>3. Carries' /\ Unstarted'
  BY <1>2 DEF Carries, Unstarted
<1>4. handler \in Handler
  BY DEF TypeOK
<1>5. ASSUME UNCHANGED queue, handler'.msg = handler.msg
      PROVE  LastWord'
  BY <1>2, <1>5 DEF LastWord, InFlight
<1>6. CASE CreateQueue
  <2>1. /\ handler'.msg = handler.msg /\ ~handler'.told
        /\ handler'.pc \in {"receive", "ended"}
    BY <1>4, <1>6 DEF CreateQueue, Handler, Speaks
  <2> QED
    BY <1>1, <1>3, <1>5, <1>6, <2>1 DEF CreateQueue, Speaks
<1>7. CASE Receive
  <2>1. queue # <<>> /\ queue' = Tail(queue)
    BY <1>7 DEF Receive
  <2>2. /\ handler'.msg = Head(queue) /\ handler'.pc = "translate"
        /\ ~handler'.told
    BY <1>7 DEF Receive
  <2>3. InFlight' = InFlight
    <3>1. CASE callback.pc # "idle"
      BY <1>2, <3>1 DEF InFlight
    <3>2. CASE callback.pc = "idle" /\ queue' = <<>>
      <4>1. queue[Len(queue)] = Head(queue)
        BY <2>1, <3>2, QueueTail DEF TypeOK
      <4> QED
        BY <1>2, <2>1, <2>2, <3>2, <4>1 DEF InFlight
    <3>3. CASE callback.pc = "idle" /\ queue' # <<>>
      <4>1. queue'[Len(queue')] = queue[Len(queue)]
        BY <2>1, <3>3, QueueTail DEF TypeOK
      <4> QED
        BY <1>2, <2>1, <3>3, <4>1 DEF InFlight
    <3> QED
      BY <3>1, <3>2, <3>3
  <2> QED
    BY <1>1, <1>2, <1>3, <2>2, <2>3 DEF Speaks, LastWord
<1>8. CASE Translate
  <2>1. PICK w \in PhyWordsOf(handler.msg) :
           handler' = [handler EXCEPT !.pc = "lookup", !.word = w]
    BY <1>8 DEF Translate
  <2>2. /\ handler'.msg = handler.msg /\ handler'.word = w
        /\ handler'.pc = "lookup" /\ handler'.told = handler.told
    BY <1>4, <2>1 DEF Handler
  <2>3. ~handler.told
    BY <1>8 DEF Translate, Speaks
  <2> QED
    BY <1>1, <1>3, <1>5, <1>8, <2>1, <2>2, <2>3 DEF Translate, Speaks
<1>9. CASE FindWanInstance
  <2>1. /\ handler'.msg = handler.msg /\ handler'.word = handler.word
        /\ handler'.pc \in {"set", "receive"} /\ handler'.told = handler.told
    BY <1>4, <1>9 DEF FindWanInstance, Handler
  <2>2. ~handler.told
    BY <1>9 DEF FindWanInstance, Speaks
  <2>3. handler.pc = "lookup" /\ UNCHANGED <<queue, phy>>
    BY <1>9 DEF FindWanInstance
  <2> QED
    BY <1>1, <1>3, <1>5, <2>1, <2>2, <2>3 DEF Speaks
<1>10. CASE SetPhyStatus
  <2>1. handler'.msg = handler.msg /\ handler'.pc = "receive"
    BY <1>4, <1>10 DEF SetPhyStatus, Handler
  <2>2. handler.pc = "set" /\ UNCHANGED queue
    BY <1>10 DEF SetPhyStatus
  <2>3. ~handler.told
    BY <2>2 DEF Speaks
  <2>4. handler'.told => phy' = handler.word
    BY <1>4, <1>10, <2>3 DEF SetPhyStatus, Handler
  <2> QED
    BY <1>1, <1>3, <1>5, <2>1, <2>2, <2>4 DEF Speaks
<1>11. CASE ReceiveFails
  <2>1. /\ handler'.msg = handler.msg /\ handler'.pc = "ended"
        /\ handler'.told = handler.told
    BY <1>4, <1>11 DEF ReceiveFails, Handler
  <2>2. handler.pc = "receive" /\ UNCHANGED <<queue, phy>>
    BY <1>11 DEF ReceiveFails
  <2> QED
    BY <1>1, <1>3, <1>5, <2>1, <2>2 DEF Speaks
<1> QED
  BY <1>6, <1>7, <1>8, <1>9, <1>10, <1>11 DEF HandlerStep

LEMMA InvNext == PhyInv /\ [Next]_vars => PhyInv'
<1>1. PhyInv /\ UNCHANGED vars => PhyInv'
  BY DEF PhyInv, TypeOK, Carries, Unstarted, Speaks, LastWord, InFlight, vars
<1> QED
  BY <1>1, InvStart, InvRestart, InvCallback, InvHandler DEF Next

\* The newest state on its way to the WAN manager is that of the line record
\* unless it was dropped, through full queues, restarts and failing calls.
THEOREM LastWordHolds == Spec => []LastWord
<1>1. PhyInv => LastWord
  BY DEF PhyInv
<1> QED
  BY <1>1, InvInit, InvNext, PTL DEF Spec

\* Once nothing is on its way, what the WAN manager took is the word for the
\* line's state: no message of an earlier life has the last word.
THEOREM PhySettledHolds == Spec => []PhySettled
<1>1. PhyInv => PhySettled
  BY DEF PhyInv, LastWord, InFlight, Quiet, Speaks, PhySettled
<1> QED
  BY <1>1, InvInit, InvNext, PTL DEF Spec
-----------------------------------------------------------------------------
(* The refinement of LinkFeed. The states on their way pass from callback  *)
(* to queue to handler, which the mapping does not see; a step that it     *)
(* sees takes the first or the last away, or adds one at the end.          *)

\* No line has its name before start-up is done, and the handler works on a
\* state, not on nothing.
Ready ==
    /\ start # "done" => ~line.named
    /\ handler.pc \in {"translate", "lookup", "set"} =>
          handler.msg \in LinkStates

\* That stays so.
LEMMA ReadyStep == PhyInv /\ Ready /\ [Next]_vars => Ready'
<1> SUFFICES ASSUME PhyInv, Ready, [Next]_vars PROVE Ready'
  OBVIOUS
<1>0. TypeOK /\ handler \in Handler
  BY DEF PhyInv, TypeOK
<1>1. CASE StartStep
  <2>1. handler'.pc \in {handler.pc, "create"} /\ handler'.msg = handler.msg
    BY <1>0, <1>1 DEF StartStep, HalInit, LineInit, TriggerEventHandlerThread,
                      RegisterDslLinkStatusCallback, Handler
  <2>2. ~line'.named
    BY <1>1 DEF StartStep, HalInit, LineInit, TriggerEventHandlerThread,
                RegisterDslLinkStatusCallback, Ready, NewLine
  <2> QED
    BY <2>1, <2>2 DEF Ready
<1>2. CASE Restart
  BY <1>2 DEF Restart, Ready, NewLine, NewHandler
<1>3. CASE \E v \in EventValues : LinkEvent(v)
  BY <1>3 DEF LinkEvent, Ready
<1>4. CASE CallbackStep \/ SendFails
  BY <1>4 DEF CallbackStep, OpenQueue, SendToQueue, SendFails, Ready
<1>5. CASE HandlerStep \/ ReceiveFails
  <2>1. UNCHANGED <<start, line>>
    BY <1>5 DEF HandlerStep, CreateQueue, Receive, ReceiveFails, Translate,
                FindWanInstance, SetPhyStatus
  <2>2. CASE Receive
    BY <1>0, <2>1, <2>2, QueueTail DEF Receive, Ready, TypeOK
  <2>3. CASE Translate \/ FindWanInstance
    BY <1>0, <2>1, <2>3 DEF Translate, FindWanInstance, Ready, Handler
  <2>4. CASE CreateQueue \/ SetPhyStatus \/ ReceiveFails
    BY <1>0, <2>1, <2>4
       DEF CreateQueue, SetPhyStatus, ReceiveFails, Ready, Handler
  <2> QED
    BY <1>5, <2>2, <2>3, <2>4 DEF HandlerStep
<1>6. CASE UNCHANGED vars
  BY <1>6 DEF vars, Ready
<1> QED
  BY <1>1, <1>2, <1>3, <1>4, <1>5, <1>6 DEF Next

-----------------------------------------------------------------------------
\* Three parts joined, of which the first passes its head to the part before.
LEMMA JoinHead ==
  ASSUME NEW q \in Seq(LinkStates), q # <<>>, NEW c \in Seq(LinkStates)
  PROVE  <<Head(q)>> \o Tail(q) \o c = <<>> \o q \o c
<1>1. <<Head(q)>> \o Tail(q) = q /\ <<>> \o q = q
  OBVIOUS
<1> QED
  BY <1>1

\* The last element may as well end the middle, and is the one to be cut off.
LEMMA JoinLast ==
  ASSUME NEW h \in Seq(LinkStates), NEW q \in Seq(LinkStates),
         NEW s \in LinkStates
  PROVE  /\ h \o Append(q, s) \o <<>> = h \o q \o <<s>>
         /\ h \o q \o <<s>> = Append(h \o q \o <<>>, s)
         /\ h \o q \o <<s>> # <<>>
         /\ Len(h \o q \o <<s>>) = Len(h) + Len(q) + 1
         /\ SubSeq(h \o q \o <<s>>, 1, Len(h \o q \o <<s>>) - 1)
               = h \o q \o <<>>
OBVIOUS

\* The first element is the head.
LEMMA JoinFirst ==
  ASSUME NEW s \in LinkStates, NEW q \in Seq(LinkStates),
         NEW c \in Seq(LinkStates)
  PROVE  /\ <<s>> \o q \o c # <<>>
         /\ Head(<<s>> \o q \o c) = s
         /\ Tail(<<s>> \o q \o c) = <<>> \o q \o c
OBVIOUS

\* Without the ends, at most one element goes at either side.
LEMMA JoinMiddle ==
  ASSUME NEW h \in Seq(LinkStates), NEW q \in Seq(LinkStates),
         NEW c \in Seq(LinkStates),
         Len(h) <= 1, Len(c) <= 1
  PROVE  \E first \in {1, 2} :
         \E last \in {Len(h \o q \o c) - 1, Len(h \o q \o c)} :
            <<>> \o q \o <<>> = SubSeq(h \o q \o c, first, last)
<1>1. <<>> \o q \o <<>> = SubSeq(h \o q \o c, Len(h) + 1, Len(h) + Len(q))
  OBVIOUS
<1>2. Len(h \o q \o c) = Len(h) + Len(q) + Len(c)
  OBVIOUS
<1> DEFINE whole == h \o q \o c
<1>3. Len(h) \in Nat /\ Len(q) \in Nat /\ Len(c) \in Nat
  OBVIOUS
<1>4. Len(h) + 1 \in {1, 2}
  BY <1>3
<1>5. Len(h) + Len(q) \in {Len(whole) - 1, Len(whole)}
  BY <1>2, <1>3
<1> HIDE DEF whole
<1>6. <<>> \o q \o <<>> = SubSeq(whole, Len(h) + 1, Len(h) + Len(q))
  BY <1>1 DEF whole
<1>7. \E first \in {1, 2} : \E last \in {Len(whole) - 1, Len(whole)} :
         <<>> \o q \o <<>> = SubSeq(whole, first, last)
  BY <1>4, <1>5, <1>6, Zenon
<1> QED
  BY <1>7 DEF whole

-----------------------------------------------------------------------------
\* What the states on their way are made of.
LEMMA UntoldParts ==
  ASSUME PhyInv, Ready
  PROVE  /\ Taken \in Seq(LinkStates) /\ Len(Taken) <= 1
         /\ queue \in Seq(LinkStates) /\ Len(queue) <= MaxQueue
         /\ Carried \in Seq(LinkStates) /\ Len(Carried) <= 1
         /\ callback.pc # "idle" => callback.state \in LinkStates
<1>1. TypeOK
  BY DEF PhyInv
<1>2. callback.pc # "idle" => callback.state \in LinkStates
  BY <1>1 DEF TypeOK, Callback
<1>3. Carried \in Seq(LinkStates) /\ Len(Carried) <= 1
  BY <1>2 DEF Carried
<1>4. Taken \in Seq(LinkStates) /\ Len(Taken) <= 1
  BY DEF Taken, Ready
<1> QED
  BY <1>1, <1>2, <1>3, <1>4 DEF TypeOK

\* The link's state under the mapping.
Current == IF line.named THEN line.LinkStatus ELSE NoState

\* Start-up is not seen: no line has its name yet.
LEMMA StartFeeds ==
  ASSUME PhyInv, Ready, StartStep
  PROVE  UNCHANGED <<Current, Untold, phy>>
<1>1. UNCHANGED <<callback, queue, phy>>
  BY DEF StartStep, HalInit, LineInit, TriggerEventHandlerThread,
         RegisterDslLinkStatusCallback
<1>2. ~line.named /\ ~line'.named
  BY DEF StartStep, HalInit, LineInit, TriggerEventHandlerThread,
         RegisterDslLinkStatusCallback, Ready, NewLine
<1>3. Taken' = Taken
  <2>1. CASE TriggerEventHandlerThread
    <3>1. handler.pc = "off" /\ handler \in Handler
      BY <2>1 DEF TriggerEventHandlerThread, PhyInv, Unstarted, TypeOK
    <3>2. handler'.pc \in {"off", "create"}
      BY <2>1, <3>1 DEF TriggerEventHandlerThread, Handler
    <3> QED
      BY <3>1, <3>2 DEF Taken
  <2>2. CASE UNCHANGED handler
    BY <2>2 DEF Taken
  <2> QED
    BY <2>1, <2>2 DEF StartStep, HalInit, LineInit,
                      RegisterDslLinkStatusCallback
<1>4. Carried' = Carried
  BY <1>1 DEF Carried
<1> QED
  BY <1>1, <1>2, <1>3, <1>4 DEF Current, Untold

\* A restart keeps the queue and loses what callback and handler hold.
LEMMA RestartFeeds ==
  ASSUME PhyInv, Ready, Restart
  PROVE  Feed!Restart
<1>1. Current' = NoState /\ phy' = phy
  BY DEF Restart, Current, NewLine
<1>2. Untold' = <<>> \o queue \o <<>>
  BY DEF Restart, Untold, Taken, Carried, NewHandler, NewCallback
<1>3. /\ Taken \in Seq(LinkStates) /\ queue \in Seq(LinkStates)
      /\ Carried \in Seq(LinkStates)
      /\ Len(Taken) <= 1 /\ Len(Carried) <= 1
  BY UntoldParts
<1>4. \E first \in {1, 2} : \E last \in {Len(Untold) - 1, Len(Untold)} :
         <<>> \o queue \o <<>> = SubSeq(Untold, first, last)
  BY <1>3, JoinMiddle, Zenon DEF Untold
<1> QED
  BY <1>1, <1>2, <1>4 DEF Feed!Restart, Current, NoState

\* An event adds its state at the end, where there is room for it: the callback
\* is idle, so at most the queue and the handler are full.
LEMMA EventFeeds ==
  ASSUME PhyInv, Ready, NEW v \in EventValues, LinkEvent(v)
  PROVE  \E s \in LinkStates : Feed!Change(s)
<1>1. PICK s \in LinkStatusOf(v) \ {NotValid} :
         /\ UpdateLinkStatus(s)
         /\ callback' = [pc |-> "open", heard |-> v, state |-> s]
  BY DEF LinkEvent
<1>2. s \in LinkStates
  BY <1>1 DEF LinkStatusOf, LinkStates, NotValid
<1>3. Current' = s
  BY <1>1 DEF UpdateLinkStatus, Current
<1>4. Carried = <<>> /\ Carried' = <<s>>
  BY <1>1 DEF LinkEvent, Carried
<1>5. UNCHANGED <<Taken, queue, phy>>
  BY DEF LinkEvent, Taken
<1>6. Untold' = Append(Untold, s)
  BY <1>2, <1>4, <1>5, UntoldParts, JoinLast DEF Untold
<1>7. Len(Untold) < MaxQueue + 2
  <2>1. Len(Untold) = Len(Taken) + Len(queue)
    BY <1>4, UntoldParts DEF Untold
  <2>2. Len(Taken) <= 1 /\ Len(queue) <= MaxQueue
    BY UntoldParts
  <2>3. Len(Taken) \in Nat /\ Len(queue) \in Nat /\ MaxQueue \in Nat
    BY UntoldParts, PhyConstants
  <2> QED
    BY <2>1, <2>2, <2>3
<1> QED
  BY <1>2, <1>3, <1>5, <1>6, <1>7 DEF Feed!Change, Current

\* The callback hands its state to the queue or drops it, and it is the newest.
LEMMA CallbackFeeds ==
  ASSUME PhyInv, Ready, CallbackStep \/ SendFails
  PROVE  Feed!LoseNewest \/ UNCHANGED <<Current, Untold, phy>>
<1>1. UNCHANGED <<Current, Taken, phy>>
  BY DEF CallbackStep, OpenQueue, SendToQueue, SendFails, Current, Taken
<1>2. callback.pc # "idle" /\ Carried = <<callback.state>>
  BY DEF CallbackStep, OpenQueue, SendToQueue, SendFails, Carried
<1>3. CASE OpenQueue /\ queueExists
  <2>1. callback' = [callback EXCEPT !.pc = "send"] /\ queue' = queue
    BY <1>3 DEF OpenQueue
  <2>2. callback'.pc # "idle" /\ callback'.state = callback.state
    BY <2>1 DEF PhyInv, TypeOK, Callback
  <2>3. Carried' = Carried
    BY <1>2, <2>2 DEF Carried
  <2> QED
    BY <1>1, <2>1, <2>3 DEF Untold
<1>4. CASE SendToQueue
  <2>1. queue' = Append(queue, callback.state) /\ Carried' = <<>>
    BY <1>4, IdleCallback DEF SendToQueue, Carried
  <2>2. Untold' = Untold
    BY <1>1, <1>2, <2>1, UntoldParts, JoinLast DEF Untold
  <2> QED
    BY <1>1, <2>2
<1>5. CASE (OpenQueue /\ ~queueExists) \/ SendFails
  <2>1. queue' = queue /\ Carried' = <<>>
    BY <1>5, IdleCallback DEF OpenQueue, SendFails, Carried
  <2>2. Untold # <<>> /\ Untold' = SubSeq(Untold, 1, Len(Untold) - 1)
    BY <1>1, <1>2, <2>1, UntoldParts, JoinLast DEF Untold
  <2> QED
    BY <1>1, <2>2 DEF Feed!LoseNewest, Current
<1> QED
  BY <1>3, <1>4, <1>5 DEF CallbackStep

\* The handler tells of the oldest state or gives it up, and takes the next
\* only then.
LEMMA HandlerFeeds ==
  ASSUME PhyInv, Ready, HandlerStep \/ ReceiveFails
  PROVE  \/ Feed!Tell \/ Feed!LoseOldest
         \/ UNCHANGED <<Current, Untold, phy>>
<1>1. UNCHANGED <<Current, Carried>>
  BY DEF HandlerStep, CreateQueue, Receive, ReceiveFails, Translate,
         FindWanInstance, SetPhyStatus, Current, Carried
<1>2. handler \in Handler
  BY DEF PhyInv, TypeOK
<1>3. ASSUME handler.pc \in {"lookup", "set"}, handler'.pc = "receive",
             queue' = queue
      PROVE  /\ Untold # <<>> /\ Head(Untold) = handler.msg
             /\ Untold' = Tail(Untold)
  <2>1. Taken = <<handler.msg>> /\ Taken' = <<>> /\ handler.msg \in LinkStates
    BY <1>3 DEF Taken, Ready
  <2> QED
    <3>1. queue \in Seq(LinkStates) /\ Carried \in Seq(LinkStates)
      BY UntoldParts
    <3>2. Untold = <<handler.msg>> \o queue \o Carried
      BY <2>1 DEF Untold
    <3>3. Untold' = <<>> \o queue \o Carried
      BY <1>1, <1>3, <2>1 DEF Untold
    <3> QED
      BY <2>1, <3>1, <3>2, <3>3, JoinFirst
<1>4. CASE CreateQueue \/ ReceiveFails
  <2>1. UNCHANGED <<queue, phy>> /\ Taken = <<>>
    BY <1>4 DEF CreateQueue, ReceiveFails, Taken
  <2>2. handler'.pc \in {"receive", "ended"}
    BY <1>2, <1>4 DEF CreateQueue, ReceiveFails, Handler
  <2> QED
    BY <1>1, <2>1, <2>2 DEF Untold, Taken
<1>5. CASE Receive
  <2>1. /\ queue # <<>> /\ queue' = Tail(queue) /\ phy' = phy
        /\ Taken = <<>> /\ Taken' = <<Head(queue)>>
    BY <1>5 DEF Receive, Taken
  <2>2. Untold' = Untold
    BY <1>1, <2>1, UntoldParts, JoinHead DEF Untold
  <2> QED
    BY <1>1, <2>1, <2>2
<1>6. CASE Translate
  <2>1. UNCHANGED <<queue, phy>> /\ Taken = <<handler.msg>>
    BY <1>6 DEF Translate, Taken
  <2>2. handler'.pc = "lookup" /\ handler'.msg = handler.msg
    BY <1>2, <1>6 DEF Translate, Handler
  <2> QED
    BY <1>1, <2>1, <2>2 DEF Untold, Taken
<1>7. CASE FindWanInstance
  <2>1. UNCHANGED <<queue, phy>> /\ handler.pc = "lookup"
    BY <1>7 DEF FindWanInstance
  <2>2. handler'.pc \in {"set", "receive"} /\ handler'.msg = handler.msg
    BY <1>2, <1>7 DEF FindWanInstance, Handler
  <2>3. CASE handler'.pc = "set"
    BY <1>1, <2>1, <2>2, <2>3 DEF Untold, Taken
  <2>4. CASE handler'.pc = "receive"
    BY <1>1, <1>3, <2>1, <2>4 DEF Feed!LoseOldest, Current
  <2> QED
    BY <2>2, <2>3, <2>4
<1>8. CASE SetPhyStatus
  <2>1. handler.pc = "set" /\ queue' = queue /\ phy' \in {phy, handler.word}
    BY <1>8 DEF SetPhyStatus
  <2>2. handler'.pc = "receive"
    BY <1>2, <1>8 DEF SetPhyStatus, Handler
  <2>3. Untold # <<>> /\ Head(Untold) = handler.msg /\ Untold' = Tail(Untold)
    BY <1>3, <2>1, <2>2
  <2>4. CASE phy' = phy
    BY <1>1, <2>3, <2>4 DEF Feed!LoseOldest, Current
  <2>5. CASE phy' = handler.word
    <3>1. handler.word \in PhyWordsOf(handler.msg) /\ handler.msg \in LinkStates
      BY <2>1 DEF PhyInv, Speaks, Ready
    <3>2. phy' \in [s \in LinkStates |-> PhyWordsOf(s)][Head(Untold)]
      BY <2>3, <2>5, <3>1
    <3> QED
      BY <1>1, <2>3, <3>2 DEF Feed!Tell, Current
  <2> QED
    BY <2>1, <2>4, <2>5
<1> QED
  BY <1>4, <1>5, <1>6, <1>7, <1>8 DEF HandlerStep

\* Every step is a step of LinkFeed or is not seen.
LEMMA StepFeeds ==
  PhyInv /\ Ready /\ [Next]_vars => [Feed!Next]_(Feed!feedVars)
<1> SUFFICES ASSUME PhyInv, Ready, [Next]_vars
             PROVE  Feed!Next \/ UNCHANGED <<Current, Untold, phy>>
  BY DEF Feed!feedVars, Current
<1>1. CASE UNCHANGED vars
  BY <1>1 DEF vars, Current, Untold, Taken, Carried
<1>2. CASE \E v \in EventValues : LinkEvent(v)
  BY <1>2, EventFeeds DEF Feed!Next
<1> QED
  BY <1>1, <1>2, StartFeeds, RestartFeeds, CallbackFeeds, HandlerFeeds
     DEF Next, Feed!Next

\* The WAN manager hears of the link's states in the order they came in, through
\* full queues, restarts and failing calls: PhyEvents implements LinkFeed.
THEOREM FeedRefined == Spec => FeedSpec
<1>1. ASSUME Init PROVE Feed!Init /\ Ready
  <2>1. ~line.named /\ handler.pc = "off" /\ callback.pc = "idle"
    BY <1>1, IdleCallback DEF Init, NewLine, NewHandler
  <2>2. Taken = <<>> /\ Carried = <<>> /\ queue = <<>> /\ phy = "none"
    BY <1>1, <2>1 DEF Init, Taken, Carried
  <2>3. Untold = <<>>
    BY <2>2 DEF Untold
  <2> QED
    BY <2>1, <2>2, <2>3 DEF Feed!Init, Ready, NoState
<1> QED
  BY <1>1, InvInit, InvNext, ReadyStep, StepFeeds, PTL
     DEF Spec, FeedSpec, Feed!Spec
=============================================================================
