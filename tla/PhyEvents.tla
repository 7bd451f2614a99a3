----------------------------- MODULE PhyEvents -----------------------------
(***************************************************************************)
(* How the state of the DSL link reaches the WAN manager: the HAL event    *)
(* callback, the line record it writes, the POSIX message queue it sends   *)
(* to and the event handler thread that sets Phy.Status, with the start-up *)
(* that brings them to life one after the other and restarts of the        *)
(* process, which the queue survives.                                      *)
(***************************************************************************)
EXTENDS Naturals, Sequences

CONSTANTS
    EventValues, \* values of Line.1.LinkStatus the HAL server publishes
    MaxQueue,    \* MAX_QUEUE_LENGTH, 100 in the code
    Hub4,        \* _HUB4_PRODUCT_REQ_
    Faults       \* which calls may fail, see AllFaults

LinkStates == {"Up", "Initializing", "EstablishingLink", "NoSignal",
               "Disabled", "Error"}
DownStates == {"NoSignal", "Disabled", "Error"}
AllFaults  ==
    {"hal",      \* no connection in 10 s, or the driver cannot be configured
     "sysevent", \* sysevent_open
     "spawn",    \* pthread_create of the handler
     "queue",    \* mq_open of the handler
     "send",     \* mq_send
     "receive",  \* mq_receive
     "wan"}      \* no instance at the WAN manager, or it refuses the value
NoState    == "none"     \* no message
NotValid   == "invalid"  \* a value outside DslLinkStatus_t

ASSUME PhyConstants ==
    /\ EventValues \subseteq STRING
    /\ MaxQueue \in Nat \ {0}
    /\ Hub4 \in BOOLEAN
    /\ Faults \subseteq AllFaults
-----------------------------------------------------------------------------
VARIABLES
    start,       \* how far DmlXdslInit has come
    line,        \* Name (is it set) and LinkStatus of gpstLineGInfo[0]
    callback,    \* the HAL thread in eventcb: place, value heard, its state
    queue,       \* messages of /DSL_event_queue
    queueExists, \* the queue has been created, in this life or before
    handler,     \* the event handler thread: place, message, word to set and,
                 \* as history, whether the WAN manager took the last one
    phy,         \* Phy.Status at the WAN manager
    missed       \* history: the newest link state never got into the queue

vars == <<start, line, callback, queue, queueExists, handler, phy, missed>>

StartPCs   == {"halInit", "lineInit", "spawn", "register", "done", "failed"}
HandlerPCs == {"off", "create", "receive", "translate", "lookup", "set",
               "ended"}
PhyWords   == {"Up", "Initializing", "Down", ""}

Line     == [named : BOOLEAN, LinkStatus : LinkStates]
Callback == [pc : {"idle", "open", "send"},
             heard : EventValues \cup {NoState},
             state : LinkStates \cup {NoState}]
Handler  == [pc : HandlerPCs, msg : LinkStates \cup {NoState},
             word : PhyWords, told : BOOLEAN]

NewLine     == [named |-> FALSE, LinkStatus |-> "Disabled"]
NewCallback == [pc |-> "idle", heard |-> NoState, state |-> NoState]
NewHandler  == [pc |-> "off", msg |-> NoState, word |-> "", told |-> FALSE]

Init ==
    /\ start = "halInit"
    /\ line = NewLine
    /\ callback = NewCallback
    /\ queue = <<>>
    /\ queueExists = FALSE
    /\ handler = NewHandler
    /\ phy = "none"
    /\ missed = FALSE
-----------------------------------------------------------------------------
(* Start-up. Events of a link that nobody is registered for change nothing.*)

\* xdsl_hal_init: the first failure ends DmlXdslInit for good.
HalInit ==
    /\ start = "halInit"
    /\ \/ start' = "lineInit"
       \/ "hal" \in Faults /\ start' = "failed"
    /\ UNCHANGED <<line, callback, queue, queueExists, handler, phy, missed>>

\* The line record is filled, then sysevent is opened.
LineInit ==
    /\ start = "lineInit"
    /\ line' = NewLine
    /\ \/ start' = "spawn"
       \/ "sysevent" \in Faults /\ start' = "failed"
    /\ UNCHANGED <<callback, queue, queueExists, handler, phy, missed>>

\* A handler that cannot be started is logged, and start-up goes on.
TriggerEventHandlerThread ==
    /\ start = "spawn"
    /\ start' = "register"
    /\ \/ handler' = [handler EXCEPT !.pc = "create"]
       \/ "spawn" \in Faults /\ UNCHANGED handler
    /\ UNCHANGED <<line, callback, queue, queueExists, phy, missed>>

RegisterDslLinkStatusCallback ==
    /\ start = "register"
    /\ start' = "done"
    /\ UNCHANGED <<line, callback, queue, queueExists, handler, phy, missed>>

\* The process ends and is started again. The queue is never unlinked.
Restart ==
    /\ start # "halInit"
    /\ start' = "halInit"
    /\ line' = NewLine
    /\ callback' = NewCallback
    /\ handler' = NewHandler
    /\ missed' = FALSE
    /\ UNCHANGED <<queue, queueExists, phy>>
-----------------------------------------------------------------------------
(* The HAL thread.                                                         *)

\* What eventcb hands on for a value. It knows three; for any other it hands
\* on an uninitialised variable.
LinkStatusOf(v) ==
    CASE v = "up"       -> {"Up"}
      [] v = "training" -> {"Initializing"}
      [] v = "down"     -> {"Disabled"}
      [] OTHER          -> LinkStates \cup {NotValid}

\* DmlXdslLineUpdateLinkStatusAndGetGlobalInfoForGivenIfName("dsl0", s): the
\* first event gives the line its name.
UpdateLinkStatus(s) == line' = [named |-> TRUE, LinkStatus |-> s]

\* DmlXdslLineLinkStatusCallback, up to the message queue. It ignores a value
\* outside DslLinkStatus_t.
LinkEvent(v) ==
    /\ start = "done"
    /\ callback.pc = "idle"
    /\ \E s \in LinkStatusOf(v) \ {NotValid} :
          /\ UpdateLinkStatus(s)
          /\ callback' = [pc |-> "open", heard |-> v, state |-> s]
    /\ UNCHANGED <<start, queue, queueExists, handler, phy, missed>>

\* mq_open without O_CREAT: before the handler has created the queue the
\* state is dropped.
OpenQueue ==
    /\ callback.pc = "open"
    /\ callback' = IF queueExists THEN [callback EXCEPT !.pc = "send"]
                                  ELSE NewCallback
    /\ missed' = (missed \/ ~queueExists)
    /\ UNCHANGED <<start, line, queue, queueExists, handler, phy>>

\* Mutant: drops the state when the queue is full.
SendToQueue_DropWhenFull ==
    /\ callback.pc = "send"
    /\ queue' = IF Len(queue) < MaxQueue THEN Append(queue, callback.state)
                                         ELSE queue
    /\ missed' = FALSE
    /\ callback' = NewCallback
    /\ UNCHANGED <<start, line, queueExists, handler, phy>>

\* Mutant: a full queue makes room by dropping its oldest state.
SendToQueue_DropsOldest ==
    /\ callback.pc = "send"
    /\ queue' = Append(IF Len(queue) < MaxQueue THEN queue ELSE Tail(queue),
                       callback.state)
    /\ missed' = FALSE
    /\ callback' = NewCallback
    /\ UNCHANGED <<start, line, queueExists, handler, phy>>

\* mq_send blocks while the queue is full.
SendToQueue ==
    /\ callback.pc = "send"
    /\ Len(queue) < MaxQueue
    /\ queue' = Append(queue, callback.state)
    /\ missed' = FALSE
    /\ callback' = NewCallback
    /\ UNCHANGED <<start, line, queueExists, handler, phy>>

\* A failing mq_send drops the state.
SendFails ==
    /\ "send" \in Faults
    /\ callback.pc = "send"
    /\ missed' = TRUE
    /\ callback' = NewCallback
    /\ UNCHANGED <<start, line, queue, queueExists, handler, phy>>
-----------------------------------------------------------------------------
(* The event handler thread.                                               *)

\* mq_open with O_CREAT: messages of an earlier life are still there.
CreateQueue ==
    /\ handler.pc = "create"
    /\ \/ /\ queueExists' = TRUE
          /\ handler' = [handler EXCEPT !.pc = "receive"]
       \/ /\ "queue" \in Faults
          /\ handler' = [handler EXCEPT !.pc = "ended"]
          /\ UNCHANGED queueExists
    /\ UNCHANGED <<start, line, callback, queue, phy, missed>>

\* Mutant: stops after the first message.
Receive_Once ==
    /\ handler.pc = "receive"
    /\ queue # <<>>
    /\ queue' = Tail(queue)
    /\ handler.msg = NoState
    /\ handler' = [pc |-> "translate", msg |-> Head(queue), word |-> "",
                   told |-> FALSE]
    /\ UNCHANGED <<start, line, callback, queueExists, phy, missed>>

Receive ==
    /\ handler.pc = "receive"
    /\ queue # <<>>
    /\ queue' = Tail(queue)
    /\ handler' = [pc |-> "translate", msg |-> Head(queue), word |-> "",
                   told |-> FALSE]
    /\ UNCHANGED <<start, line, callback, queueExists, phy, missed>>

\* A failing mq_receive ends the thread.
ReceiveFails ==
    /\ "receive" \in Faults
    /\ handler.pc = "receive"
    /\ handler' = [handler EXCEPT !.pc = "ended"]
    /\ UNCHANGED <<start, line, callback, queue, queueExists, phy, missed>>

\* Mutant: hands a state it has no word for on as it is.
PhyWordsOf_Raw(s) ==
    CASE s = "Up"         -> {"Up"}
      [] s \in DownStates -> {"Down"}
      [] OTHER            -> {s}

\* Mutant: a disabled link is taken for one in training.
PhyWordsOf_DisabledInTraining(s) ==
    CASE s = "Up"                  -> {"Up"}
      [] s \in {"NoSignal", "Error"} -> {"Down"}
      [] OTHER -> IF Hub4 THEN {"", "Initializing"} ELSE {""}

\* The words the handler may choose for a link state. A link in training has
\* one on HUB4 only, and not while the LED shows a line in service.
PhyWordsOf(s) ==
    CASE s = "Up"         -> {"Up"}
      [] s \in DownStates -> {"Down"}
      [] OTHER            -> IF Hub4 THEN {"", "Initializing"} ELSE {""}

\* Mutant: the buffer for the word is not cleared for each message.
Translate_KeepsWord ==
    /\ handler.pc = "translate"
    /\ \E w \in PhyWordsOf(handler.msg) :
          handler' = [handler EXCEPT !.pc = "lookup",
                                     !.word = IF w = "" /\ phy # "none" THEN phy ELSE w]
    /\ UNCHANGED <<start, line, callback, queue, queueExists, phy, missed>>

Translate ==
    /\ handler.pc = "translate"
    /\ \E w \in PhyWordsOf(handler.msg) :
          handler' = [handler EXCEPT !.pc = "lookup", !.word = w]
    /\ UNCHANGED <<start, line, callback, queue, queueExists, phy, missed>>

\* DmlXdslSetPhyStatusForWanManager looks the line up by name, then its
\* instance at the WAN manager. A line without a name has none.
FindWanInstance ==
    /\ handler.pc = "lookup"
    /\ \/ /\ line.named
          /\ handler' = [handler EXCEPT !.pc = "set"]
       \/ /\ ~line.named \/ "wan" \in Faults
          /\ handler' = [handler EXCEPT !.pc = "receive"]
    /\ UNCHANGED <<start, line, callback, queue, queueExists, phy, missed>>

\* Whether the WAN manager took the value is not looked at.
SetPhyStatus ==
    /\ handler.pc = "set"
    /\ \/ /\ phy' = handler.word
          /\ handler' = [handler EXCEPT !.pc = "receive", !.told = TRUE]
       \/ /\ "wan" \in Faults
          /\ handler' = [handler EXCEPT !.pc = "receive"]
          /\ UNCHANGED phy
    /\ UNCHANGED <<start, line, callback, queue, queueExists, missed>>
-----------------------------------------------------------------------------
StartStep    == HalInit \/ LineInit \/ TriggerEventHandlerThread
                        \/ RegisterDslLinkStatusCallback
CallbackStep == OpenQueue \/ SendToQueue
HandlerStep  == CreateQueue \/ Receive \/ Translate \/ FindWanInstance
                            \/ SetPhyStatus

Next ==
    \/ StartStep
    \/ Restart
    \/ \E v \in EventValues : LinkEvent(v)
    \/ CallbackStep \/ SendFails
    \/ HandlerStep \/ ReceiveFails

Spec == Init /\ [][Next]_vars

\* Threads run. Nothing makes the modem speak, the process end, or a call on
\* the queue fail.
FairSpec == Spec /\ WF_vars(StartStep) /\ WF_vars(CallbackStep)
                 /\ WF_vars(HandlerStep)
-----------------------------------------------------------------------------
(* Properties.                                                             *)

\* Every variable keeps its type, and the queue its length.
TypeOK ==
    /\ start \in StartPCs
    /\ line \in Line
    /\ callback \in Callback
    /\ (callback.pc = "idle") <=> (callback.state = NoState)
    /\ queue \in Seq(LinkStates)
    /\ Len(queue) <= MaxQueue
    /\ queueExists \in BOOLEAN
    /\ handler \in Handler
    /\ phy \in PhyWords \cup {"none"}
    /\ missed \in BOOLEAN

\* The newest state on its way to the WAN manager: in the callback, last in
\* the queue, or the last one the handler took.
InFlight == IF callback.pc # "idle" THEN callback.state
            ELSE IF queue # <<>> THEN queue[Len(queue)]
            ELSE handler.msg

\* The last word on its way is the state in the line record, whatever an
\* earlier process left in the queue, unless that state was dropped because
\* there was no queue yet or mq_send failed (callback and handler share no
\* lock).
LastWord == line.named /\ ~missed => InFlight = line.LinkStatus

\* Nothing is on its way any more and the handler waits for the next message.
Quiet == callback.pc = "idle" /\ queue = <<>> /\ handler.pc = "receive"

\* When nothing is on its way, the Phy.Status that the WAN manager took is
\* that of the line record: stale messages and late ones never have the last
\* word.
PhySettled ==
    Quiet /\ line.named /\ ~missed /\ handler.told =>
        phy \in PhyWordsOf(line.LinkStatus)

\* The WAN manager has not taken the last message.
Refused == handler.pc = "receive" /\ handler.msg # NoState /\ ~handler.told

\* With a WAN manager that takes what it is told from some time on, a lost
\* link is reported as Down, unless it comes back first, the message was
\* dropped or the handler has ended.
LossReported ==
    <>[]~Refused =>
        (line.named /\ line.LinkStatus \in DownStates
            ~> \/ phy = "Down" \/ line.LinkStatus \notin DownStates
               \/ ~line.named \/ missed \/ handler.pc \in {"off", "ended"})

\* A HAL thread blocked on a full queue gets on as long as the handler lives.
CallbackReturns ==
    callback.pc # "idle" ~>
        callback.pc = "idle" \/ handler.pc \in {"off", "ended"}

\* The states that the WAN manager has not heard of, oldest first: the one the
\* handler works on, those in the queue, the one the callback carries.
Taken    == IF handler.pc \in {"translate", "lookup", "set"}
            THEN <<handler.msg>> ELSE <<>>
Carried  == IF callback.pc # "idle" THEN <<callback.state>> ELSE <<>>
Untold   == Taken \o queue \o Carried

Feed == INSTANCE LinkFeed WITH
    States   <- LinkStates,
    Words    <- [s \in LinkStates |-> PhyWordsOf(s)],
    Capacity <- MaxQueue + 2,
    current  <- IF line.named THEN line.LinkStatus ELSE NoState,
    pending  <- Untold,
    told     <- phy

\* Callback, queue and handler together do what LinkFeed promises: through a
\* full queue, failing calls and restarts the states are told in their order,
\* in words for them, and only the oldest or the newest on the way is lost.
FeedSpec == Feed!Spec
=============================================================================
