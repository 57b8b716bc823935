-------------------------- MODULE IpcServiceProofs --------------------------
(***************************************************************************)
(* IpcService's safety for any number of clients and any queue capacity.   *)
(* The invariant follows a request along its way: what has been sent, is   *)
(* being handled, queued, executed and answered never overlap except where *)
(* they must.                                                              *)
(***************************************************************************)
EXTENDS IpcService, SequenceTheorems, TLAPS

Refusals == {"busy", "error", "denied"}

Queued(c) == \E i \in DOMAIN gadget_req_chan : gadget_req_chan[i] = c

\* Request c has left a trace beyond the handler.
Entered(c) == Queued(c) \/ executed[c] # 0 \/ resp[c] \/ answering = c

\* Somebody has been given an answer to request c.
Told(c) == \E d \in Clients : \E p \in Delivered(d) : p.of = c

Untouched(c) == ~Entered(c) /\ ~Told(c)

NewClients == \A c \in Clients :
    client[c] = "new" => c \notin inbox /\ handler.client # c /\ Untouched(c)

Sent == \A c \in inbox : handler.client # c /\ Untouched(c)

InHandler == \A c \in Clients : handler.client = c =>
    /\ ~Told(c)
    /\ handler.pc \in {"dispatch", "enqueue"} => ~Entered(c)
    /\ handler.pc = "respond" /\ handler.answer \in Refusals => ~Entered(c)
    /\ handler.pc = "respond" /\ handler.answer = "ok" => executed[c] = 1

Execution == \A c \in Clients :
    /\ executed[c] \in {0, 1}
    /\ Queued(c) => executed[c] = 0
    /\ answering = c \/ resp[c] => executed[c] = 1

NoRepeats == \A i, j \in DOMAIN gadget_req_chan :
    gadget_req_chan[i] = gadget_req_chan[j] => i = j

TrueAnswers == \A d \in Clients : \A p \in Delivered(d) :
    /\ p.answer = "ok" => executed[p.of] = 1
    /\ p.answer \in Refusals => ~Entered(p.of)

Connected == transport = "stream" =>
    \A c \in Clients :
        client[c] = "waiting" /\ (c \in inbox \/ handler.client = c) => conn = c

Way ==
    /\ NewClients
    /\ Sent
    /\ InHandler
    /\ Execution
    /\ NoRepeats
    /\ TrueAnswers

IInv ==
    /\ TypeOK
    /\ QueuedIsWoken
    /\ Way
    /\ Connected
    /\ OthersAnswersAreStale

-----------------------------------------------------------------------------
(* Type correctness and the wake-up.                                       *)

LEMMA HandlerTyped ==
    ASSUME TypeOK, handler.client \in Clients,
           NEW pc \in HandlerStates \ {"idle"}, NEW a \in Answers,
           handler' = [handler EXCEPT !.pc = pc, !.answer = a]
    PROVE  /\ handler' \in [client : Clients \cup {None}, pc : HandlerStates, answer : Answers]
           /\ handler'.client = handler.client /\ handler'.pc = pc /\ handler'.answer = a
           /\ handler'.client = None <=> handler'.pc = "idle"
  BY ClientsAssumption DEF TypeOK

LEMMA IdleTyped ==
    /\ Idle \in [client : Clients \cup {None}, pc : HandlerStates, answer : Answers]
    /\ Idle.client = None /\ Idle.pc = "idle"
  BY DEF Idle, HandlerStates, Answers

LEMMA InitTyped == Init => TypeOK
  <1> SUFFICES ASSUME Init PROVE TypeOK
    OBVIOUS
  <1>1. /\ handler \in [client : Clients \cup {None}, pc : HandlerStates, answer : Answers]
        /\ handler.client = None /\ handler.pc = "idle"
    BY IdleTyped DEF Init
  <1>2. responses \in [Clients -> Seq(Packages)] /\ gadget_req_chan \in Seq(Gadgets)
        /\ Len(gadget_req_chan) <= ReqCap
    BY ClientsAssumption DEF Init
  <1>3. share \in BOOLEAN
    BY DEF Init
  <1> QED BY <1>1, <1>2, <1>3 DEF Init, TypeOK

LEMMA NetTyped ==
    ASSUME TypeOK,
           ServerStart \/ ServerFails \/ (\E c \in Clients : Call(c) \/ Answered(c) \/ TimesOut(c))
    PROVE  TypeOK'
  <1>1. CASE ServerStart
    BY <1>1 DEF ServerStart, TypeOK, config, clients, queue, loop
  <1>2. CASE ServerFails
    BY <1>2 DEF ServerFails, TypeOK, config, clients, queue, loop
  <1>3. ASSUME NEW c \in Clients, Call(c) PROVE TypeOK'
    BY <1>3 DEF Call, TypeOK, config, queue, loop
  <1>4. ASSUME NEW c \in Clients, Leaves(c) PROVE TypeOK'
    BY <1>4 DEF Leaves, TypeOK, config, queue, loop
  <1> QED BY <1>1, <1>2, <1>3, <1>4 DEF Answered, TimesOut

LEMMA HandlerTypes ==
    ASSUME TypeOK, Handler
    PROVE  TypeOK'
  <1>1. ASSUME NEW c \in Clients, Take(c) PROVE TypeOK'
    <2>1. /\ handler' \in [client : Clients \cup {None}, pc : HandlerStates, answer : Answers]
          /\ handler'.client # None /\ handler'.pc = "dispatch"
      BY <1>1, ClientsAssumption DEF Take, HandlerStates, Answers
    <2>2. /\ inbox' \subseteq Clients
          /\ UNCHANGED <<transport, share, malformed, server, conn, client, responses,
                         gadget_req_chan, resp, wake_chan, mainloop, answering, executed>>
      BY <1>1 DEF Take, TypeOK, config, clients, queue, loop
    <2> QED BY <2>1, <2>2 DEF TypeOK
  <1>2. ASSUME NEW pc \in HandlerStates \ {"idle"}, NEW a \in Answers,
               handler.client \in Clients, Continue(pc, a),
               pc \in {"enqueue", "signal", "await"} => handler.client \in Gadgets,
               gadget_req_chan' \in Seq(Gadgets), Len(gadget_req_chan') <= ReqCap,
               resp' \in [Clients -> BOOLEAN], wake_chan' \in BOOLEAN,
               executed' \in [Clients -> Nat]
        PROVE  TypeOK'
    <2>1. UNCHANGED <<transport, share, malformed, server, conn, inbox, client,
                      responses, mainloop, answering>>
      BY <1>2 DEF Continue, config, net, clients, loop
    <2>2. /\ handler' \in [client : Clients \cup {None}, pc : HandlerStates, answer : Answers]
          /\ handler'.client = None <=> handler'.pc = "idle"
          /\ handler'.pc \in {"enqueue", "signal", "await"} => handler'.client \in Gadgets
      BY <1>2, HandlerTyped DEF Continue
    <2> QED BY <1>2, <2>1, <2>2 DEF TypeOK
  <1>3. CASE Deny \/ Reject \/ HandleGadget \/ EnqueueTimeout \/ AwaitTimeout
    <2>1. /\ gadget_req_chan' \in Seq(Gadgets) /\ Len(gadget_req_chan') <= ReqCap
          /\ resp' \in [Clients -> BOOLEAN] /\ wake_chan' \in BOOLEAN
          /\ executed' \in [Clients -> Nat] /\ handler.client \in Clients
      BY <1>3 DEF Deny, Reject, HandleGadget, EnqueueTimeout, AwaitTimeout, Handling,
                  TypeOK, queue
    <2> QED BY <1>2, <1>3, <2>1 DEF Deny, Reject, HandleGadget, EnqueueTimeout,
                  AwaitTimeout, AwaitTimeoutAnswer, HandlerStates, Answers
  <1>4. CASE HandleDirect
    <2>1. /\ gadget_req_chan' \in Seq(Gadgets) /\ Len(gadget_req_chan') <= ReqCap
          /\ resp' \in [Clients -> BOOLEAN] /\ wake_chan' \in BOOLEAN
          /\ executed' \in [Clients -> Nat] /\ handler.client \in Clients
      BY <1>4 DEF HandleDirect, Execute, Handling, TypeOK, queue
    <2> QED BY <1>2, <1>4, <2>1 DEF HandleDirect, HandlerStates, Answers
  <1>5. CASE Enqueue
    <2>1. handler.client \in Gadgets
      BY <1>5 DEF Enqueue, Handling, TypeOK
    <2>2. /\ gadget_req_chan' \in Seq(Gadgets) /\ Len(gadget_req_chan') <= ReqCap
      BY <1>5, <2>1, ClientsAssumption DEF Enqueue, QueueRoom, TypeOK
    <2>3. /\ resp' \in [Clients -> BOOLEAN] /\ wake_chan' \in BOOLEAN
          /\ executed' \in [Clients -> Nat] /\ handler.client \in Clients
      BY <1>5 DEF Enqueue, Handling, TypeOK
    <2> QED BY <1>2, <1>5, <2>1, <2>2, <2>3 DEF Enqueue, HandlerStates, Answers
  <1>6. CASE Signal \/ Await
    <2>1. /\ gadget_req_chan' \in Seq(Gadgets) /\ Len(gadget_req_chan') <= ReqCap
          /\ resp' \in [Clients -> BOOLEAN]
          /\ executed' \in [Clients -> Nat] /\ handler.client \in Clients
      BY <1>6 DEF Signal, Await, Handling, TypeOK
    <2>3. handler.client \in Gadgets
      BY <1>6 DEF Signal, Await, Handling, TypeOK
    <2>2. wake_chan' \in BOOLEAN
      BY <1>6 DEF Signal, Await, signal_wake, TypeOK
    <2> QED BY <1>2, <1>6, <2>1, <2>2, <2>3 DEF Signal, Await, HandlerStates, Answers
  <1>7. CASE Respond
    <2>1. UNCHANGED <<transport, share, malformed, server, conn, inbox, client,
                      gadget_req_chan, resp, wake_chan, mainloop, answering, executed>>
          /\ handler' = Idle
      BY <1>7 DEF Respond, config, net, queue, loop
    <2>2. [of |-> handler.client, answer |-> handler.answer] \in Packages
      BY <1>7 DEF Respond, Handling, TypeOK, Packages
    <2>3. responses' \in [Clients -> Seq(Packages)]
      BY <1>7, <2>2 DEF Respond, TypeOK
    <2> QED BY <2>1, <2>3, IdleTyped DEF TypeOK
  <1> QED BY <1>1, <1>3, <1>4, <1>5, <1>6, <1>7 DEF Handler

LEMMA MainloopTypes ==
    ASSUME TypeOK, Mainloop \/ WakeOther \/ Exit
    PROVE  TypeOK'
  <1>1. CASE WakeIpc \/ WakeOther \/ Handled
    <2>1. UNCHANGED <<transport, share, malformed, server, conn, inbox, client,
                      responses, handler, gadget_req_chan, resp, answering, executed>>
      BY <1>1 DEF WakeIpc, WakeOther, Handled, config, net, clients, queue
    <2>2. wake_chan' \in BOOLEAN /\ mainloop' \in {"wait", "handle"}
      BY <1>1 DEF WakeIpc, WakeOther, Handled, queue, TypeOK
    <2> QED BY <2>1, <2>2 DEF TypeOK
  <1>2. CASE HandleRequest
    <2>1. UNCHANGED <<transport, share, malformed, server, conn, inbox, client,
                      responses, handler, resp, wake_chan, mainloop>>
      BY <1>2 DEF HandleRequest, config, net, clients
    <2>2. Head(gadget_req_chan) \in Gadgets /\ Tail(gadget_req_chan) \in Seq(Gadgets)
          /\ Len(Tail(gadget_req_chan)) <= ReqCap
      BY <1>2, ClientsAssumption DEF HandleRequest, TypeOK
    <2>3. executed' \in [Clients -> Nat]
      BY <1>2, <2>2 DEF HandleRequest, Execute, TypeOK, Clients
    <2> QED BY <1>2, <2>1, <2>2, <2>3 DEF HandleRequest, TypeOK
  <1>3. CASE SendResp
    BY <1>3 DEF SendResp, TypeOK, config, net, clients
  <1>4. CASE Exit
    <2>1. UNCHANGED <<transport, share, malformed, client, responses, gadget_req_chan,
                      resp, wake_chan, answering, executed>>
      BY <1>4 DEF Exit, config, clients, queue
    <2> QED BY <1>4, <2>1, IdleTyped DEF Exit, TypeOK
  <1> QED BY <1>1, <1>2, <1>3, <1>4 DEF Mainloop

LEMMA StutterTypes ==
    ASSUME TypeOK, UNCHANGED vars
    PROVE  TypeOK'
  BY DEF TypeOK, vars, config, net, clients, queue, loop

LEMMA WokenStep ==
    ASSUME TypeOK, QueuedIsWoken, [Next]_vars
    PROVE  QueuedIsWoken'
  <1> USE DEF QueuedIsWoken
  <1>1. CASE ServerStart \/ UNCHANGED vars
    BY <1>1 DEF ServerStart, vars, queue, loop
  <1>2. CASE ServerFails
    BY <1>2 DEF ServerFails, queue, loop
  <1>3. ASSUME NEW c \in Clients, Call(c) \/ Answered(c) \/ TimesOut(c)
        PROVE  QueuedIsWoken'
    BY <1>3 DEF Call, Answered, TimesOut, Leaves, queue, loop
  <1>4. CASE Handler
    <2>1. ASSUME NEW c \in Clients, Take(c) PROVE QueuedIsWoken'
      BY <2>1, IdleTyped DEF Take, queue, loop
    <2>2. CASE Deny \/ Reject \/ HandleDirect \/ HandleGadget \/ EnqueueTimeout
               \/ AwaitTimeout
      BY <2>2 DEF Deny, Reject, HandleDirect, HandleGadget, EnqueueTimeout,
                  AwaitTimeout, Continue, Handling, queue, loop
    <2>3. CASE Enqueue
      BY <2>3 DEF Enqueue, Continue, TypeOK
    <2>4. CASE Signal
      BY <2>4 DEF Signal, signal_wake
    <2>5. CASE Await
      BY <2>5 DEF Await, Continue, Handling, loop
    <2>6. CASE Respond
      BY <2>6 DEF Respond, Handling, queue, loop
    <2> QED BY <1>4, <2>1, <2>2, <2>3, <2>4, <2>5, <2>6 DEF Handler
  <1>5. CASE Mainloop \/ WakeOther \/ Exit
    BY <1>5 DEF Mainloop, WakeIpc, WakeOther, HandleRequest, SendResp, Handled, Exit, queue
  <1> QED BY <1>1, <1>2, <1>3, <1>4, <1>5 DEF Next

-----------------------------------------------------------------------------
(* The way of a request.                                                   *)

\* Steps that leave the queue, the counts and the answers alone.
LEMMA TracesKept ==
    ASSUME UNCHANGED <<gadget_req_chan, executed, resp, answering, responses>>
    PROVE  /\ \A c \in Clients : /\ Entered(c)' <=> Entered(c)
                                 /\ Told(c)' <=> Told(c)
                                 /\ Queued(c)' <=> Queued(c)
                                 /\ Delivered(c)' = Delivered(c)
           /\ Execution => Execution'
           /\ NoRepeats => NoRepeats'
           /\ TrueAnswers => TrueAnswers'
  <1>1. \A c : /\ Entered(c)' <=> Entered(c)
               /\ Queued(c)' <=> Queued(c)
               /\ Delivered(c)' = Delivered(c)
    BY DEF Entered, Queued, Delivered
  <1>2. \A c \in Clients : Told(c)' <=> Told(c)
    BY <1>1 DEF Told
  <1>3. Execution => Execution'
    BY <1>1 DEF Execution
  <1>4. NoRepeats => NoRepeats'
    BY DEF NoRepeats
  <1>5. TrueAnswers => TrueAnswers'
    BY <1>1 DEF TrueAnswers
  <1> QED BY <1>1, <1>2, <1>3, <1>4, <1>5

LEMMA WayInit == Init => Way /\ Connected /\ OthersAnswersAreStale /\ QueuedIsWoken
  <1> SUFFICES ASSUME Init
               PROVE  Way /\ Connected /\ OthersAnswersAreStale /\ QueuedIsWoken
    OBVIOUS
  <1>1. \A c \in Clients : ~Entered(c) /\ Delivered(c) = {}
    BY ClientsAssumption DEF Init, Entered, Queued, Delivered
  <1>2. \A c \in Clients : ~Told(c)
    BY <1>1 DEF Told
  <1>3. handler.client = None
    BY IdleTyped DEF Init
  <1>4. NewClients /\ Sent
    BY <1>1, <1>2, <1>3, ClientsAssumption DEF NewClients, Sent, Untouched, Init
  <1>5. InHandler
    BY <1>3, ClientsAssumption DEF InHandler
  <1>6. Execution /\ NoRepeats /\ TrueAnswers
    BY <1>1, ClientsAssumption DEF Execution, NoRepeats, TrueAnswers, Entered, Init
  <1>7. Connected /\ OthersAnswersAreStale /\ QueuedIsWoken
    BY <1>1 DEF Connected, OthersAnswersAreStale, QueuedIsWoken, Init
  <1> QED BY <1>4, <1>5, <1>6, <1>7 DEF Way

\* The server and the clients move requests only into and out of the inbox.
LEMMA WayNet ==
    ASSUME IInv,
           \/ ServerStart \/ ServerFails \/ Exit
           \/ \E c \in Clients : Call(c) \/ Answered(c) \/ TimesOut(c)
    PROVE  Way' /\ Connected' /\ OthersAnswersAreStale'
  <1> USE DEF IInv, Way
  <1>1. UNCHANGED <<gadget_req_chan, executed, resp, answering, responses, transport>>
    BY DEF ServerStart, ServerFails, Exit, Call, Answered, TimesOut, Leaves, queue,
           clients, loop, config
  <1>2. Execution' /\ NoRepeats' /\ TrueAnswers'
    BY <1>1, TracesKept
  <1>3. CASE ServerStart
    <2>1. inbox' = inbox /\ handler' = handler /\ client' = client /\ conn' = conn
      BY <1>3 DEF ServerStart, clients
    <2>2. NewClients' /\ Sent'
      BY <1>1, <2>1, TracesKept DEF NewClients, Sent, Untouched, TypeOK
    <2>3. InHandler' /\ Connected'
      BY <1>1, <2>1, TracesKept DEF InHandler, Connected
    <2>4. OthersAnswersAreStale'
      BY <1>1, <2>1, TracesKept DEF OthersAnswersAreStale
    <2> QED BY <1>2, <2>2, <2>3, <2>4
  <1>4. CASE ServerFails \/ Exit
    <2>1. inbox' = {} /\ handler' = Idle /\ client' = client
      BY <1>4 DEF ServerFails, Exit, clients
    <2>2. \A c \in Clients : handler'.client # c
      BY <2>1, IdleTyped, ClientsAssumption
    <2>3. NewClients' /\ Sent' /\ InHandler' /\ Connected'
      BY <1>1, <2>1, <2>2, TracesKept DEF NewClients, Sent, InHandler, Untouched, Connected
    <2>4. OthersAnswersAreStale'
      BY <1>1, <2>1, TracesKept DEF OthersAnswersAreStale
    <2> QED BY <1>2, <2>3, <2>4
  <1>5. ASSUME NEW c \in Clients, Call(c)
        PROVE  Way' /\ Connected' /\ OthersAnswersAreStale'
    <2>1. /\ client[c] = "new" /\ client' = [client EXCEPT ![c] = "waiting"]
          /\ inbox' = inbox \cup {c} /\ handler' = handler
          /\ transport = "stream" => conn = None /\ conn' = c
      BY <1>5 DEF Call
    <2>2. NewClients' /\ Sent' /\ InHandler'
      BY <1>1, <2>1, TracesKept DEF NewClients, Sent, InHandler, Untouched, TypeOK
    <2>3. Connected'
      BY <1>1, <2>1, ClientsAssumption DEF Connected, NewClients, TypeOK
    <2>4. OthersAnswersAreStale'
      <3> SUFFICES ASSUME NEW d \in Clients, NEW p \in Delivered(d)', p.of # d
                   PROVE  transport' = "stream" /\ client'[p.of] = "gone"
        BY DEF OthersAnswersAreStale
      <3>1. p \in Delivered(d) /\ transport = "stream" /\ client[p.of] = "gone"
        BY <1>1, TracesKept DEF OthersAnswersAreStale
      <3> QED BY <1>1, <2>1, <3>1 DEF TypeOK
    <2> QED BY <1>2, <2>2, <2>3, <2>4
  <1>6. ASSUME NEW c \in Clients, client[c] = "waiting", Leaves(c)
        PROVE  Way' /\ Connected' /\ OthersAnswersAreStale'
    <2>1. /\ client' = [client EXCEPT ![c] = "gone"]
          /\ inbox' \in {inbox, inbox \ {c}} /\ handler' = handler
          /\ conn' = IF conn = c THEN None ELSE conn
      BY <1>6 DEF Leaves
    <2>2. NewClients' /\ Sent' /\ InHandler'
      BY <1>1, <2>1, TracesKept DEF NewClients, Sent, InHandler, Untouched, TypeOK
    <2>3. Connected'
      BY <1>1, <2>1 DEF Connected, TypeOK
    <2>4. OthersAnswersAreStale'
      <3> SUFFICES ASSUME NEW d \in Clients, NEW p \in Delivered(d)', p.of # d
                   PROVE  transport' = "stream" /\ client'[p.of] = "gone"
        BY DEF OthersAnswersAreStale
      <3>1. p \in Delivered(d) /\ transport = "stream" /\ client[p.of] = "gone"
        BY <1>1, TracesKept DEF OthersAnswersAreStale
      <3>2. client'[p.of] = IF p.of = c THEN "gone" ELSE client[p.of]
        BY <2>1, <3>1, <1>6 DEF TypeOK, Delivered, Packages
      <3> QED BY <1>1, <3>1, <3>2
    <2> QED BY <1>2, <2>2, <2>3, <2>4
  <1> QED BY <1>3, <1>4, <1>5, <1>6 DEF Answered, TimesOut

LEMMA PackagesTyped ==
    ASSUME TypeOK, NEW d \in Clients, NEW p \in Delivered(d)
    PROVE  p \in Packages /\ p.of \in Clients
  <1>1. PICK i \in DOMAIN responses[d] : p = responses[d][i]
    BY DEF Delivered
  <1>2. responses[d] \in Seq(Packages)
    BY DEF TypeOK
  <1>3. p \in Packages
    BY <1>1, <1>2, ElementOfSeq
  <1> QED BY <1>3 DEF Packages

\* A step that leaves the answers, the clients and the handled request's client
\* alone and touches at most that request keeps what the invariant says of the
\* other requests.
LEMMA OneRequest ==
    ASSUME IInv,
           UNCHANGED <<inbox, client, responses, conn, transport>>,
           handler'.client = handler.client,
           \A d \in Clients : Entered(d)' => Entered(d) \/ d = handler.client,
           \A d \in Clients : executed[d] = 1 => executed'[d] = 1
    PROVE  /\ NewClients' /\ Sent' /\ TrueAnswers' /\ Connected'
           /\ OthersAnswersAreStale'
           /\ \A d \in Clients : Told(d)' <=> Told(d)
  <1> USE DEF IInv, Way
  <1>1. \A d \in Clients : Delivered(d)' = Delivered(d)
    BY DEF Delivered
  <1>2. \A d \in Clients : Told(d)' <=> Told(d)
    BY <1>1 DEF Told
  <1>3. NewClients' /\ Sent'
    BY <1>2 DEF NewClients, Sent, Untouched, TypeOK
  <1>4. TrueAnswers'
    <2> SUFFICES ASSUME NEW d \in Clients, NEW p \in Delivered(d)'
                 PROVE  /\ p.answer = "ok" => executed'[p.of] = 1
                        /\ p.answer \in Refusals => ~Entered(p.of)'
      BY DEF TrueAnswers
    <2>1. p \in Delivered(d)
      BY <1>1
    <2>2. p.of \in Clients
      BY <2>1, PackagesTyped
    <2>3. Told(p.of)
      BY <2>1 DEF Told
    <2>4. p.of # handler.client
      BY <2>2, <2>3 DEF InHandler
    <2> QED BY <2>1, <2>2, <2>4 DEF TrueAnswers
  <1>5. Connected'
    BY DEF Connected
  <1>6. OthersAnswersAreStale'
    BY <1>1 DEF OthersAnswersAreStale
  <1> QED BY <1>2, <1>3, <1>4, <1>5, <1>6

LEMMA WayTake ==
    ASSUME IInv, NEW c \in Clients, Take(c)
    PROVE  Way' /\ Connected' /\ OthersAnswersAreStale'
  <1> USE DEF IInv, Way
  <1>1. UNCHANGED <<gadget_req_chan, executed, resp, answering, responses, transport,
                    client, conn>>
    BY DEF Take, config, clients, queue, loop
  <1>2. c \in inbox /\ inbox' = inbox \ {c} /\ handler'.client = c
        /\ handler'.pc = "dispatch"
    BY DEF Take
  <1>3. Execution' /\ NoRepeats' /\ TrueAnswers'
    BY <1>1, TracesKept
  <1>4. NewClients' /\ Sent'
    BY <1>1, <1>2, TracesKept DEF NewClients, Sent, Untouched, TypeOK
  <1>5. InHandler'
    BY <1>1, <1>2, TracesKept DEF InHandler, Sent, Untouched
  <1>6. Connected'
    BY <1>1, <1>2 DEF Connected
  <1>7. OthersAnswersAreStale'
    BY <1>1, TracesKept DEF OthersAnswersAreStale
  <1> QED BY <1>3, <1>4, <1>5, <1>6, <1>7

\* The steps that only decide what to do with the request.
LEMMA WayDecide ==
    ASSUME IInv,
           Deny \/ Reject \/ HandleGadget \/ EnqueueTimeout \/ Signal \/ AwaitTimeout
    PROVE  Way' /\ Connected' /\ OthersAnswersAreStale'
  <1> USE DEF IInv, Way
  <1>1. UNCHANGED <<inbox, client, responses, conn, transport, gadget_req_chan, resp,
                    executed, answering>>
    BY DEF Deny, Reject, HandleGadget, EnqueueTimeout, Signal, AwaitTimeout, Continue,
           queue, net, clients, config, loop
  <1>2. /\ handler.client \in Clients
        /\ handler'.client = handler.client
        /\ \/ handler.pc \in {"dispatch", "enqueue"} /\ handler'.pc \in {"enqueue", "respond"}
              /\ handler'.answer \in Refusals \cup {"ok"}
              /\ (handler'.pc = "respond" => handler'.answer \in Refusals)
           \/ handler'.pc = "await"
           \/ handler'.pc = "respond" /\ handler'.answer = "timeout"
    BY HandlerTyped DEF Deny, Reject, HandleGadget, EnqueueTimeout, Signal, AwaitTimeout,
           AwaitTimeoutAnswer, Continue, Handling, Refusals, TypeOK
  <1>3. \A d \in Clients : Entered(d)' <=> Entered(d)
    BY <1>1, TracesKept
  <1>4. /\ NewClients' /\ Sent' /\ TrueAnswers' /\ Connected' /\ OthersAnswersAreStale'
        /\ \A d \in Clients : Told(d)' <=> Told(d)
    BY <1>1, <1>2, <1>3, OneRequest
  <1>5. Execution' /\ NoRepeats'
    BY <1>1, TracesKept
  <1>6. "ok" \notin Refusals /\ "timeout" \notin Refusals
    BY DEF Refusals
  <1>7. InHandler'
    BY <1>1, <1>2, <1>3, <1>4, <1>6 DEF InHandler
  <1> QED BY <1>4, <1>5, <1>7

LEMMA WayAwait ==
    ASSUME IInv, Await
    PROVE  Way' /\ Connected' /\ OthersAnswersAreStale'
  <1> USE DEF IInv, Way
  <1> DEFINE c == handler.client
  <1>1. UNCHANGED <<inbox, client, responses, conn, transport, gadget_req_chan,
                    executed, answering>>
    BY DEF Await, Continue, queue, net, clients, config, loop
  <1>2. /\ c \in Clients /\ resp[c] /\ resp' = [resp EXCEPT ![c] = FALSE]
        /\ handler'.client = c /\ handler'.pc = "respond" /\ handler'.answer = "ok"
    BY DEF Await, Continue, Handling, TypeOK
  <1>3. \A d \in Clients : resp'[d] => resp[d]
    BY <1>2 DEF TypeOK
  <1>4. \A d \in Clients : (Entered(d)' => Entered(d)) /\ (Queued(d)' <=> Queued(d))
    BY <1>1, <1>3 DEF Entered, Queued
  <1>5. /\ NewClients' /\ Sent' /\ TrueAnswers' /\ Connected' /\ OthersAnswersAreStale'
        /\ \A d \in Clients : Told(d)' <=> Told(d)
    BY <1>1, <1>2, <1>4, OneRequest
  <1>6. Execution'
    BY <1>1, <1>3, <1>4 DEF Execution
  <1>7. NoRepeats'
    BY <1>1 DEF NoRepeats
  <1>8. InHandler'
    BY <1>1, <1>2, <1>5 DEF InHandler, Execution, Refusals
  <1> QED BY <1>5, <1>6, <1>7, <1>8

LEMMA WayDirect ==
    ASSUME IInv, HandleDirect
    PROVE  Way' /\ Connected' /\ OthersAnswersAreStale'
  <1> USE DEF IInv, Way
  <1> DEFINE c == handler.client
  <1>1. UNCHANGED <<inbox, client, responses, conn, transport, gadget_req_chan, resp,
                    answering>>
    BY DEF HandleDirect, Continue, queue, net, clients, config, loop
  <1>2. /\ c \in Clients /\ handler.pc = "dispatch"
        /\ executed' = [executed EXCEPT ![c] = @ + 1]
        /\ handler'.client = c /\ handler'.pc = "respond" /\ handler'.answer = "ok"
    BY DEF HandleDirect, Execute, Continue, Handling, TypeOK
  <1>3. ~Entered(c)
    BY <1>2 DEF InHandler
  <1>4. executed[c] = 0 /\ ~Queued(c) /\ ~resp[c] /\ answering # c
    BY <1>3 DEF Entered
  <1>5. executed'[c] = 1 /\ \A d \in Clients : d # c => executed'[d] = executed[d]
    BY <1>2, <1>4 DEF TypeOK
  <1>6. \A d \in Clients : Queued(d)' <=> Queued(d)
    BY <1>1 DEF Queued
  <1>7. \A d \in Clients : Entered(d)' => Entered(d) \/ d = c
    BY <1>1, <1>5, <1>6 DEF Entered
  <1>8. /\ NewClients' /\ Sent' /\ TrueAnswers' /\ Connected' /\ OthersAnswersAreStale'
        /\ \A d \in Clients : Told(d)' <=> Told(d)
    BY <1>1, <1>2, <1>5, <1>7, OneRequest
  <1>9. Execution'
    BY <1>1, <1>4, <1>5, <1>6 DEF Execution
  <1>10. NoRepeats'
    BY <1>1 DEF NoRepeats
  <1>11. InHandler'
    BY <1>2, <1>5, <1>8 DEF InHandler, Refusals
  <1> QED BY <1>8, <1>9, <1>10, <1>11

LEMMA WayEnqueue ==
    ASSUME IInv, Enqueue
    PROVE  Way' /\ Connected' /\ OthersAnswersAreStale'
  <1> USE DEF IInv, Way
  <1> DEFINE c == handler.client
             q == gadget_req_chan
  <1>1. UNCHANGED <<inbox, client, responses, conn, transport, resp, executed,
                    answering>>
    BY DEF Enqueue, Continue, queue, net, clients, config, loop
  <1>2. /\ c \in Clients /\ handler.pc = "enqueue"
        /\ gadget_req_chan' = Append(q, c)
        /\ handler'.client = c /\ handler'.pc = "signal"
    BY DEF Enqueue, Continue, Handling, TypeOK
  <1>3. ~Entered(c)
    BY <1>2 DEF InHandler
  <1>4. /\ q \in Seq(Gadgets) /\ Len(q) \in Nat /\ DOMAIN q = 1 .. Len(q)
        /\ DOMAIN gadget_req_chan' = 1 .. Len(q) + 1
        /\ gadget_req_chan'[Len(q) + 1] = c
        /\ \A i \in 1 .. Len(q) : gadget_req_chan'[i] = q[i]
    BY <1>2 DEF TypeOK
  <1>5. \A d \in Clients : Queued(d)' => Queued(d) \/ d = c
    BY <1>4 DEF Queued
  <1>6. \A d \in Clients : Entered(d)' => Entered(d) \/ d = c
    BY <1>1, <1>5 DEF Entered
  <1>7. /\ NewClients' /\ Sent' /\ TrueAnswers' /\ Connected' /\ OthersAnswersAreStale'
        /\ \A d \in Clients : Told(d)' <=> Told(d)
    BY <1>1, <1>2, <1>6, OneRequest
  <1>8. Execution'
    BY <1>1, <1>3, <1>5 DEF Execution, Entered
  <1>9. NoRepeats'
    BY <1>3, <1>4 DEF NoRepeats, Entered, Queued
  <1>10. InHandler'
    BY <1>2, <1>7 DEF InHandler
  <1> QED BY <1>7, <1>8, <1>9, <1>10

\* The answer of the handled request may reach another client only when the
\* one that sent it is gone: the connection of a waiting client is its own.
LEMMA WayRespond ==
    ASSUME IInv, Respond
    PROVE  Way' /\ Connected' /\ OthersAnswersAreStale'
  <1> USE DEF IInv, Way
  <1> DEFINE c == handler.client
             answer == [of |-> c, answer |-> handler.answer]
  <1>1. UNCHANGED <<inbox, client, conn, transport, gadget_req_chan, resp, executed,
                    answering>>
    BY DEF Respond, net, config, queue, loop
  <1>2. c \in Clients /\ handler.pc = "respond" /\ \A d \in Clients : handler'.client # d
    BY IdleTyped, ClientsAssumption DEF Respond, Handling
  <1>3. \A d \in Clients : (Entered(d)' <=> Entered(d)) /\ (Queued(d)' <=> Queued(d))
    BY <1>1 DEF Entered, Queued
  <1>4. ASSUME NEW d \in Clients, NEW p \in Delivered(d)'
        PROVE  p \in Delivered(d) \/ (p = answer /\ d \in Recipients)
    <2>1. PICK i \in DOMAIN responses'[d] : p = responses'[d][i]
      BY <1>4 DEF Delivered
    <2>2. responses[d] \in Seq(Packages)
      BY DEF TypeOK
    <2>3. CASE responses'[d] = responses[d]
      BY <2>1, <2>3 DEF Delivered
    <2>4. CASE d \in Recipients /\ responses'[d] = Append(responses[d], answer)
      <3>1. DOMAIN responses'[d] = 1 .. Len(responses[d]) + 1 /\ Len(responses[d]) \in Nat
            /\ DOMAIN responses[d] = 1 .. Len(responses[d])
        BY <2>2, <2>4
      <3>2. p = IF i <= Len(responses[d]) THEN responses[d][i] ELSE answer
        BY <2>1, <2>2, <2>4, <3>1
      <3> QED BY <2>1, <2>4, <3>1, <3>2 DEF Delivered
    <2> QED BY <2>3, <2>4 DEF Respond
  <1>5. \A d \in Clients : Told(d)' => Told(d) \/ d = c
    BY <1>4 DEF Told
  <1>6. NewClients' /\ Sent'
    BY <1>1, <1>2, <1>3, <1>5 DEF NewClients, Sent, Untouched, TypeOK
  <1>7. InHandler'
    BY <1>2 DEF InHandler
  <1>8. Execution'
    BY <1>1, <1>3 DEF Execution
  <1>9. NoRepeats'
    BY <1>1 DEF NoRepeats
  <1>10. TrueAnswers'
    <2> SUFFICES ASSUME NEW d \in Clients, NEW p \in Delivered(d)'
                 PROVE  /\ p.answer = "ok" => executed'[p.of] = 1
                        /\ p.answer \in Refusals => ~Entered(p.of)'
      BY DEF TrueAnswers
    <2>1. CASE p \in Delivered(d)
      BY <1>1, <1>3, <2>1, PackagesTyped DEF TrueAnswers
    <2>2. CASE p = answer
      BY <1>1, <1>2, <1>3, <2>2 DEF InHandler
    <2> QED BY <1>4, <2>1, <2>2
  <1>11. Connected'
    BY <1>1, <1>2 DEF Connected
  <1>12. OthersAnswersAreStale'
    <2> SUFFICES ASSUME NEW d \in Clients, NEW p \in Delivered(d)', p.of # d
                 PROVE  transport' = "stream" /\ client'[p.of] = "gone"
      BY DEF OthersAnswersAreStale
    <2>1. CASE p \in Delivered(d)
      BY <1>1, <2>1 DEF OthersAnswersAreStale
    <2>2. CASE p = answer /\ d \in Recipients
      <3>1. c # d /\ p.of = c
        BY <2>2
      <3>2. transport = "stream" /\ conn = d
        BY <2>2, <3>1 DEF Recipients
      <3>3. client[c] # "waiting"
        BY <1>2, <3>1, <3>2 DEF Connected
      <3>4. client[c] # "new"
        BY <1>2 DEF NewClients
      <3> QED BY <1>1, <1>2, <3>1, <3>2, <3>3, <3>4 DEF TypeOK
    <2> QED BY <1>4, <2>1, <2>2
  <1> QED BY <1>6, <1>7, <1>8, <1>9, <1>10, <1>11, <1>12

LEMMA WayMainloop ==
    ASSUME IInv, Mainloop \/ WakeOther
    PROVE  Way' /\ Connected' /\ OthersAnswersAreStale'
  <1> USE DEF IInv, Way
  <1>1. CASE WakeIpc \/ WakeOther \/ Handled
    <2>1. UNCHANGED <<inbox, client, responses, conn, transport, gadget_req_chan, resp,
                      executed, answering, handler>>
      BY <1>1 DEF WakeIpc, WakeOther, Handled, config, net, clients, queue
    <2>2. /\ NewClients' /\ Sent' /\ TrueAnswers' /\ Connected' /\ OthersAnswersAreStale'
          /\ Execution' /\ NoRepeats'
      BY <2>1, OneRequest, TracesKept
    <2>3. InHandler'
      BY <2>1, TracesKept DEF InHandler
    <2> QED BY <2>2, <2>3
  <1>2. CASE HandleRequest
    <2> DEFINE q == gadget_req_chan
               h == Head(gadget_req_chan)
    <2>1. UNCHANGED <<inbox, client, responses, conn, transport, resp, handler>>
      BY <1>2 DEF HandleRequest, config, net, clients
    <2>2. /\ q \in Seq(Gadgets) /\ q # <<>> /\ Len(q) \in Nat \ {0}
          /\ DOMAIN q = 1 .. Len(q) /\ h = q[1] /\ h \in Gadgets
          /\ DOMAIN gadget_req_chan' = 1 .. Len(q) - 1
          /\ \A i \in 1 .. Len(q) - 1 : gadget_req_chan'[i] = q[i + 1]
      BY <1>2 DEF HandleRequest, TypeOK
    <2>3. h \in Clients /\ Queued(h) /\ answering' = h
      BY <1>2, <2>2 DEF HandleRequest, Queued, Clients
    <2>4. \A d \in Clients : Queued(d)' => Queued(d) /\ d # h
      BY <2>2 DEF Queued, NoRepeats
    <2>5. executed[h] = 0
      BY <2>3 DEF Execution
    <2>6. executed'[h] = 1 /\ \A d \in Clients : d # h => executed'[d] = executed[d]
      BY <1>2, <2>3, <2>5 DEF HandleRequest, Execute, TypeOK
    <2>7. \A d \in Clients : Entered(d)' => Entered(d)
      BY <2>1, <2>3, <2>4, <2>6 DEF Entered
    <2>8. /\ NewClients' /\ Sent' /\ TrueAnswers' /\ Connected' /\ OthersAnswersAreStale'
          /\ \A d \in Clients : Told(d)' <=> Told(d)
      BY <2>1, <2>5, <2>6, <2>7, OneRequest
    <2>9. Execution'
      BY <2>1, <2>3, <2>4, <2>5, <2>6 DEF Execution
    <2>10. NoRepeats'
      <3> SUFFICES ASSUME NEW i \in DOMAIN gadget_req_chan', NEW j \in DOMAIN gadget_req_chan',
                          gadget_req_chan'[i] = gadget_req_chan'[j]
                   PROVE  i = j
        BY DEF NoRepeats
      <3>1. i + 1 \in DOMAIN q /\ j + 1 \in DOMAIN q /\ q[i + 1] = q[j + 1]
        BY <2>2
      <3>2. i + 1 = j + 1
        BY <3>1 DEF NoRepeats
      <3> QED BY <2>2, <3>2
    <2>11. InHandler'
      BY <2>1, <2>5, <2>6, <2>7, <2>8 DEF InHandler
    <2> QED BY <2>8, <2>9, <2>10, <2>11
  <1>3. CASE SendResp
    <2>1. UNCHANGED <<inbox, client, responses, conn, transport, gadget_req_chan,
                      executed, handler>>
      BY <1>3 DEF SendResp, config, net, clients
    <2>2. /\ answering \in Clients /\ answering' = None
          /\ resp' = [resp EXCEPT ![answering] = TRUE]
      BY <1>3 DEF SendResp, TypeOK, Clients
    <2>3. \A d \in Clients : answering' # d /\ (resp'[d] => resp[d] \/ answering = d)
      BY <2>2, ClientsAssumption DEF TypeOK
    <2>4. \A d \in Clients : (Queued(d)' <=> Queued(d)) /\ (Entered(d)' => Entered(d))
      BY <2>1, <2>3 DEF Entered, Queued
    <2>5. /\ NewClients' /\ Sent' /\ TrueAnswers' /\ Connected' /\ OthersAnswersAreStale'
          /\ \A d \in Clients : Told(d)' <=> Told(d)
      BY <2>1, <2>4, OneRequest
    <2>6. Execution'
      BY <2>1, <2>3, <2>4 DEF Execution
    <2>7. NoRepeats'
      BY <2>1 DEF NoRepeats
    <2>8. InHandler'
      BY <2>1, <2>4, <2>5 DEF InHandler
    <2> QED BY <2>5, <2>6, <2>7, <2>8
  <1> QED BY <1>1, <1>2, <1>3 DEF Mainloop

LEMMA WayStutter ==
    ASSUME IInv, UNCHANGED vars
    PROVE  Way' /\ Connected' /\ OthersAnswersAreStale'
  <1> USE DEF IInv, Way
  <1>1. UNCHANGED <<inbox, client, responses, conn, transport, gadget_req_chan, resp,
                    executed, answering, handler>>
    BY DEF vars, config, net, clients, queue, loop
  <1>2. /\ NewClients' /\ Sent' /\ TrueAnswers' /\ Connected' /\ OthersAnswersAreStale'
        /\ Execution' /\ NoRepeats'
    BY <1>1, OneRequest, TracesKept
  <1>3. InHandler'
    BY <1>1, TracesKept DEF InHandler
  <1> QED BY <1>2, <1>3

-----------------------------------------------------------------------------
\* The invariant holds in every state, whatever the clients, the timeouts, the
\* transport and the mainloop do.
THEOREM Inductive == Spec => []IInv
  <1>1. Init => IInv
    BY InitTyped, WayInit DEF IInv
  <1>2. ASSUME IInv, [Next]_vars PROVE IInv'
    <2>1. TypeOK'
      BY <1>2, NetTyped, HandlerTypes, MainloopTypes, StutterTypes DEF IInv, Next
    <2>2. QueuedIsWoken'
      BY <1>2, WokenStep DEF IInv
    <2>3. CASE Handler
      BY <1>2, <2>3, WayTake, WayDecide, WayAwait, WayDirect, WayEnqueue, WayRespond,
         <2>1, <2>2 DEF Handler, IInv
    <2>4. CASE Mainloop \/ WakeOther
      BY <1>2, <2>1, <2>2, <2>4, WayMainloop DEF IInv
    <2>5. CASE ServerStart \/ ServerFails \/ Exit
               \/ \E c \in Clients : Call(c) \/ Answered(c) \/ TimesOut(c)
      BY <1>2, <2>1, <2>2, <2>5, WayNet DEF IInv
    <2>6. CASE UNCHANGED vars
      BY <1>2, <2>1, <2>2, <2>6, WayStutter DEF IInv
    <2> QED BY <1>2, <2>3, <2>4, <2>5, <2>6 DEF Next
  <1> QED BY <1>1, <1>2, PTL DEF Spec

\* The service's state is well formed, and gadget_req_chan never exceeds its
\* capacity.
THEOREM TypeCorrect == Spec => []TypeOK
  BY Inductive, PTL DEF IInv

\* RequestGadget's order (queue, then signal_wake) loses no wake-up, for any
\* number of clients and any capacity.
THEOREM RequestsAreWoken == Spec => []QueuedIsWoken
  BY Inductive, PTL DEF IInv

\* Every answer of the daemon is true of the request it answers, and nothing is
\* executed twice, although a request may be executed after its client gave up.
THEOREM AnswersTrue == Spec => []AnswersAreTrue
  <1>1. IInv => AnswersAreTrue
    <2> SUFFICES ASSUME IInv PROVE AnswersAreTrue
      OBVIOUS
    <2>1. \A c \in Clients : executed[c] <= 1
      BY DEF IInv, Way, Execution
    <2>2. ASSUME NEW c \in Clients, NEW p \in Delivered(c)
          PROVE  /\ p.answer = "ok" => executed[p.of] = 1
                 /\ p.answer \in {"busy", "error", "denied"} =>
                       /\ executed[p.of] = 0
                       /\ \A i \in DOMAIN gadget_req_chan : gadget_req_chan[i] # p.of
      BY <2>2 DEF IInv, Way, TrueAnswers, Refusals, Entered, Queued
    <2> QED BY <2>1, <2>2 DEF AnswersAreTrue
  <1> QED BY <1>1, Inductive, PTL

\* Without request ids a client can only be given the late answer of one that
\* has left, and on D-Bus only its own.
THEOREM AnswersStale == Spec => []OthersAnswersAreStale
  BY Inductive, PTL DEF IInv
=============================================================================
