----------------------------- MODULE IpcService -----------------------------
(***************************************************************************)
(* The control service: `ipc` commands, their transport and the daemon's   *)
(* side of it (core/ipc, core/daemonipc, core/daemon/transport_*.go and    *)
(* RequestGadget, handle_gadget_requests in core/daemon/daemon.go).        *)
(*                                                                         *)
(* A client is one run of `ipc <command>`: it connects, sends one package  *)
(* and waits for an answer until its timeout.  The build selects one of    *)
(* two transports.  The stream transport (golang-ipc, external) has one    *)
(* connection at a time, reads packages one after the other and writes an  *)
(* answer to whoever is connected then; packages carry no request id.  On  *)
(* D-Bus every call has its own goroutine, the calls take request_mutex in *)
(* any order, and the answer goes to the caller.  Either way one request   *)
(* is handled at a time, by `handler`.                                     *)
(*                                                                         *)
(* A timeout may strike at any moment at which the code waits for it.      *)
(***************************************************************************)
EXTENDS Naturals, Sequences, FiniteSets

CONSTANTS
    Gadgets,      \* clients that run `ipc gadget`, which the mainloop executes
    Directs,      \* clients whose command the handler executes: led, tap, status
    Strangers,    \* the clients of another user
    ReqCap,       \* capacity of gadget_req_chan
    None          \* nobody

Clients == Gadgets \cup Directs
Answers == {"ok", "busy", "timeout", "error", "denied"}
Packages == [of : Clients, answer : Answers]

ASSUME ClientsAssumption ==
    /\ Gadgets \cap Directs = {}
    /\ Strangers \subseteq Clients
    /\ None \notin Clients
    /\ ReqCap \in Nat \ {0}

VARIABLES
    transport,    \* the build: "stream" or "dbus"
    share,        \* ipc_allow_other_user (--ipc-share)
    malformed,    \* the clients whose package the daemon cannot handle
    server,       \* is the transport's server up?
    client,       \* what each client is doing
    conn,         \* stream: the connected client
    inbox,        \* requests sent and not yet taken by the handler
    responses,    \* the packages that were written to each client
    handler,      \* the request being handled
    gadget_req_chan,
    resp,         \* the Resp channel of each gadget request, full or not
    wake_chan,
    mainloop,     \* "wait", "handle" or "ended"
    answering,    \* the request whose Resp the mainloop is about to send
    \* Recorded for the properties: how often each request was executed.
    executed

net == <<server, conn, inbox>>
clients == <<client, responses>>
loop == <<mainloop, answering>>
queue == <<gadget_req_chan, resp, wake_chan>>
config == <<transport, share, malformed>>
vars == <<config, net, clients, handler, queue, loop, executed>>

Idle == [client |-> None, pc |-> "idle", answer |-> "ok"]

-----------------------------------------------------------------------------
(* The server and the clients.                                             *)

\* run_ipc_server: the server is started again until the daemon ends.
ServerStart ==
    /\ server = "down" /\ mainloop # "ended"
    /\ server' = "up"
    /\ UNCHANGED <<config, conn, inbox, clients, handler, queue, loop, executed>>

\* Read fails (a broken handshake, a lost socket): the framework's mainloop
\* ends, and with it everything the server had accepted.
ServerFails ==
    /\ transport = "stream"
    /\ server = "up" /\ handler = Idle
    /\ server' = "down" /\ conn' = None /\ inbox' = {}
    /\ UNCHANGED <<config, clients, handler, queue, loop, executed>>

MayConnect(c) == share \/ c \notin Strangers

\* InitIPCClient and Call: a client that connects has no effect before it
\* sends its package.  The socket's mode keeps other users out of the stream.
Call(c) ==
    /\ client[c] = "new" /\ server = "up"
    /\ \/ transport = "stream" /\ conn = None /\ MayConnect(c) /\ conn' = c
       \/ transport = "dbus" /\ UNCHANGED conn
    /\ client' = [client EXCEPT ![c] = "waiting"]
    /\ inbox' = inbox \cup {c}
    /\ UNCHANGED <<config, server, responses, handler, queue, loop, executed>>

\* Call takes the first answer there is; then the process ends and its
\* connection closes.  What it sent may get lost with the connection.
Leaves(c) ==
    /\ client' = [client EXCEPT ![c] = "gone"]
    /\ conn' = IF conn = c THEN None ELSE conn
    /\ \/ UNCHANGED inbox
       \/ transport = "stream" /\ inbox' = inbox \ {c}
    /\ UNCHANGED <<config, server, responses, handler, queue, loop, executed>>

Answered(c) ==
    /\ client[c] = "waiting" /\ responses[c] # <<>>
    /\ Leaves(c)

TimesOut(c) ==
    /\ client[c] = "waiting"
    /\ Leaves(c)

-----------------------------------------------------------------------------
(* The handler: the framework's mainloop, or the call that holds           *)
(* request_mutex.                                                          *)

Take(c) ==
    /\ handler = Idle /\ server = "up"
    /\ c \in inbox
    /\ inbox' = inbox \ {c}
    /\ handler' = [client |-> c, pc |-> "dispatch", answer |-> "ok"]
    /\ UNCHANGED <<config, server, conn, clients, queue, loop, executed>>

Handling(pc) == handler.client \in Clients /\ handler.pc = pc

Continue(pc, answer) ==
    /\ handler' = [handler EXCEPT !.pc = pc, !.answer = answer]
    /\ UNCHANGED <<config, net, clients, loop>>

\* Request's check of the caller's uid.
Denied(c) == transport = "dbus" /\ ~MayConnect(c)

Deny ==
    /\ Handling("dispatch") /\ Denied(handler.client)
    /\ Continue("respond", "denied")
    /\ UNCHANGED <<queue, executed>>

\* HandleRequest's fallback: no payload struct, no handler, a bad payload.
Reject ==
    /\ Handling("dispatch") /\ ~Denied(handler.client)
    /\ handler.client \in malformed
    /\ Continue("respond", "error")
    /\ UNCHANGED <<queue, executed>>

Execute(c) == executed' = [executed EXCEPT ![c] = @ + 1]

HandleDirect ==
    /\ Handling("dispatch") /\ ~Denied(handler.client)
    /\ handler.client \in Directs \ malformed
    /\ Execute(handler.client)
    /\ Continue("respond", "ok")
    /\ UNCHANGED queue

HandleGadget ==
    /\ Handling("dispatch") /\ ~Denied(handler.client)
    /\ handler.client \in Gadgets
    /\ Continue("enqueue", "ok")
    /\ UNCHANGED <<queue, executed>>

QueueRoom == Len(gadget_req_chan) < ReqCap

\* RequestGadget: the request is queued, then the mainloop is woken.
Enqueue ==
    /\ Handling("enqueue") /\ QueueRoom
    /\ gadget_req_chan' = Append(gadget_req_chan, handler.client)
    /\ Continue("signal", "ok")
    /\ UNCHANGED <<resp, wake_chan, executed>>

EnqueueTimeout ==
    /\ Handling("enqueue") /\ ~QueueRoom
    /\ Continue("respond", "busy")
    /\ UNCHANGED <<queue, executed>>

signal_wake_skipped == wake_chan
signal_wake == TRUE

Signal ==
    /\ Handling("signal")
    /\ wake_chan' = signal_wake
    /\ Continue("await", "ok")
    /\ UNCHANGED <<gadget_req_chan, resp, executed>>

Await ==
    /\ Handling("await") /\ resp[handler.client]
    /\ resp' = [resp EXCEPT ![handler.client] = FALSE]
    /\ Continue("respond", "ok")
    /\ UNCHANGED <<gadget_req_chan, wake_chan, executed>>

AwaitTimeout_busy == "busy"
AwaitTimeoutAnswer == "timeout"

AwaitTimeout ==
    /\ Handling("await")
    /\ Continue("respond", AwaitTimeoutAnswer)
    /\ UNCHANGED <<queue, executed>>

\* SendPackage drops the packages it has no payload struct for: on the stream
\* those of the fallback handler.  The errors of RequestGadget are ordinary
\* answers.
Sendable_noErrors(answer) == answer = "ok"
Sendable(answer) == transport = "dbus" \/ answer # "error"

\* Whom the answer reaches.
Recipients_all == {c \in Clients : client[c] = "waiting"}
Recipients ==
    IF transport = "stream" THEN {conn} \cap Clients
                            ELSE {c \in {handler.client} : client[c] = "waiting"}

Respond ==
    /\ Handling("respond")
    /\ responses' = [c \in Clients |->
                        IF c \in Recipients /\ Sendable(handler.answer)
                        THEN Append(responses[c], [of |-> handler.client,
                                                   answer |-> handler.answer])
                        ELSE responses[c]]
    /\ handler' = Idle
    /\ UNCHANGED <<config, net, client, queue, loop, executed>>

-----------------------------------------------------------------------------
(* The mainloop, as far as gadget requests are concerned.                  *)

\* The wake-up of a request, or any other.
WakeIpc ==
    /\ mainloop = "wait" /\ wake_chan
    /\ wake_chan' = FALSE
    /\ mainloop' = "handle"
    /\ UNCHANGED <<config, net, clients, handler, gadget_req_chan, resp,
                   answering, executed>>

WakeOther ==
    /\ mainloop = "wait"
    /\ mainloop' = "handle"
    /\ UNCHANGED <<config, net, clients, handler, queue, answering, executed>>

\* handle_gadget_requests executes a request and sends the result on its
\* Resp channel, which has room for the one result it will ever carry.
HandleRequest ==
    /\ mainloop = "handle" /\ answering = None
    /\ gadget_req_chan # <<>>
    /\ Execute(Head(gadget_req_chan))
    /\ answering' = Head(gadget_req_chan)
    /\ gadget_req_chan' = Tail(gadget_req_chan)
    /\ UNCHANGED <<config, net, clients, handler, resp, wake_chan, mainloop>>

RespRoom_unbuffered(c) == Handling("await") /\ handler.client = c
RespRoom(c) == ~resp[c]

SendResp ==
    /\ mainloop = "handle" /\ answering # None
    /\ RespRoom(answering)
    /\ resp' = [resp EXCEPT ![answering] = TRUE]
    /\ answering' = None
    /\ UNCHANGED <<config, net, clients, handler, gadget_req_chan, wake_chan,
                   mainloop, executed>>

Handled ==
    /\ mainloop = "handle" /\ answering = None
    /\ gadget_req_chan = <<>>
    /\ mainloop' = "wait"
    /\ UNCHANGED <<config, net, clients, handler, queue, answering, executed>>

\* The mainloop returns and the process ends.
Exit ==
    /\ mainloop = "wait"
    /\ mainloop' = "ended"
    /\ server' = "down" /\ conn' = None /\ inbox' = {}
    /\ handler' = Idle
    /\ UNCHANGED <<config, clients, queue, answering, executed>>

-----------------------------------------------------------------------------
Init ==
    /\ transport \in {"stream", "dbus"}
    /\ share \in BOOLEAN
    /\ malformed \in SUBSET Directs
    /\ server = "down"
    /\ client = [c \in Clients |-> "new"]
    /\ conn = None
    /\ inbox = {}
    /\ responses = [c \in Clients |-> <<>>]
    /\ handler = Idle
    /\ gadget_req_chan = <<>>
    /\ resp = [c \in Clients |-> FALSE]
    /\ wake_chan = FALSE
    /\ mainloop = "wait"
    /\ answering = None
    /\ executed = [c \in Clients |-> 0]

Handler ==
    \/ \E c \in Clients : Take(c)
    \/ Deny
    \/ Reject
    \/ HandleDirect
    \/ HandleGadget
    \/ Enqueue
    \/ EnqueueTimeout
    \/ Signal
    \/ Await
    \/ AwaitTimeout
    \/ Respond

Mainloop ==
    \/ WakeIpc
    \/ HandleRequest
    \/ SendResp
    \/ Handled

Next ==
    \/ ServerStart
    \/ ServerFails
    \/ \E c \in Clients : Call(c)
    \/ \E c \in Clients : Answered(c)
    \/ \E c \in Clients : TimesOut(c)
    \/ Handler
    \/ Mainloop
    \/ WakeOther
    \/ Exit

Spec == Init /\ [][Next]_vars

\* Go schedules the handler and the mainloop.  Nothing is assumed of the
\* clients, of other wake-ups, or of which of two ready timeouts comes first.
FairSpec == Spec /\ WF_vars(Handler) /\ WF_vars(Mainloop)

-----------------------------------------------------------------------------
(* Properties.                                                             *)

HandlerStates ==
    {"idle", "dispatch", "enqueue", "signal", "await", "respond"}

TypeOK ==
    /\ transport \in {"stream", "dbus"} /\ share \in BOOLEAN
    /\ malformed \subseteq Directs
    /\ server \in {"up", "down"}
    /\ client \in [Clients -> {"new", "waiting", "gone"}]
    /\ conn \in Clients \cup {None}
    /\ inbox \subseteq Clients
    /\ responses \in [Clients -> Seq(Packages)]
    /\ handler \in [client : Clients \cup {None}, pc : HandlerStates, answer : Answers]
    /\ handler.client = None <=> handler.pc = "idle"
    /\ handler.pc \in {"enqueue", "signal", "await"} => handler.client \in Gadgets
    /\ gadget_req_chan \in Seq(Gadgets) /\ Len(gadget_req_chan) <= ReqCap
    /\ resp \in [Clients -> BOOLEAN]
    /\ wake_chan \in BOOLEAN
    /\ mainloop \in {"wait", "handle", "ended"}
    /\ answering \in Gadgets \cup {None}
    /\ executed \in [Clients -> Nat]

\* A request in gadget_req_chan never waits for a mainloop that nothing will
\* wake: its wake-up is pending or about to be sent.
QueuedIsWoken ==
    gadget_req_chan # <<>> /\ mainloop = "wait" => wake_chan \/ handler.pc = "signal"

\* The answers that have reached client c, taken or not.
Delivered(c) == {responses[c][i] : i \in DOMAIN responses[c]}

\* What clients are told is true of the request the answer belongs to: "not
\* accepted", an error or a refusal mean that it was not and never will be
\* executed, a result that it was, and nothing is executed twice.  Only "timed
\* out" leaves it open.
AnswersAreTrue ==
    /\ \A c \in Clients : executed[c] <= 1
    /\ \A c \in Clients : \A p \in Delivered(c) :
          /\ p.answer = "ok" => executed[p.of] = 1
          /\ p.answer \in {"busy", "error", "denied"} =>
                /\ executed[p.of] = 0
                /\ \A i \in DOMAIN gadget_req_chan : gadget_req_chan[i] # p.of

\* Packages carry no request id, yet no client gets an answer that another one
\* is waiting for; on D-Bus none gets another's answer at all.
OthersAnswersAreStale ==
    \A c \in Clients : \A p \in Delivered(c) :
        p.of # c => transport = "stream" /\ client[p.of] = "gone"

\* A request once accepted is executed, whatever became of the client that
\* sent it and of those before it: abandoned answers never block the mainloop.
AcceptedIsExecuted ==
    \A c \in Gadgets :
        (\E i \in DOMAIN gadget_req_chan : gadget_req_chan[i] = c)
            ~> (executed[c] = 1 \/ mainloop = "ended")

\* A client whose request is handled is answered before its own timeout, be it
\* with RequestGadget's error, except that the stream transport drops the
\* fallback's error packages.
HandledIsAnswered ==
    \A c \in Clients :
        (handler.client = c /\ ~(transport = "stream" /\ c \in malformed))
            ~> (client[c] = "gone" \/ responses[c] # <<>> \/ mainloop = "ended")
=============================================================================
