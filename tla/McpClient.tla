----------------------------- MODULE McpClient -----------------------------
(* The MCP client of the tool host: mcp.Manager, which opens the configured *)
(* servers one after another, and the stdio transport under each Client,    *)
(* where callers, the goroutine that reads the server's output, and Close   *)
(* share a table of pending requests.                                       *)
(*                                                                          *)
(* The server is a separate program: it reads requests from a pipe that can *)
(* be full, answers what it has read in any order and as often as it likes, *)
(* falls silent, or dies.                                                   *)
EXTENDS Naturals, Sequences, FiniteSets

CONSTANTS
    Callers,        \* goroutines that call MCP tools
    Main,           \* the goroutine that connects and closes the manager
    NoRequest,         \* no goroutine
    Servers,        \* how many enabled servers are configured
    MaxClients,     \* bound: clients ever opened
    MaxIds,         \* bound: requests on one client
    PipeSize,       \* requests a server's input pipe holds
    MaxOutput       \* bound: answers written by the server and not yet read

Procs == Callers \cup {Main}
Clients == 1 .. MaxClients
Ids == 1 .. MaxIds

ASSUME McpAssumption ==
    /\ Main \notin Callers /\ NoRequest \notin Procs
    /\ {Servers, MaxClients, MaxIds, PipeSize, MaxOutput} \subseteq Nat \ {0}

VARIABLES
    manager,    \* connected, the open clients, the clients with registered tools
    main,       \* where the goroutine Main is in Connect or Close
    opened,     \* clients opened so far
    transport,  \* client -> its stdioTransport
    rpc        \* goroutine -> its request
mcpVars == <<manager, main, opened, transport, rpc>>

(* transport: stdin and server are the two ends of the pipe, "mute" being   *)
(* a server whose output has ended while it still reads. stage is how far   *)
(* Close has come.                                                          *)
Unopened ==
    [stdin |-> "closed", server |-> "dead", pipe |-> <<>>, read |-> {},
     output |-> <<>>, reader |-> "done", pending |-> {},
     channel |-> [i \in Ids |-> "empty"], writer |-> NoRequest,
     stage |-> "unopened", nextID |-> 0]

NoCall == [pc |-> "idle", client |-> 0, id |-> 0, cancelled |-> FALSE, answered |-> FALSE]

McpInit ==
    /\ manager = [connected |-> FALSE, clients |-> <<>>, tools |-> {}]
    /\ main = [pc |-> "idle", clients |-> <<>>, queue |-> <<>>]
    /\ opened = 0
    /\ transport = [c \in Clients |-> Unopened]
    /\ rpc = [p \in Procs |-> NoCall]

-----------------------------------------------------------------------------
(* One request: register, check the context, write, wait *)

Active(p) == rpc[p].pc \notin {"idle", "done"}
Broken(c) == transport[c].stdin = "closed" \/ transport[c].server = "dead"
Room(c) == Len(transport[c].pipe) < PipeSize

(* The request is numbered and its channel entered in the table.            *)
Register(p, c) ==
    LET id == transport[c].nextID + 1 IN
    /\ id \in Ids
    /\ transport' = [transport EXCEPT ![c].nextID = id,
                                      ![c].pending = @ \cup {id}]
    /\ rpc' = [rpc EXCEPT ![p] = [NoCall EXCEPT !.pc = "registered",
                                                  !.client = c, !.id = id]]

(* Every return runs the deferred unregister. *)
Unregister(t, p) ==
    [t EXCEPT !.pending = @ \ {rpc[p].id},
              !.writer = IF @ = p THEN NoRequest ELSE @]

(* answered: with a response, and not with an error of any kind.            *)
Return(p, answered) ==
    /\ transport' = [transport EXCEPT ![rpc[p].client] = Unregister(@, p)]
    /\ rpc' = [rpc EXCEPT ![p] = [NoCall EXCEPT !.pc = "done", !.answered = answered]]

CheckContext(p) ==
    /\ rpc[p].pc = "registered"
    /\ IF rpc[p].cancelled THEN Return(p, FALSE)
       ELSE rpc' = [rpc EXCEPT ![p].pc = "locking"] /\ UNCHANGED transport
    /\ UNCHANGED <<manager, main, opened>>

(* writeMu, which no context interrupts.                                    *)
LockWriter(p) ==
    LET c == rpc[p].client IN
    /\ rpc[p].pc = "locking" /\ transport[c].writer = NoRequest
    /\ transport' = [transport EXCEPT ![c].writer = p]
    /\ rpc' = [rpc EXCEPT ![p].pc = "writing"]
    /\ UNCHANGED <<manager, main, opened>>

(* Write blocks while the pipe is full; the context does not interrupt it.  *)
WriteRequest(p) ==
    LET c == rpc[p].client IN
    /\ rpc[p].pc = "writing"
    /\ \/ Broken(c) /\ Return(p, FALSE)
       \/ /\ ~Broken(c) /\ Room(c)
          /\ transport' = [transport EXCEPT ![c].pipe = Append(@, rpc[p].id),
                                            ![c].writer = NoRequest]
          /\ rpc' = [rpc EXCEPT ![p].pc = "waiting"]
    /\ UNCHANGED <<manager, main, opened>>

(* select: the answer or the context, either when both are ready.           *)
Await(p) ==
    LET c == rpc[p].client
        got == transport[c].channel[rpc[p].id]
    IN /\ rpc[p].pc = "waiting"
       /\ \/ got # "empty" /\ Return(p, got = "response")
          \/ rpc[p].cancelled /\ Return(p, FALSE)
       /\ UNCHANGED <<manager, main, opened>>

Cancel(p) ==
    /\ Active(p) /\ ~rpc[p].cancelled
    /\ rpc' = [rpc EXCEPT ![p].cancelled = TRUE]
    /\ UNCHANGED <<manager, main, opened, transport>>

(* Tool.Execute: any registered tool, also one whose client was closed.     *)
CallTool(p) ==
    /\ rpc[p].pc \in {"idle", "done"}
    /\ \E c \in manager.tools : Register(p, c)
    /\ UNCHANGED <<manager, main, opened>>

-----------------------------------------------------------------------------
(* The reading goroutine and failPending *)

FailPending(t) ==
    [t EXCEPT !.channel = [i \in Ids |-> IF i \in t.pending THEN "failed" ELSE @[i]],
              !.pending = {}]

(* readLoop looks the number up and takes it out of the table before it     *)
(* sends: an unknown, repeated or late answer finds nothing.                *)
Deliver(t, id) ==
    IF id \in t.pending
    THEN [t EXCEPT !.pending = @ \ {id}, !.channel[id] = "response"]
    ELSE t

ReadAnswer(c) ==
    /\ transport[c].reader = "running" /\ transport[c].output # <<>>
    /\ LET delivered == Deliver(transport[c], Head(transport[c].output))
       IN transport' = [transport EXCEPT ![c] =
                            [delivered EXCEPT !.output = Tail(transport[c].output)]]
    /\ UNCHANGED <<manager, main, opened, rpc>>

(* End of output, an undecodable message, or the pipe closed by Wait.       *)
ReadFails(c) ==
    /\ transport[c].reader = "running"
    /\ \/ transport[c].output = <<>> /\ transport[c].server # "up"
       \/ transport[c].stage \in {"waiting", "closed"}
    /\ transport' = [transport EXCEPT ![c] = [FailPending(@) EXCEPT !.reader = "done"]]
    /\ UNCHANGED <<manager, main, opened, rpc>>

-----------------------------------------------------------------------------
(* The server *)

(* What it has not written is lost; what it has can still be read.          *)
Dead(t) == [t EXCEPT !.server = "dead", !.pipe = <<>>, !.read = {}]

ServerStep(c) ==
    /\ transport[c].server \in {"up", "mute"}
    /\ \/ /\ transport[c].pipe # <<>>
          /\ transport' = [transport EXCEPT ![c].read = @ \cup {Head(transport[c].pipe)},
                                            ![c].pipe = Tail(@)]
       \/ /\ transport[c].server = "up" /\ Len(transport[c].output) < MaxOutput
          /\ \E id \in transport[c].read \cap Ids :
                transport' = [transport EXCEPT ![c].output = Append(@, id)]
       \/ /\ transport[c].server = "up"
          /\ transport' = [transport EXCEPT ![c].server = "mute"]
       \/ transport' = [transport EXCEPT ![c] = Dead(@)]
    /\ UNCHANGED <<manager, main, opened, rpc>>

-----------------------------------------------------------------------------
(* stdioTransport.Close, a step at a time; closeOnce passes over a client   *)
(* that is closed already.                                                  *)
CloseStep(t) ==
    CASE t.stage = "open" -> [t EXCEPT !.stdin = "closed", !.stage = "input closed"]
      [] t.stage = "input closed" -> [Dead(t) EXCEPT !.stage = "killed"]
      [] t.stage = "killed" -> [FailPending(t) EXCEPT !.stage = "waiting"]
      [] t.stage = "waiting" -> [t EXCEPT !.stage = "closed"]

CloseNext ==
    /\ main.pc \in {"undo", "close"} /\ main.queue # <<>>
    /\ LET c == Head(main.queue) IN
       IF transport[c].stage = "closed"
       THEN /\ main' = [main EXCEPT !.queue = Tail(@)]
            /\ UNCHANGED transport
       ELSE /\ transport' = [transport EXCEPT ![c] = CloseStep(@)]
            /\ UNCHANGED main
    /\ UNCHANGED <<manager, opened, rpc>>

-----------------------------------------------------------------------------
(* Manager.Connect, Manager.Close and Agent.connectMCP, under one mutex *)

Current == main.clients[Len(main.clients)]

BeginConnect ==
    /\ main.pc = "idle" /\ ~manager.connected
    /\ opened + Servers <= MaxClients
    /\ main' = [main EXCEPT !.pc = "open", !.clients = <<>>]
    /\ UNCHANGED <<manager, opened, transport, rpc>>

(* Mutant: the client whose tools could not be listed is forgotten.         *)
OpenedWithoutCurrent ==
    LET before == SubSeq(main.clients, 1, Len(main.clients) - 1)
    IN IF main.pc = "list" THEN before
       ELSE IF main.pc = "open" THEN main.clients
       ELSE <<Current>> \o before

(* What a failed Connect closes: openClient the client that it could not    *)
(* initialise, and then closeClients those before it, in their order.       *)
Opened ==
    IF main.pc \in {"initialize", "notify"}
    THEN <<Current>> \o SubSeq(main.clients, 1, Len(main.clients) - 1)
    ELSE main.clients

(* A client that cannot be opened, initialised or listed ends Connect, and  *)
(* every client opened before it is closed.                                 *)
GiveUp == main' = [main EXCEPT !.pc = "undo", !.queue = Opened]

OpenClient ==
    /\ main.pc = "open"
    /\ \/ GiveUp /\ UNCHANGED <<opened, transport, rpc>>
       \/ LET c == opened + 1 IN
          /\ opened' = c
          /\ transport' = [transport EXCEPT ![c] =
                [Unopened EXCEPT !.stdin = "open", !.server = "up", !.reader = "running",
                                 !.stage = "open", !.nextID = 1, !.pending = {1}]]
          /\ rpc' = [rpc EXCEPT ![Main] = [NoCall EXCEPT !.pc = "registered",
                                                           !.client = c, !.id = 1]]
          /\ main' = [main EXCEPT !.pc = "initialize", !.clients = Append(@, c)]
    /\ UNCHANGED manager

ReplyAnswers == rpc[Main].pc = "done" /\ rpc[Main].answered
CallRefused == rpc[Main].pc = "done" /\ ~rpc[Main].answered
Consumed == rpc' = [rpc EXCEPT ![Main] = NoCall]

Initialized ==
    /\ main.pc = "initialize"
    /\ \/ CallRefused /\ GiveUp
       \/ ReplyAnswers /\ main' = [main EXCEPT !.pc = "notify"]
    /\ Consumed
    /\ UNCHANGED <<manager, opened, transport>>

(* The notification carries no number: 0 in the pipe, never answered. Then  *)
(* tools/list is requested.                                                 *)
NotifyInitialized ==
    /\ main.pc = "notify"
    /\ \/ /\ Broken(Current) /\ GiveUp
          /\ UNCHANGED <<transport, rpc>>
       \/ /\ ~Broken(Current) /\ Room(Current)
          /\ LET id == transport[Current].nextID + 1 IN
             /\ id \in Ids
             /\ transport' = [transport EXCEPT ![Current].pipe = Append(@, 0),
                                               ![Current].nextID = id,
                                               ![Current].pending = @ \cup {id}]
             /\ rpc' = [rpc EXCEPT ![Main] = [NoCall EXCEPT !.pc = "registered",
                                                    !.client = Current, !.id = id]]
          /\ main' = [main EXCEPT !.pc = "list"]
    /\ UNCHANGED <<manager, opened>>

ListTools ==
    /\ main.pc = "list"
    /\ \/ CallRefused /\ GiveUp /\ UNCHANGED manager
       \/ /\ ReplyAnswers /\ Len(main.clients) < Servers
          /\ main' = [main EXCEPT !.pc = "open"]
          /\ UNCHANGED manager
       \/ /\ ReplyAnswers /\ Len(main.clients) = Servers
          /\ manager' = [manager EXCEPT !.connected = TRUE, !.clients = main.clients]
          /\ main' = [main EXCEPT !.pc = "register"]
    /\ Consumed
    /\ UNCHANGED <<opened, transport>>

Undone ==
    /\ main.pc = "undo" /\ main.queue = <<>>
    /\ main' = [main EXCEPT !.pc = "idle", !.clients = <<>>]
    /\ UNCHANGED <<manager, opened, transport, rpc>>

(* connectMCP registers the tools one by one; a tool that is refused closes *)
(* the manager and leaves those before it in the registry.                  *)
RegisterTools ==
    /\ main.pc = "register"
    /\ \E n \in 0 .. Len(manager.clients) :
          /\ manager' = [manager EXCEPT !.tools = @ \cup {manager.clients[i] : i \in 1 .. n}]
          /\ IF n = Len(manager.clients)
             THEN main' = [main EXCEPT !.pc = "idle", !.clients = <<>>]
             ELSE main' = [main EXCEPT !.pc = "close", !.clients = <<>>,
                                       !.queue = manager.clients]
    /\ UNCHANGED <<opened, transport, rpc>>

BeginClose ==
    /\ main.pc = "idle" /\ manager.connected
    /\ main' = [main EXCEPT !.pc = "close", !.queue = manager.clients]
    /\ UNCHANGED <<manager, opened, transport, rpc>>

EndClose ==
    /\ main.pc = "close" /\ main.queue = <<>>
    /\ manager' = [manager EXCEPT !.connected = FALSE, !.clients = <<>>]
    /\ main' = [main EXCEPT !.pc = "idle"]
    /\ UNCHANGED <<opened, transport, rpc>>

-----------------------------------------------------------------------------
SendRequest(p) == CheckContext(p) \/ LockWriter(p) \/ WriteRequest(p) \/ Await(p)
Reader(c) == ReadAnswer(c) \/ ReadFails(c)
Manage ==
    \/ OpenClient \/ Initialized \/ NotifyInitialized \/ ListTools \/ Undone
    \/ RegisterTools \/ EndClose \/ CloseNext

McpNext ==
    \/ \E p \in Procs : SendRequest(p) \/ Cancel(p)
    \/ \E p \in Callers : CallTool(p)
    \/ \E c \in Clients : Reader(c) \/ ServerStep(c)
    \/ BeginConnect \/ BeginClose \/ Manage

-----------------------------------------------------------------------------
(* The channel of a request holds one value. An entry still in the table    *)
(* has an empty channel, so neither readLoop nor failPending, which sends   *)
(* with the table locked, can ever block on a send: a server that repeats   *)
(* an answer cannot stop the client.                                        *)
SendsNeverBlock ==
    \A c \in Clients : \A i \in transport[c].pending : transport[c].channel[i] = "empty"

(* A Connect that failed half way, or a Close, leaves no server behind:     *)
(* outside Connect and Close the clients that are not closed are exactly    *)
(* those of the connected manager.                                          *)
NoServerLeftBehind ==
    main.pc = "idle" =>
        {c \in Clients : transport[c].stage \notin {"unopened", "closed"}}
            = {manager.clients[i] : i \in DOMAIN manager.clients}

(* Whoever has a request on a client when it is closed, registered before   *)
(* or after the table was failed, blocked in a write or waiting, gets an    *)
(* answer or an error: in the end no request is left on a closed client.    *)
CallersReleased ==
    \A p \in Procs : Active(p) => transport[rpc[p].client].stage # "closed"
=============================================================================
