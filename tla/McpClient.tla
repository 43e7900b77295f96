------------------------------ MODULE McpClient -----------------------------
(***************************************************************************)
(* The client of an MCP server over pipes (clawork-mcp-client).  The       *)
(* session with the server, a child process, is behind a mutex that serves *)
(* in order; a call is two exchanges, initialize and tools/call, and gives *)
(* the mutex back in between.  An exchange writes a line and takes the next*)
(* line for the answer, whatever it answers; one that times out or meets   *)
(* the end of the output is made once more with a new server.              *)
(***************************************************************************)
EXTENDS Integers, Sequences, FiniteSets

CONSTANTS
  Callers,   \* tasks of the application that call a tool
  MaxCalls,  \* bound: calls
  MaxServers, \* bound: servers started; the next start fails
  MaxFaults  \* bound: exits, slow answers, lines nobody asked for, hang-ups

ASSUME McpAssumption ==
  /\ MaxCalls \in Nat
  /\ MaxServers \in Nat
  /\ MaxFaults \in Nat

VARIABLES
  session,  \* the server at hand, 0 if there is none
  server,   \* server -> its process and the pipes to it
  servers,  \* servers started so far
  mutex,    \* callers in line for the session: the first has it
  call,     \* caller -> its call
  calls,    \* calls so far
  faults,   \* faults so far
  misread,  \* history: servers of which a line was taken for another answer
  offset    \* history: servers with a line more than was asked for

mcpVars == <<session, server, servers, mutex, call, calls, faults, misread, offset>>

Servers == 1 .. MaxServers
Calls   == 1 .. MaxCalls
Methods == {"initialize", "tools/call"}
Lines   == Methods \X Calls
Unasked == <<"notification", 0>>

NoServer == [alive |-> FALSE, stdin |-> <<>>, stdout |-> <<>>]
NoCall   == [pc |-> "idle", number |-> 0, method |-> "initialize", attempt |-> 0]

Line(c) == <<call[c].method, call[c].number>>

-----------------------------------------------------------------------------
(* A call.                                                                 *)

CallTool(c) ==
  /\ call[c].pc = "idle"
  /\ calls < MaxCalls
  /\ calls' = calls + 1
  /\ call' = [call EXCEPT ![c] = [NoCall EXCEPT !.pc = "lock", !.number = calls']]
  /\ mutex' = Append(mutex, c)
  /\ UNCHANGED <<session, server, servers, faults, misread, offset>>

Lock(c) ==
  /\ call[c].pc = "lock"
  /\ Head(mutex) = c
  /\ call' = [call EXCEPT ![c].pc = "ensure", ![c].attempt = 1]
  /\ UNCHANGED <<session, server, servers, mutex, calls, faults, misread, offset>>

\* An exchange is over.  After initialize, whatever came of it, comes the call
\* proper, at the end of the line for the session.
Leave(c) ==
  IF call[c].method = "initialize"
  THEN /\ call' = [call EXCEPT ![c].pc = "lock", ![c].method = "tools/call"]
       /\ mutex' = Append(Tail(mutex), c)
  ELSE /\ call' = [call EXCEPT ![c] = NoCall]
       /\ mutex' = Tail(mutex)

\* Mutant: the session is kept for another try.
GiveUpKeeping(c) ==
  /\ session' = session
  /\ IF call[c].attempt = 2
     THEN Leave(c)
     ELSE call' = [call EXCEPT ![c].pc = "ensure", ![c].attempt = 2] /\ UNCHANGED mutex

\* The session is dropped, which does not stop the server, and the exchange is
\* tried once more.
GiveUp(c) ==
  /\ session' = 0
  /\ IF call[c].attempt = 2
     THEN Leave(c)
     ELSE call' = [call EXCEPT ![c].pc = "ensure", ![c].attempt = 2] /\ UNCHANGED mutex

\* ensure_session: a server that has exited is replaced; if none can be started
\* the exchange is over.
EnsureSession(c) ==
  /\ call[c].pc = "ensure"
  /\ IF session # 0 /\ server[session].alive
     THEN /\ call' = [call EXCEPT ![c].pc = "write"]
          /\ UNCHANGED <<session, server, servers, mutex>>
     ELSE \/ /\ servers < MaxServers
             /\ servers' = servers + 1
             /\ session' = servers'
             /\ server' = [server EXCEPT ![servers'] = [NoServer EXCEPT !.alive = TRUE]]
             /\ call' = [call EXCEPT ![c].pc = "write"]
             /\ UNCHANGED mutex
          \/ /\ servers = MaxServers
             /\ Leave(c)
             /\ UNCHANGED <<session, server, servers>>
  /\ UNCHANGED <<calls, faults, misread, offset>>

\* An error of the write is not looked at, only its timeout.
WriteLine(c) ==
  /\ call[c].pc = "write"
  /\ server' = IF server[session].alive
               THEN [server EXCEPT ![session].stdin = Append(@, Line(c))]
               ELSE server
  /\ call' = [call EXCEPT ![c].pc = "read"]
  /\ UNCHANGED <<session, servers, mutex, calls, faults, misread, offset>>

ReadLine(c) ==
  /\ call[c].pc = "read"
  /\ server[session].stdout # <<>>
  /\ server' = [server EXCEPT ![session].stdout = Tail(@)]
  /\ misread' = IF Head(server[session].stdout) = Line(c)
                THEN misread
                ELSE misread \union {session}
  /\ Leave(c)
  /\ UNCHANGED <<session, servers, calls, faults, offset>>

ReadEnd(c) ==
  /\ call[c].pc = "read"
  /\ server[session].stdout = <<>>
  /\ ~server[session].alive
  /\ GiveUp(c)
  /\ UNCHANGED <<server, servers, calls, faults, misread, offset>>

\* Mutant: only the write has a time limit.
TimeOutWrite(c) ==
  /\ call[c].pc = "write"
  /\ GiveUp(c)
  /\ UNCHANGED <<server, servers, calls, faults, misread, offset>>

\* The server takes no input, or gives no answer, for the time of the limit.
TimeOut(c) ==
  /\ call[c].pc \in {"write", "read"}
  /\ call[c].pc = "read" => server[session].stdout = <<>>
  /\ GiveUp(c)
  /\ UNCHANGED <<server, servers, calls, faults, misread, offset>>

Without(line, i) == SubSeq(line, 1, i - 1) \o SubSeq(line, i + 1, Len(line))

\* The client of the local API hangs up: the call stops where it is, and what it
\* asked for last stays to be answered.
HangUp(c) ==
  /\ call[c].pc # "idle"
  /\ faults < MaxFaults
  /\ faults' = faults + 1
  /\ \E i \in 1 .. Len(mutex) : mutex[i] = c /\ mutex' = Without(mutex, i)
  /\ offset' = IF call[c].pc = "read" THEN offset \union {session} ELSE offset
  /\ call' = [call EXCEPT ![c] = NoCall]
  /\ UNCHANGED <<session, server, servers, calls, misread>>

-----------------------------------------------------------------------------
(* A server: one at hand or one that was dropped.                          *)

Serve(g) ==
  /\ server[g].alive
  /\ server[g].stdin # <<>>
  /\ \/ /\ server' = [server EXCEPT ![g].stdin = Tail(@),
                                    ![g].stdout = Append(@, Head(server[g].stdin))]
        /\ UNCHANGED faults
     \/ /\ faults < MaxFaults    \* it exits before it answers
        /\ faults' = faults + 1
        /\ server' = [server EXCEPT ![g].stdin = <<>>, ![g].alive = FALSE]
  /\ UNCHANGED <<session, servers, mutex, call, calls, misread, offset>>

Exit(g) ==
  /\ server[g].alive
  /\ faults < MaxFaults
  /\ faults' = faults + 1
  /\ server' = [server EXCEPT ![g].stdin = <<>>, ![g].alive = FALSE]
  /\ UNCHANGED <<session, servers, mutex, call, calls, misread, offset>>

\* A notification, or a line of a log.
Notify(g) ==
  /\ server[g].alive
  /\ faults < MaxFaults
  /\ faults' = faults + 1
  /\ server' = [server EXCEPT ![g].stdout = Append(@, Unasked)]
  /\ offset' = offset \union {g}
  /\ UNCHANGED <<session, servers, mutex, call, calls, misread>>

-----------------------------------------------------------------------------

McpInit ==
  /\ session = 0
  /\ server = [g \in Servers |-> NoServer]
  /\ servers = 0
  /\ mutex = <<>>
  /\ call = [c \in Callers |-> NoCall]
  /\ calls = 0
  /\ faults = 0
  /\ misread = {}
  /\ offset = {}

CallerStep(c) ==
  \/ Lock(c) \/ EnsureSession(c) \/ WriteLine(c) \/ ReadLine(c) \/ ReadEnd(c)
  \/ TimeOut(c)

McpNext ==
  \/ \E c \in Callers : CallTool(c) \/ CallerStep(c) \/ HangUp(c)
  \/ \E g \in Servers : Serve(g) \/ Exit(g) \/ Notify(g)

McpSpec == McpInit /\ [][McpNext]_mcpVars

\* The mutex is fair and every exchange has a time limit; nothing is assumed of
\* the servers.
FairMcp == McpSpec /\ \A c \in Callers : WF_mcpVars(CallerStep(c))

-----------------------------------------------------------------------------
(* Properties.                                                             *)

\* Every variable has its type; only one caller at a time is past the mutex.
McpTypeOK ==
  /\ session \in 0 .. servers
  /\ \A g \in Servers : /\ \A k \in 1 .. Len(server[g].stdin) : server[g].stdin[k] \in Lines
                        /\ \A k \in 1 .. Len(server[g].stdout) :
                             server[g].stdout[k] \in Lines \union {Unasked}
  /\ \A c \in Callers : call[c].pc \in {"idle", "lock", "ensure", "write", "read"}
  /\ \A c \in Callers : call[c].pc \in {"ensure", "write", "read"} => Head(mutex) = c
  /\ \A c \in Callers : call[c].pc \in {"write", "read"} => session # 0

\* A line is taken for an answer it is not only of a server that sent one nobody
\* asked for, or while a client hung up: timeouts, exits and retries, of this
\* caller or another, never shift the answers.
AnswersMatch == misread \subseteq offset

\* Every call returns, whatever the servers do.
CallsReturnFromMcp == \A c \in Callers : call[c].pc # "idle" ~> call[c].pc = "idle"
=============================================================================
