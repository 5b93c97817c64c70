--------------------------------- MODULE Ftp ---------------------------------
(***************************************************************************)
(* The FTP server ps2ftpd (irx/ps2ftpd): one thread that selects on all    *)
(* sockets, accepts control connections, and for every client handles one  *)
(* command and one event of its data connection, in that order.            *)
(*                                                                         *)
(* The handlers are operators from a state p of one client, its record     *)
(* p.c and the open descriptors p.open, to the state they leave, or to the *)
(* set of such states where a system call may succeed or fail.  Left out:  *)
(* the assembly of command lines, restart markers, paths, the data itself, *)
(* replies other than those about a transfer.  A system call that blocks   *)
(* is a step that takes its time, but for the accept of a data connection. *)
(***************************************************************************)
EXTENDS Naturals, FiniteSets, SequencesExt

CONSTANTS
    Slots,          \* m_kClientArray
    Sockets,        \* the descriptors the stack can hand out
    NoSocket,       \* -1
    MaxAttempts,    \* wrong passwords a client may send: 3
    Anonymous,      \* m_iAnonymous
    Limited,        \* bound: the slots whose peers use some commands only,
    LimitedCommands,\* and these commands
    Rude,           \* the slots whose peers may do things out of turn
    MaxLost         \* bound: descriptors that are open and known to no one

Transfers == {"list", "retr", "stor"}
AllCommands == {"user", "pass", "quit", "pasv", "port", "file", "noop"} \cup Transfers

ASSUME FtpAssumption ==
    /\ Sockets \subseteq Nat /\ IsFiniteSet(Sockets) /\ NoSocket \notin Sockets
    /\ MaxAttempts \in Nat /\ Anonymous \in BOOLEAN
    /\ Limited \subseteq Slots /\ LimitedCommands \subseteq AllCommands
    /\ Rude \subseteq Slots /\ MaxLost \in Nat

VARIABLES
    client,         \* m_kClientArray, with each client's peer (see Clients)
    order,          \* m_kClients, the attached clients from head to tail
    open,           \* the open descriptors
    srv             \* FtpServer_HandleEvents: where it is, the clients still
                    \* to be served, and select's result

vars == <<client, order, open, srv>>

\* An FtpClient.  A port has been given when m_iRemotePort # -1; "list" is
\* LIST or NLST, "stor" is STOR or APPE.  A list of devices or units is an open
\* "dir", left behind by paths that name no device; a handle is "stale" when
\* FileSystem_ClassifyPath has filled m_kFile in and nothing was opened.
\* The peer's side: the command or hang-up sent and not yet received (which
\* command it is does not matter before), and a connection made to the listening
\* data socket and not yet accepted.  For the properties: the transfer asked for
\* and not yet ended.
Clients ==
    [control : Sockets \cup {NoSocket},
     auth : {"invalid", "password", "fakepass", "valid"}, attempts : 0 .. MaxAttempts,
     data : Sockets \cup {NoSocket}, port : BOOLEAN, mode : {"idle", "read", "write"},
     action : {"none"} \cup Transfers, conn : {"idle", "listen", "connect", "running"},
     handle : {"closed", "dir", "read", "write", "stale"},
     inbox : {"none", "command", "hangup"}, knock : BOOLEAN,
     asked : {"none"} \cup Transfers]

FreeClient ==
    [control |-> NoSocket, auth |-> "invalid", attempts |-> 0, data |-> NoSocket,
     port |-> FALSE, mode |-> "idle", action |-> "none", conn |-> "idle",
     handle |-> "closed", inbox |-> "none", knock |-> FALSE,
     asked |-> "none"]

Attached(c) == client[c].control # NoSocket
Owned(c) == {client[c].control, client[c].data} \ {NoSocket}
Lost == open \ UNION {Owned(c) : c \in Slots}

TypeOK ==
    /\ client \in [Slots -> Clients]
    /\ order \in Seq(Slots)
    /\ open \subseteq Sockets
    /\ srv \in [pc : {"select", "control", "data"}, todo : Seq(Slots),
                r : SUBSET Sockets, w : SUBSET Sockets]

Idle == [pc |-> "select", todo |-> <<>>, r |-> {}, w |-> {}]

Init ==
    /\ client = [c \in Slots |-> FreeClient]
    /\ order = <<>> /\ open = {} /\ srv = Idle

------------------------------------------------------------------------------
(* FtpClient.c, FileSystem.c: the data connection *)

\* The stack hands out the lowest free descriptor.
Lowest(used) == CHOOSE s \in Sockets \ used : \A t \in Sockets \ used : s <= t
Exhausted(used) == Sockets \subseteq used

OnDataCleanup_Mutant(p) ==
    [c |-> [p.c EXCEPT !.data = NoSocket, !.knock = FALSE, !.handle = "closed",
                       !.port = FALSE, !.conn = "idle", !.asked = "none"],
     open |-> p.open \ {p.c.data}]
OnDataCleanup(p) ==
    [c |-> [p.c EXCEPT !.data = NoSocket, !.knock = FALSE, !.handle = "closed",
                       !.port = FALSE, !.conn = "idle", !.mode = "idle", !.asked = "none"],
     open |-> p.open \ {p.c.data}]

\* 226, and the action stays; or 500.
OnDataComplete(p) == OnDataCleanup(p)
OnDataFailed(p) == OnDataCleanup([p EXCEPT !.c.action = "none"])

OnDataConnected(p) ==
    LET mode == CASE p.c.action \in {"list", "retr"} -> "write"
                  [] p.c.action = "stor" -> "read"
                  [] p.c.action = "none" -> "idle"
    IN  [c |-> [p.c EXCEPT !.conn = "running", !.mode = mode], open |-> p.open]

\* The present socket is closed, a new one made; connect fails, is in progress,
\* or succeeds.
OnDataConnect(p) ==
    LET freed == p.open \ {p.c.data}
        s == Lowest(freed)
        none == [c |-> [p.c EXCEPT !.data = NoSocket, !.knock = FALSE], open |-> freed]
        made(state) == [c |-> [p.c EXCEPT !.data = s, !.knock = FALSE, !.conn = state],
                        open |-> freed \cup {s}]
    IN  IF Exhausted(freed) THEN {OnDataFailed(none)}
        ELSE {OnDataFailed(made(p.c.conn)), made("connect"), OnDataConnected(made("running"))}

HandleDataConnect(p) ==
    IF p.c.conn = "running" THEN {OnDataConnected(p)}
    ELSE IF p.c.port THEN OnDataConnect(p)
    ELSE IF p.c.conn # "listen" THEN {OnDataFailed(p)} ELSE {p}

\* More data, the end, or an error of the device or of the connection.
OnDataWrite(p) ==
    CASE p.c.action = "retr" ->
           IF p.c.handle = "read" THEN {p, OnDataComplete(p), OnDataFailed(p)}
           ELSE {OnDataFailed(p)}
      [] p.c.action = "list" ->
           IF p.c.handle = "dir" THEN {p, OnDataComplete(p)} ELSE {OnDataComplete(p)}
      [] OTHER -> {OnDataFailed(p)}

OnDataRead(p) ==
    IF p.c.action = "stor"
    THEN {OnDataComplete(p), OnDataFailed(p)} \cup {q \in {p} : p.c.handle = "write"}
    ELSE {OnDataFailed(p)}

------------------------------------------------------------------------------
(* FtpClient_OnCommand and FtpCommands.c.  "noop" is every command that       *)
(* changes nothing here: NOOP, SYST, TYPE, CWD, ..., or one without parameter. *)

Destroyed(p) ==
    [c |-> FreeClient, open |-> OnDataCleanup(p).open \ {p.c.control}]

OnCmdUser(p) ==
    {[p EXCEPT !.c.auth = a] :
        a \in {"password", "fakepass"} \cup (IF Anonymous THEN {"valid"} ELSE {})}

WrongPassword_Mutant(p) ==
    IF p.c.auth = "invalid" THEN p
    ELSE IF p.c.attempts > MaxAttempts THEN Destroyed(p)
    ELSE [p EXCEPT !.c.attempts = @ + 1, !.c.auth = "invalid"]
WrongPassword(p) ==
    IF p.c.auth = "invalid" THEN p
    ELSE IF p.c.attempts = MaxAttempts THEN Destroyed(p)
    ELSE [p EXCEPT !.c.attempts = @ + 1, !.c.auth = "invalid"]

OnCmdPass(p) ==
    {WrongPassword(p)} \cup (IF p.c.auth = "password" THEN {[p EXCEPT !.c.auth = "valid"]} ELSE {})

\* socket, bind or listen may fail, and so may either getsockname; after the
\* second one the new socket stays open though no one knows it.
OnCmdPasv(p) ==
    LET q == OnDataCleanup(p)
        s == Lowest(q.open)
        lost == [q EXCEPT !.open = @ \cup {s}]
    IN  IF Exhausted(q.open) THEN {q}
        ELSE {q, [lost EXCEPT !.c.data = s, !.c.conn = "listen"]}
               \cup {t \in {lost} : Cardinality(Lost) < MaxLost}

OnCmdPort(p) == {p, [p EXCEPT !.c.port = TRUE]}

\* A transfer begins with its file or directory open.
Started_Mutant(p, cmd, handle) ==
    [c |-> [p.c EXCEPT !.action = IF @ = "none" THEN cmd ELSE @, !.handle = handle, !.asked = cmd],
     open |-> p.open]
Started(p, cmd, handle) ==
    [c |-> [p.c EXCEPT !.action = cmd, !.handle = handle, !.asked = cmd], open |-> p.open]

\* The action is set before the directory is opened, and stays.
OnCmdList(p) ==
    {[c |-> [p.c EXCEPT !.action = "list", !.handle = h], open |-> p.open] : h \in {"closed", "dir"}}
      \cup HandleDataConnect(Started(p, "list", "dir"))

\* RETR and STOR (APPE): the action is set when the file is open.
OnCmdFile(p, cmd) ==
    {[p EXCEPT !.c.handle = h] : h \in {"closed", "dir"}}
      \cup HandleDataConnect(Started(p, cmd, IF cmd = "retr" THEN "read" ELSE "write"))

\* DELE, MKD, RMD, RNFR, RNTO, SIZE and SITE use the context of the transfer.
OnCmdOther(p) == {[p EXCEPT !.c.handle = h] : h \in {"closed", "dir", "stale"}}

OnCommandBeforeLogin(p, cmd) ==
    CASE cmd = "user" -> OnCmdUser(p)
      [] cmd = "pass" -> OnCmdPass(p)
      [] cmd = "quit" -> {Destroyed(p)}
      [] OTHER -> {p}

OnCommandAfterLogin(p, cmd) ==
    CASE cmd = "quit" -> {Destroyed(p)}
      [] cmd = "pasv" -> OnCmdPasv(p)
      [] cmd = "port" -> OnCmdPort(p)
      [] cmd = "list" -> OnCmdList(p)
      [] cmd \in {"retr", "stor"} -> OnCmdFile(p, cmd)
      [] cmd = "file" -> OnCmdOther(p)
      [] OTHER -> {p}

OnCommand_Mutant(p, cmd) ==
    IF p.c.auth # "valid" /\ cmd \in {"user", "pass"}
    THEN OnCommandBeforeLogin(p, cmd) ELSE OnCommandAfterLogin(p, cmd)
OnCommand(p, cmd) ==
    IF p.c.auth # "valid" THEN OnCommandBeforeLogin(p, cmd) ELSE OnCommandAfterLogin(p, cmd)

------------------------------------------------------------------------------
(* FtpServer_HandleEvents *)

Writing(cl) == cl.conn = "connect" \/ cl.mode = "write"
Reading(cl) == cl.conn = "listen" \/ cl.mode = "read"

\* What the data connection of a client has to do, by the client's state now and
\* by the sets select filled in before the client's command was handled.
Event(cl, r, w) ==
    IF cl.data = NoSocket THEN "none"
    ELSE IF Writing(cl)
    THEN IF cl.data \notin w THEN "none"
         ELSE IF cl.conn = "connect" THEN "connected" ELSE "write"
    ELSE IF Reading(cl) /\ cl.data \in r
    THEN IF cl.conn = "listen" THEN "accept" ELSE "read"
    ELSE "none"

\* The traversal passes over the clients that have nothing to do, up to the first
\* that has; m_pNext leads from there through the rest of the list.
Traversal(clients, r, w) ==
    LET ready == {i \in DOMAIN clients : \/ client[clients[i]].control \in r
                                         \/ Event(client[clients[i]], r, w) # "none"}
        first == CHOOSE i \in ready : \A j \in ready : i <= j
        todo == SubSeq(clients, first, Len(clients))
    IN  IF ready = {} THEN Idle
        ELSE [pc |-> IF client[Head(todo)].control \in r THEN "control" ELSE "data",
              todo |-> todo, r |-> r, w |-> w]

\* A client is created in a free slot, at the tail of the list.
OnClientConnect(c) ==
    /\ ~Attached(c)
    /\ LET s == Lowest(open) IN
       /\ client' = [client EXCEPT ![c] = [FreeClient EXCEPT !.control = s]]
       /\ open' = open \cup {s}
    /\ order' = Append(order, c)

\* Without a slot for it the new connection is closed again.
Accept ==
    \/ ~Exhausted(open) /\ \E c \in Slots : OnClientConnect(c)
    \/ /\ Exhausted(open) \/ \A c \in Slots : Attached(c)
       /\ UNCHANGED <<client, order, open>>

\* The descriptors on which a command, a connection, data or room for data may
\* be waiting.
Connected == {c \in Slots : Attached(c)}
Commanding == {client[c].control : c \in {d \in Connected : client[d].inbox # "none"}}
Knocking == {client[c].data : c \in {d \in Connected : ~Writing(client[d]) /\ client[d].knock}}
Uploads == {client[c].data :
               c \in {d \in Connected : ~Writing(client[d]) /\ client[d].mode = "read"}}
Writers == {client[c].data : c \in {d \in Connected : Writing(client[d])}} \ {NoSocket}

\* select returns when something is ready: all commands and connections that
\* have arrived, and whatever transfers can go on.  A client that is created now
\* is last in the list and has nothing to do before the next select.
Select ==
    /\ srv.pc = "select"
    /\ \E up \in SUBSET Uploads, w \in SUBSET Writers, new \in BOOLEAN :
          LET r == Commanding \cup Knocking \cup up IN
          /\ new \/ r \cup w # {}
          /\ IF new THEN Accept ELSE UNCHANGED <<client, order, open>>
          /\ srv' = Traversal(order', r, w)

Current == Head(srv.todo)
State(c) == [c |-> client[c], open |-> open]
Handled(c, p) == client' = [client EXCEPT ![c] = p.c] /\ open' = p.open

\* A destroyed client is taken off the list; the traversal goes on, for it has
\* read m_pNext before.
Detach_Mutant(c, p) == order' = order
Detach(c, p) ==
    order' = IF p.c.control # NoSocket THEN order
             ELSE RemoveAt(order, CHOOSE i \in DOMAIN order : order[i] = c)

Commands(c) == IF c \in Limited THEN LimitedCommands ELSE AllCommands
Received(c) ==
    LET p == [State(c) EXCEPT !.c.inbox = "none"]
    IN  IF client[c].inbox = "hangup" THEN {Destroyed(p)}
        ELSE UNION {OnCommand(p, cmd) : cmd \in Commands(c)}

HandleControl ==
    /\ srv.pc = "control"
    /\ \E p \in Received(Current) :
          /\ Handled(Current, p) /\ Detach(Current, p)
          /\ srv' = IF Event(p.c, srv.r, srv.w) # "none" THEN [srv EXCEPT !.pc = "data"]
                    ELSE Traversal(Tail(srv.todo), srv.r, srv.w)

\* The server waits in accept for a connection nobody has made.
Stalled ==
    /\ srv.pc = "data"
    /\ Event(client[Current], srv.r, srv.w) = "accept" /\ ~client[Current].knock

\* The listening socket makes way for the connection.
AcceptData_Mutant(p) ==
    LET s == Lowest(p.open)
    IN  IF Exhausted(p.open) THEN [p EXCEPT !.c.knock = FALSE]
        ELSE OnDataConnected([c |-> [p.c EXCEPT !.data = s, !.knock = FALSE], open |-> p.open])
AcceptData(p) ==
    LET s == Lowest(p.open)
    IN  IF Exhausted(p.open) THEN [p EXCEPT !.c.knock = FALSE]
        ELSE OnDataConnected([c |-> [p.c EXCEPT !.data = s, !.knock = FALSE],
                              open |-> (p.open \ {p.c.data}) \cup {s}])

OnDataEvent(p, event) ==
    CASE event = "connected" -> {OnDataConnected(p), OnDataFailed(p)}
      [] event = "write" -> OnDataWrite(p)
      [] event = "accept" -> {AcceptData(p)}
      [] event = "read" -> OnDataRead(p)

HandleData ==
    /\ srv.pc = "data" /\ ~Stalled
    /\ \E q \in OnDataEvent(State(Current), Event(client[Current], srv.r, srv.w)) :
          Handled(Current, q)
    /\ srv' = Traversal(Tail(srv.todo), srv.r, srv.w)
    /\ UNCHANGED order

------------------------------------------------------------------------------
(* The peers *)

\* What a peer does while the server is at work is seen by the next select, so it
\* may as well happen then; but a server stalled in accept sees a connection.
\* A peer that takes turns waits for the end of the transfer it has asked for before it
\* sends another command, and asks for a transfer before it connects for it.
MaySend(c) == c \in Rude \/ client[c].asked = "none"
MayKnock(c) == c \in Rude \/ client[c].asked # "none"

Send(c, what) ==
    /\ srv.pc = "select" /\ Attached(c) /\ client[c].inbox = "none"
    /\ what = "hangup" \/ MaySend(c)
    /\ client' = [client EXCEPT ![c].inbox = what]
    /\ UNCHANGED <<order, open, srv>>

Knock(c) ==
    /\ srv.pc = "select" \/ (Stalled /\ Current = c)
    /\ Attached(c) /\ client[c].conn = "listen" /\ ~client[c].knock
    /\ MayKnock(c)
    /\ client' = [client EXCEPT ![c].knock = TRUE]
    /\ UNCHANGED <<order, open, srv>>

Server == Select \/ HandleControl \/ HandleData
Peer(c) == Knock(c) \/ Send(c, "command") \/ Send(c, "hangup")
Next == Server \/ \E c \in Slots : Peer(c)

Spec == Init /\ [][Next]_vars

------------------------------------------------------------------------------
(* Properties *)

\* Descriptors are closed by whoever owns them: the sockets of an attached
\* client are open and are no other client's, and the control and the data
\* connection of a client are two.  (accept, disconnect and the re-use of
\* numbers in FtpServer_HandleEvents, OnDataConnect and OnCmdPasv.)
SocketsOwned ==
    /\ \A c \in Slots : Owned(c) \subseteq open
    /\ \A c, d \in Slots : c # d => Owned(c) \cap Owned(d) = {}
    /\ \A c \in Slots : Attached(c) => client[c].control # client[c].data

\* Data flows only for a transfer the client has asked for and that has not
\* ended, as long as that client takes turns; what the other clients do, and
\* how descriptors are re-used, does not matter.
TransferAskedFor ==
    \A c \in Slots \ Rude : client[c].mode # "idle" => client[c].asked # "none"

\* The handle each kind of transfer needs, and OnDataComplete for client c.
Fitting(kind) ==
    CASE kind = "list" -> {"dir"}
      [] kind = "retr" -> {"read"}
      [] kind = "stor" -> {"write"}
      [] OTHER -> {}
Completes(c) ==
    /\ srv.pc = "data" /\ client[c].data # NoSocket
    /\ client'[c].data = NoSocket /\ client'[c].action # "none"

\* "226" is said at the end of the transfer that was asked for and with that
\* transfer's file or directory still open, if the client takes turns.
EndsWhatWasAsked ==
    [][\A c \in Slots \ Rude :
          Completes(c)
          => /\ client[c].action = client[c].asked
             /\ client[c].handle \in Fitting(client[c].asked)]_vars

RestOf(s, t) == \E k \in 0 .. Len(t) : s = SubSeq(t, k + 1, Len(t))

\* The list and the traversal of FtpServer_HandleEvents are sound while clients
\* come and go: every attached client, and no other, is on m_kClients once, so that
\* select sees it, and those still to be served are the rest of the list (the
\* m_pNext the traversal has read stays valid; FtpServer.h:34 doubts it).
ListSound ==
    /\ ToSet(order) = Connected /\ IsInjective(order)
    /\ RestOf(srv.todo, order)

Session(cl) ==
    IF cl.control = NoSocket THEN "free"
    ELSE IF cl.auth # "valid" THEN "greeted"
    ELSE IF cl.mode = "idle" THEN "loggedIn" ELSE "transferring"
Sessions == INSTANCE FtpSessions WITH session <- [c \in Slots |-> Session(client[c])]

\* Each client's session is one of FtpSessions: nothing is transferred for a
\* client that has not logged in, and what a handler does for one client never
\* changes the session of another.
ImplementsSessions == Sessions!Spec

\* A data connection that arrives when no transfer is awaited is kept for
\* re-use and nothing is sent over it (FtpClient.c:486).
ConnectionKept ==
    [][\A c \in Slots :
          client[c].conn = "listen" /\ client'[c].conn = "running" /\ client[c].asked = "none"
          => client'[c].mode = "idle"]_vars
=============================================================================
