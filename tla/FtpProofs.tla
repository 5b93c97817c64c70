------------------------------ MODULE FtpProofs ------------------------------
(***************************************************************************)
(* Proofs about Ftp, for any number of slots and descriptors, any peers    *)
(* and any subset of Rude ones.                                            *)
(*                                                                         *)
(* What a handler does for one client is proved first, from a state p of   *)
(* that client and the set O of the descriptors the other clients own; it  *)
(* never closes one of O and never hands one out a second time.  Then the  *)
(* list and the traversal, and then the invariant FtpInv step by step.     *)
(* FtpInv says more than the properties: what a client's connection, mode  *)
(* and waiting connection have to do with one another (Sound), what they   *)
(* have to do with the transfer asked for if the peer takes turns          *)
(* (TakesTurns), and that the sets select filled in still fit the clients  *)
(* that have not been served (ServerSound).                                *)
(***************************************************************************)
EXTENDS Ftp, WellFoundedInduction, SequenceTheorems, TLAPS

\* A set of naturals that is not empty has a least element.
LEMMA LeastExists ==
    ASSUME NEW S \in SUBSET Nat, S # {}
    PROVE  \E m \in S : \A n \in S : m <= n
<1>1. PICK m \in S : \A n \in S : <<n, m>> \notin OpToRel(<, Nat)
  BY NatLessThanWellFounded, WFMin, Zenon
<1>2. \A n \in S : ~(n < m)
  BY <1>1 DEF OpToRel
<1>. QED  BY <1>2

\* The stack hands out a descriptor that is not in use.
LEMMA LowestIsFree ==
    ASSUME NEW used, ~Exhausted(used)
    PROVE  Lowest(used) \in Sockets \ used
<1>1. Sockets \ used \in SUBSET Nat /\ Sockets \ used # {}
  BY FtpAssumption DEF Exhausted
<1>2. \E s \in Sockets \ used : \A t \in Sockets \ used : s <= t
  BY <1>1, LeastExists
<1>. QED  BY <1>2 DEF Lowest

------------------------------------------------------------------------------
(* The handlers of one client, with the descriptors O of the other clients *)

States == [c : Clients, open : SUBSET Sockets]
Own(cl) == {cl.control, cl.data} \ {NoSocket}

Sound(cl) ==
    /\ cl.control = NoSocket => cl = FreeClient
    /\ cl.control # NoSocket => cl.control # cl.data
    /\ cl.conn # "idle" => cl.data # NoSocket
    /\ cl.mode # "idle" => cl.conn = "running"
    /\ cl.knock => cl.conn = "listen"
    /\ cl.auth # "valid" => cl.conn = "idle"

TakesTurns(cl) ==
    /\ cl.mode # "idle" \/ cl.conn = "connect" \/ cl.knock => cl.asked # "none"
    /\ cl.asked # "none" => cl.action = cl.asked /\ cl.handle \in Fitting(cl.asked)
    /\ cl.inbox = "command" => cl.asked = "none"

Apart(p, O) == O \subseteq p.open /\ Own(p.c) \subseteq p.open /\ Own(p.c) \cap O = {}

Keeps(p, q) ==
    /\ q.c.control = p.c.control /\ q.c.inbox = p.c.inbox
    /\ q.c.auth = p.c.auth /\ q.c.attempts = p.c.attempts

LEMMA CleanupFields ==
    ASSUME NEW p \in States
    PROVE  LET q == OnDataCleanup(p) IN
           /\ q \in States /\ Keeps(p, q)
           /\ q.open = p.open \ {p.c.data} /\ q.c.data = NoSocket
           /\ q.c.handle = "closed" /\ ~q.c.port /\ q.c.conn = "idle" /\ q.c.mode = "idle"
           /\ q.c.asked = "none" /\ ~q.c.knock /\ q.c.action = p.c.action
<1>. DEFINE e == [p.c EXCEPT !.data = NoSocket, !.knock = FALSE, !.handle = "closed",
                             !.port = FALSE, !.conn = "idle", !.mode = "idle", !.asked = "none"]
<1>1. p.c \in Clients /\ p.open \in SUBSET Sockets
  BY DEF States
<1>2. e \in Clients
  BY <1>1 DEF Clients
<1>4. /\ e.control = p.c.control /\ e.inbox = p.c.inbox /\ e.auth = p.c.auth
      /\ e.attempts = p.c.attempts /\ e.action = p.c.action
  BY <1>1 DEF Clients
<1>5. /\ e.data = NoSocket /\ ~e.knock /\ e.handle = "closed" /\ ~e.port /\ e.conn = "idle"
      /\ e.mode = "idle" /\ e.asked = "none"
  BY <1>1 DEF Clients
<1>3. OnDataCleanup(p) = [c |-> e, open |-> p.open \ {p.c.data}]
  BY DEF OnDataCleanup
<1>. HIDE DEF e
<1>. QED  BY <1>1, <1>2, <1>3, <1>4, <1>5 DEF States, Keeps

LEMMA FailedFields ==
    ASSUME NEW p \in States
    PROVE  LET q == OnDataFailed(p) IN
           /\ q \in States /\ Keeps(p, q)
           /\ q.open = p.open \ {p.c.data} /\ q.c.data = NoSocket
           /\ q.c.handle = "closed" /\ ~q.c.port /\ q.c.conn = "idle" /\ q.c.mode = "idle"
           /\ q.c.asked = "none" /\ ~q.c.knock /\ q.c.action = "none"
<1>. DEFINE r == [p EXCEPT !.c.action = "none"]
<1>1. /\ r \in States /\ Keeps(p, r) /\ r.open = p.open /\ r.c.data = p.c.data /\ r.c.action = "none"
  BY DEF States, Clients, Keeps
<1>2. OnDataFailed(p) = OnDataCleanup(r)
  BY DEF OnDataFailed
<1>. HIDE DEF r
<1>. QED  BY <1>1, <1>2, CleanupFields DEF Keeps

LEMMA ConnectedFields ==
    ASSUME NEW p \in States
    PROVE  LET q == OnDataConnected(p) IN
           /\ q \in States /\ Keeps(p, q)
           /\ q.open = p.open /\ q.c.data = p.c.data
           /\ q.c.handle = p.c.handle /\ q.c.conn = "running"
           /\ q.c.asked = p.c.asked /\ q.c.action = p.c.action /\ q.c.knock = p.c.knock
           /\ p.c.action = "none" => q.c.mode = "idle"
<1>. DEFINE mode == CASE p.c.action \in {"list", "retr"} -> "write"
                       [] p.c.action = "stor" -> "read"
                       [] p.c.action = "none" -> "idle"
            e == [p.c EXCEPT !.conn = "running", !.mode = mode]
<1>1. p.c \in Clients /\ p.open \in SUBSET Sockets /\ p.c.action \in {"none"} \cup Transfers
  BY DEF States, Clients
<1>2. mode \in {"idle", "read", "write"} /\ (p.c.action = "none" => mode = "idle")
  BY <1>1 DEF Transfers
<1>3. OnDataConnected(p) = [c |-> e, open |-> p.open]
  BY DEF OnDataConnected
<1>. HIDE DEF mode
<1>4. /\ e \in Clients
      /\ e.control = p.c.control /\ e.inbox = p.c.inbox /\ e.auth = p.c.auth
      /\ e.attempts = p.c.attempts /\ e.action = p.c.action
      /\ e.data = p.c.data /\ e.knock = p.c.knock /\ e.handle = p.c.handle /\ e.conn = "running"
      /\ e.mode = mode /\ e.asked = p.c.asked
  BY <1>1, <1>2 DEF Clients
<1>. HIDE DEF e
<1>. QED  BY <1>1, <1>2, <1>3, <1>4 DEF States, Keeps

Based(p, O) ==
    /\ p \in States /\ Apart(p, O)
    /\ p.c.control # NoSocket /\ p.c.control # p.c.data

DataFine(p, q, O) == q \in States /\ Apart(q, O) /\ Sound(q.c) /\ Keeps(p, q)

\* Ending a transfer closes the client's own data connection and nothing else.
LEMMA CleanupFine ==
    ASSUME NEW p, NEW O, Based(p, O)
    PROVE  /\ DataFine(p, OnDataCleanup(p), O) /\ TakesTurns(OnDataCleanup(p).c)
           /\ DataFine(p, OnDataFailed(p), O) /\ TakesTurns(OnDataFailed(p).c)
<1>. DEFINE q == OnDataCleanup(p)
            f == OnDataFailed(p)
<1>1. /\ p \in States /\ NoSocket \notin Sockets /\ p.open \subseteq Sockets
      /\ p.c.control \in Sockets
  BY FtpAssumption DEF Based, States, Clients
<1>2. /\ q \in States /\ Keeps(p, q)
      /\ q.open = p.open \ {p.c.data} /\ q.c.data = NoSocket
      /\ q.c.conn = "idle" /\ q.c.mode = "idle" /\ q.c.asked = "none" /\ ~q.c.knock
  BY <1>1, CleanupFields
<1>3. /\ f \in States /\ Keeps(p, f)
      /\ f.open = p.open \ {p.c.data} /\ f.c.data = NoSocket
      /\ f.c.conn = "idle" /\ f.c.mode = "idle" /\ f.c.asked = "none" /\ ~f.c.knock
  BY <1>1, FailedFields
<1>. HIDE DEF q, f
<1>4. ASSUME NEW r \in {q, f} PROVE Apart(r, O) /\ Sound(r.c) /\ TakesTurns(r.c)
  <2>1. /\ r.open = p.open \ {p.c.data} /\ r.c.data = NoSocket /\ r.c.control = p.c.control
        /\ r.c.conn = "idle" /\ r.c.mode = "idle" /\ r.c.asked = "none" /\ ~r.c.knock
    BY <1>2, <1>3 DEF Keeps
  <2>2. Apart(r, O)
    BY <1>1, <2>1 DEF Apart, Own, Based
  <2>. QED  BY <1>1, <2>1, <2>2 DEF Sound, TakesTurns, Based
<1>. QED  BY <1>2, <1>3, <1>4 DEF DataFine, q, f

\* A data connection that is made belongs to the client; what is transferred over
\* it is what the client has asked for.
LEMMA ConnectedFine ==
    ASSUME NEW p, NEW O, Based(p, O), p.c.data # NoSocket, p.c.auth = "valid", ~p.c.knock
    PROVE  /\ DataFine(p, OnDataConnected(p), O)
           /\ p.c.asked # "none" /\ TakesTurns(p.c) => TakesTurns(OnDataConnected(p).c)
<1>. DEFINE q == OnDataConnected(p)
<1>1. /\ q \in States /\ Keeps(p, q)
      /\ q.open = p.open /\ q.c.data = p.c.data
      /\ q.c.handle = p.c.handle /\ q.c.conn = "running"
      /\ q.c.asked = p.c.asked /\ q.c.action = p.c.action /\ q.c.knock = p.c.knock
  BY ConnectedFields DEF Based
<1>. HIDE DEF q
<1>2. Apart(q, O)
  BY <1>1 DEF Based, Apart, Own, Keeps
<1>3. Sound(q.c)
  BY <1>1 DEF Based, Sound, Keeps
<1>4. p.c.asked # "none" /\ TakesTurns(p.c) => TakesTurns(q.c)
  BY <1>1 DEF TakesTurns, Keeps
<1>. QED  BY <1>1, <1>2, <1>3, <1>4 DEF DataFine, q

LEMMA OnDataConnectFine ==
    ASSUME NEW p, NEW O, Based(p, O), p.c.auth = "valid", p.c.mode = "idle",
           NEW q \in OnDataConnect(p)
    PROVE  /\ DataFine(p, q, O)
           /\ p.c.asked # "none" /\ TakesTurns(p.c) => TakesTurns(q.c)
<1>. DEFINE freed == p.open \ {p.c.data}
            s == Lowest(freed)
            none == [c |-> [p.c EXCEPT !.data = NoSocket, !.knock = FALSE], open |-> freed]
            made(state) == [c |-> [p.c EXCEPT !.data = s, !.knock = FALSE, !.conn = state],
                            open |-> freed \cup {s}]
<1>1. /\ p \in States /\ p.c \in Clients /\ p.open \subseteq Sockets /\ NoSocket \notin Sockets
      /\ freed \subseteq Sockets /\ p.c.control \in Sockets \cap freed
      /\ O \subseteq freed /\ O \cap {p.c.control} = {} /\ p.c.conn \in {"idle", "listen", "connect", "running"}
  BY FtpAssumption DEF Based, States, Clients, Apart, Own
<1>. HIDE DEF freed
<1>2. CASE Exhausted(freed)
  <2>1. q = OnDataFailed(none)
    BY <1>2 DEF OnDataConnect, freed
  <2>2. none \in States /\ none.c.data = NoSocket /\ none.open = freed /\ Keeps(p, none)
    BY <1>1 DEF States, Clients, Keeps
  <2>. HIDE DEF none
  <2>3. Based(none, O)
    BY <1>1, <2>2 DEF Based, Apart, Own, Keeps
  <2>. QED  BY <2>1, <2>2, <2>3, CleanupFine DEF DataFine, Keeps
<1>3. CASE ~Exhausted(freed)
  <2>1. s \in Sockets /\ s \notin freed
    BY <1>3, LowestIsFree
  <2>. HIDE DEF s
  <2>2. ASSUME NEW state \in {"idle", "listen", "connect", "running"}
        PROVE  /\ Based(made(state), O) /\ made(state).c.data = s /\ made(state).c.conn = state
               /\ Keeps(p, made(state)) /\ ~made(state).c.knock
               /\ made(state).c.mode = p.c.mode /\ made(state).c.asked = p.c.asked
               /\ made(state).c.action = p.c.action /\ made(state).c.handle = p.c.handle
    <3>1. /\ made(state) \in States /\ made(state).open = freed \cup {s}
      BY <1>1, <2>1 DEF States, Clients
    <3>2. /\ made(state).c.data = s /\ made(state).c.conn = state
          /\ Keeps(p, made(state)) /\ ~made(state).c.knock
      BY <1>1 DEF Clients, Keeps
    <3>3. /\ made(state).c.mode = p.c.mode /\ made(state).c.asked = p.c.asked
          /\ made(state).c.action = p.c.action /\ made(state).c.handle = p.c.handle
      BY <1>1 DEF Clients
    <3>. HIDE DEF made
    <3>. QED  BY <1>1, <2>1, <3>1, <3>2, <3>3 DEF Based, Apart, Own, Keeps
  <2>3. q \in {OnDataFailed(made(p.c.conn)), made("connect"), OnDataConnected(made("running"))}
    BY <1>3 DEF OnDataConnect, freed, s
  <2>. HIDE DEF made
  <2>4. CASE q = OnDataFailed(made(p.c.conn))
    BY <1>1, <2>2, <2>4, CleanupFine DEF DataFine, Keeps
  <2>5. CASE q = made("connect")
    <3>1. q.c.conn = "connect" /\ Based(q, O) /\ Keeps(p, q) /\ ~q.c.knock
      BY <2>2, <2>5
    <3>2. /\ q.c.mode = "idle" /\ q.c.asked = p.c.asked /\ q.c.data # NoSocket
          /\ q.c.action = p.c.action /\ q.c.handle = p.c.handle
      BY <1>1, <2>1, <2>2, <2>5
    <3>. QED  BY <3>1, <3>2 DEF DataFine, Based, Sound, Keeps, TakesTurns
  <2>6. CASE q = OnDataConnected(made("running"))
    BY <1>1, <2>1, <2>2, <2>6, ConnectedFine DEF DataFine, Keeps, TakesTurns
  <2>. QED  BY <2>3, <2>4, <2>5, <2>6
<1>. QED  BY <1>2, <1>3

\* A command that needs a data connection uses the one there is, makes one, waits
\* for the client's, or fails.
LEMMA HandleDataConnectFine ==
    ASSUME NEW p, NEW O, Based(p, O), Sound(p.c), p.c.auth = "valid",
           NEW q \in HandleDataConnect(p)
    PROVE  /\ DataFine(p, q, O)
           /\ p.c.asked # "none" /\ TakesTurns(p.c) => TakesTurns(q.c)
<1>1. CASE p.c.conn = "running"
  BY <1>1, ConnectedFine DEF HandleDataConnect, Sound
<1>2. CASE p.c.conn # "running" /\ p.c.port
  BY <1>2, OnDataConnectFine DEF HandleDataConnect, Sound
<1>3. CASE p.c.conn # "running" /\ ~p.c.port
  <2>1. q \in {p, OnDataFailed(p)}
    BY <1>3 DEF HandleDataConnect
  <2>2. DataFine(p, p, O)
    BY DEF DataFine, Based, Keeps
  <2>. QED  BY <2>1, <2>2, CleanupFine
<1>. QED  BY <1>1, <1>2, <1>3

LEMMA OnDataWriteFine ==
    ASSUME NEW p, NEW O, Based(p, O), Sound(p.c), NEW q \in OnDataWrite(p) \cup OnDataRead(p)
    PROVE  DataFine(p, q, O) /\ (TakesTurns(p.c) => TakesTurns(q.c))
<1>1. p.c.action \in {"none"} \cup Transfers
  BY DEF Based, States, Clients
<1>2. q \in {p, OnDataComplete(p), OnDataFailed(p)}
  BY <1>1 DEF OnDataWrite, OnDataRead, Transfers
<1>3. DataFine(p, p, O)
  BY DEF DataFine, Based, Keeps
<1>. QED  BY <1>2, <1>3, CleanupFine DEF OnDataComplete

------------------------------------------------------------------------------
(* The commands *)

\* What a command may do to its client: destroy it, or keep it.
Obeys(p, q) ==
    \/ q.c = FreeClient
    \/ /\ q.c.control = p.c.control
       /\ p.c.auth = "valid" => q.c.auth = "valid"
       /\ p.c.auth # "valid" => q.c.mode = "idle"
Served(p, q, O) ==
    /\ q \in States /\ Apart(q, O) /\ Sound(q.c) /\ Obeys(p, q)
    /\ p.c.asked = "none" /\ TakesTurns(p.c) => TakesTurns(q.c)

LEMMA FreeClientSound == FreeClient \in Clients /\ Sound(FreeClient) /\ TakesTurns(FreeClient)
BY FtpAssumption DEF FreeClient, Clients, Sound, TakesTurns

LEMMA DestroyedServed ==
    ASSUME NEW p, NEW O, Based(p, O)
    PROVE  Served(p, Destroyed(p), O)
<1>1. /\ p \in States /\ p.c \in Clients /\ p.open \subseteq Sockets /\ NoSocket \notin Sockets
      /\ p.c.control \in Sockets
  BY FtpAssumption DEF Based, States, Clients
<1>2. OnDataCleanup(p).open = p.open \ {p.c.data}
  BY <1>1, CleanupFields
<1>3. Destroyed(p) = [c |-> FreeClient, open |-> (p.open \ {p.c.data}) \ {p.c.control}]
  BY <1>2 DEF Destroyed
<1>4. Destroyed(p) \in States
  BY <1>1, <1>3, FreeClientSound DEF States
<1>5. Own(FreeClient) = {}
  BY DEF Own, FreeClient
<1>6. Apart(Destroyed(p), O)
  BY <1>1, <1>3, <1>5 DEF Based, Apart, Own
<1>. QED  BY <1>3, <1>4, <1>6, FreeClientSound DEF Served, Obeys

\* Nothing happens to the client's connections and to its transfer.
Untouched(p, q) ==
    /\ q \in States /\ q.open = p.open
    /\ q.c.control = p.c.control /\ q.c.data = p.c.data /\ q.c.mode = p.c.mode
    /\ q.c.conn = p.c.conn /\ q.c.knock = p.c.knock /\ q.c.asked = p.c.asked
    /\ q.c.inbox = p.c.inbox
    /\ p.c.auth = "valid" => q.c.auth = "valid"

LEMMA UntouchedServed ==
    ASSUME NEW p, NEW q, NEW O, Based(p, O), Sound(p.c), Untouched(p, q)
    PROVE  Served(p, q, O)
BY DEF Untouched, Based, Served, Obeys, Sound, Apart, Own, TakesTurns

\* One field other than these changes.
LEMMA FieldUntouched ==
    ASSUME NEW p \in States, NEW q,
           \/ q = p
           \/ \E h \in {"closed", "dir", "stale"} : q = [p EXCEPT !.c.handle = h]
           \/ q = [p EXCEPT !.c.port = TRUE]
           \/ p.c.auth # "valid" /\ \E a \in {"password", "fakepass", "valid"} : q = [p EXCEPT !.c.auth = a]
    PROVE  Untouched(p, q)
<1>1. p.c \in Clients /\ p.open \in SUBSET Sockets
  BY DEF States
<1>2. CASE \E h \in {"closed", "dir", "stale"} : q = [p EXCEPT !.c.handle = h]
  BY <1>1, <1>2 DEF Untouched, States, Clients
<1>3. CASE q = [p EXCEPT !.c.port = TRUE]
  BY <1>1, <1>3 DEF Untouched, States, Clients
<1>4. CASE p.c.auth # "valid" /\ \E a \in {"password", "fakepass", "valid"} : q = [p EXCEPT !.c.auth = a]
  BY <1>1, <1>4 DEF Untouched, States, Clients
<1>. QED  BY <1>2, <1>3, <1>4 DEF Untouched

\* A handler that only uses the data connection.
LEMMA DataServed ==
    ASSUME NEW p, NEW q, NEW O, Based(p, O), p.c.auth = "valid", DataFine(p, q, O),
           p.c.asked = "none" /\ TakesTurns(p.c) => TakesTurns(q.c)
    PROVE  Served(p, q, O)
BY DEF Served, DataFine, Keeps, Obeys

LEMMA BeforeLoginServed ==
    ASSUME NEW p, NEW O, Based(p, O), Sound(p.c), p.c.auth # "valid", NEW cmd \in AllCommands,
           NEW q \in OnCommandBeforeLogin(p, cmd)
    PROVE  Served(p, q, O)
<1>0. p \in States /\ p.c \in Clients
  BY DEF Based, States
<1>3. CASE cmd = "user"
  <2>1. \E a \in {"password", "fakepass", "valid"} : q = [p EXCEPT !.c.auth = a]
    BY <1>3 DEF OnCommandBeforeLogin, OnCmdUser
  <2>. QED  BY <1>0, <2>1, FieldUntouched, UntouchedServed
<1>4. CASE cmd = "pass"
  <2>1. \/ q = p \/ q = Destroyed(p) \/ q = [p EXCEPT !.c.auth = "valid"]
        \/ p.c.attempts # MaxAttempts /\ q = [p EXCEPT !.c.attempts = @ + 1, !.c.auth = "invalid"]
    BY <1>4 DEF OnCommandBeforeLogin, OnCmdPass, WrongPassword
  <2>2. CASE p.c.attempts # MaxAttempts /\ q = [p EXCEPT !.c.attempts = @ + 1, !.c.auth = "invalid"]
    <3>1. p.c.attempts + 1 \in 0 .. MaxAttempts
      BY <1>0, <2>2, FtpAssumption DEF Clients
    <3>2. q = [c |-> [p.c EXCEPT !.attempts = @ + 1, !.auth = "invalid"], open |-> p.open]
      BY <1>0, <2>2 DEF States
    <3>3. [p.c EXCEPT !.attempts = @ + 1, !.auth = "invalid"] \in Clients
      BY <1>0, <3>1 DEF Clients
    <3>4. /\ q.c.control = p.c.control /\ q.c.data = p.c.data /\ q.c.mode = p.c.mode
          /\ q.c.conn = p.c.conn /\ q.c.knock = p.c.knock /\ q.c.asked = p.c.asked
          /\ q.c.inbox = p.c.inbox
      BY <1>0, <3>2 DEF Clients
    <3>5. q \in States /\ q.open = p.open
      BY <1>0, <3>2, <3>3 DEF States
    <3>. QED  BY <3>4, <3>5, UntouchedServed DEF Untouched
  <2>. QED  BY <1>0, <2>1, <2>2, FieldUntouched, UntouchedServed, DestroyedServed
<1>5. CASE cmd \notin {"user", "pass"}
  BY <1>0, <1>5, FieldUntouched, UntouchedServed, DestroyedServed DEF OnCommandBeforeLogin
<1>. QED  BY <1>3, <1>4, <1>5

\* PASV: the new listening socket is the client's, or is known to no one.
LEMMA PasvServed ==
    ASSUME NEW p, NEW O, Based(p, O), p.c.auth = "valid", NEW q \in OnCmdPasv(p)
    PROVE  Served(p, q, O)
<1>. DEFINE r == OnDataCleanup(p)
            s == Lowest(r.open)
            lost == [r EXCEPT !.open = @ \cup {s}]
            passive == [lost EXCEPT !.c.data = s, !.c.conn = "listen"]
<1>1. /\ Served(p, r, O) /\ DataFine(p, r, O) /\ TakesTurns(r.c)
      /\ r \in States /\ r.c.mode = "idle" /\ r.c.asked = "none" /\ ~r.c.knock
  BY CleanupFine, CleanupFields, DataServed DEF Based
<1>2. /\ r.c \in Clients /\ r.c.control = p.c.control /\ r.c.control \in r.open
      /\ r.c.auth = "valid" /\ r.open \subseteq Sockets /\ NoSocket \notin Sockets
      /\ r.c.control # NoSocket /\ O \subseteq r.open /\ r.c.control \notin O
  BY <1>1, FtpAssumption DEF DataFine, Keeps, Apart, Own, Based, States, Clients
<1>3. q = r \/ (~Exhausted(r.open) /\ q \in {lost, passive})
  BY DEF OnCmdPasv
<1>. HIDE DEF r
<1>4. ASSUME ~Exhausted(r.open) PROVE s \in Sockets /\ s \notin r.open
  BY <1>4, LowestIsFree
<1>. HIDE DEF s
<1>5. CASE ~Exhausted(r.open) /\ q = lost
  <2>1. q \in States /\ q.c = r.c /\ q.open = r.open \cup {s}
    BY <1>1, <1>2, <1>4, <1>5 DEF States
  <2>2. Apart(q, O)
    BY <1>1, <2>1 DEF DataFine, Apart, Own
  <2>. QED  BY <1>1, <2>1, <2>2 DEF Served, DataFine, Obeys, Keeps
<1>6. CASE ~Exhausted(r.open) /\ q = passive
  <2>1. q = [c |-> [r.c EXCEPT !.data = s, !.conn = "listen"], open |-> r.open \cup {s}]
    BY <1>1, <1>6 DEF States
  <2>2. [r.c EXCEPT !.data = s, !.conn = "listen"] \in Clients
    BY <1>2, <1>4, <1>6 DEF Clients
  <2>3. q \in States /\ q.open = r.open \cup {s}
    BY <1>1, <1>2, <1>4, <1>6, <2>1, <2>2 DEF States
  <2>4. /\ q.c.control = r.c.control /\ q.c.auth = r.c.auth /\ q.c.mode = r.c.mode
        /\ q.c.asked = r.c.asked /\ q.c.knock = r.c.knock /\ q.c.inbox = r.c.inbox
        /\ q.c.data = s /\ q.c.conn = "listen"
    BY <1>2, <2>1 DEF Clients
  <2>5. Apart(q, O)
    BY <1>2, <1>4, <1>6, <2>3, <2>4 DEF Apart, Own
  <2>6. Sound(q.c)
    BY <1>1, <1>2, <1>4, <1>6, <2>4 DEF Sound
  <2>. QED  BY <1>1, <1>2, <2>3, <2>4, <2>5, <2>6 DEF Served, Obeys, TakesTurns
<1>. QED  BY <1>1, <1>3, <1>5, <1>6

\* A command that asks for a transfer.
LEMMA TransferServed ==
    ASSUME NEW p, NEW O, Based(p, O), Sound(p.c), p.c.auth = "valid",
           NEW act \in Transfers, NEW h \in Fitting(act),
           NEW q \in HandleDataConnect(Started(p, act, h))
    PROVE  p.c.inbox # "command" => Served(p, q, O)
<1>0. p \in States /\ p.c \in Clients
  BY DEF Based, States
<1>. DEFINE r == Started(p, act, h)
<1>1. r \in States /\ r.open = p.open
  <2>1. h \in {"dir", "read", "write"}
    BY DEF Fitting, Transfers
  <2>2. [p.c EXCEPT !.action = act, !.handle = h, !.asked = act] \in Clients
    BY <1>0, <2>1 DEF Clients
  <2>. QED  BY <1>0, <2>2 DEF States, Started
<1>2. /\ r.c.control = p.c.control /\ r.c.data = p.c.data /\ r.c.mode = p.c.mode /\ r.c.auth = p.c.auth
      /\ r.c.conn = p.c.conn /\ r.c.knock = p.c.knock
      /\ r.c.inbox = p.c.inbox
  BY <1>0 DEF Clients, Started
<1>3. r.c.asked = act /\ r.c.action = act /\ r.c.handle = h /\ act # "none"
  BY <1>0 DEF Clients, Transfers, Started
<1>. HIDE DEF r
<1>4. Based(r, O) /\ Sound(r.c)
  BY <1>1, <1>2 DEF Based, Sound, Apart, Own
<1>5. p.c.inbox # "command" => TakesTurns(r.c)
  BY <1>2, <1>3 DEF TakesTurns
<1>6. DataFine(r, q, O) /\ (p.c.inbox # "command" => TakesTurns(q.c))
  BY <1>2, <1>3, <1>4, <1>5, HandleDataConnectFine DEF r
<1>. QED  BY <1>2, <1>6 DEF Served, DataFine, Obeys, Keeps, r

LEMMA AfterLoginServed ==
    ASSUME NEW p, NEW O, Based(p, O), Sound(p.c), p.c.auth = "valid", p.c.inbox = "none",
           NEW cmd \in AllCommands, NEW q \in OnCommandAfterLogin(p, cmd)
    PROVE  Served(p, q, O)
<1>0. p \in States /\ p.c \in Clients
  BY DEF Based, States
<1>1. CASE cmd = "quit"
  BY <1>1, DestroyedServed DEF OnCommandAfterLogin
<1>2. CASE cmd = "pasv"
  BY <1>2, PasvServed DEF OnCommandAfterLogin
<1>3. CASE cmd \in {"user", "pass", "noop", "port", "file"}
  <2>1. \/ q = p \/ q = [p EXCEPT !.c.port = TRUE]
        \/ \E h \in {"closed", "dir", "stale"} : q = [p EXCEPT !.c.handle = h]
    BY <1>3 DEF OnCommandAfterLogin, OnCmdPort, OnCmdOther
  <2>. QED  BY <1>0, <2>1, FieldUntouched, UntouchedServed
<1>4. CASE cmd = "list"
  <2>1. \/ \E h \in {"closed", "dir"} : q = [c |-> [p.c EXCEPT !.action = "list", !.handle = h], open |-> p.open]
        \/ q \in HandleDataConnect(Started(p, "list", "dir"))
    BY <1>4 DEF OnCommandAfterLogin, OnCmdList
  <2>2. ASSUME NEW h \in {"closed", "dir"}
        PROVE  Untouched(p, [c |-> [p.c EXCEPT !.action = "list", !.handle = h], open |-> p.open])
    <3>. DEFINE e == [p.c EXCEPT !.action = "list", !.handle = h]
    <3>1. e \in Clients
      BY <1>0 DEF Clients, Transfers
    <3>2. /\ e.control = p.c.control /\ e.data = p.c.data /\ e.mode = p.c.mode
          /\ e.conn = p.c.conn /\ e.knock = p.c.knock /\ e.asked = p.c.asked
          /\ e.inbox = p.c.inbox /\ e.auth = p.c.auth
      BY <1>0 DEF Clients
    <3>. HIDE DEF e
    <3>3. Untouched(p, [c |-> e, open |-> p.open])
      BY <1>0, <3>1, <3>2 DEF Untouched, States
    <3>. QED  BY <3>3 DEF e
  <2>3. "list" \in Transfers /\ "dir" \in Fitting("list")
    BY DEF Transfers, Fitting
  <2>. QED  BY <2>1, <2>2, <2>3, UntouchedServed, TransferServed
<1>5. CASE cmd \in {"retr", "stor"}
  <2>. DEFINE h == IF cmd = "retr" THEN "read" ELSE "write"
  <2>1. \/ \E g \in {"closed", "dir"} : q = [p EXCEPT !.c.handle = g]
        \/ q \in HandleDataConnect(Started(p, cmd, h))
    BY <1>5 DEF OnCommandAfterLogin, OnCmdFile
  <2>2. cmd \in Transfers /\ h \in Fitting(cmd)
    BY <1>5 DEF Transfers, Fitting
  <2>. QED  BY <1>0, <2>1, <2>2, FieldUntouched, UntouchedServed, TransferServed
<1>. QED  BY <1>1, <1>2, <1>3, <1>4, <1>5 DEF AllCommands, Transfers

LEMMA CommandServed ==
    ASSUME NEW p, NEW O, Based(p, O), Sound(p.c), p.c.inbox = "none",
           NEW cmd \in AllCommands, NEW q \in OnCommand(p, cmd)
    PROVE  Served(p, q, O)
BY BeforeLoginServed, AfterLoginServed DEF OnCommand

------------------------------------------------------------------------------
(* The events of a data connection *)

\* The listening socket makes way for the connection accepted on it.
LEMMA AcceptDataFine ==
    ASSUME NEW p, NEW O, Based(p, O), Sound(p.c), p.c.conn = "listen", p.c.knock
    PROVE  /\ DataFine(p, AcceptData(p), O) /\ AcceptData(p).c.data # NoSocket
           /\ TakesTurns(p.c) => TakesTurns(AcceptData(p).c)
<1>. DEFINE s == Lowest(p.open)
            e == [p.c EXCEPT !.data = s, !.knock = FALSE]
            r == [c |-> e, open |-> (p.open \ {p.c.data}) \cup {s}]
<1>1. /\ p \in States /\ p.c \in Clients /\ p.open \subseteq Sockets /\ NoSocket \notin Sockets
      /\ p.c.control \in Sockets /\ p.c.data \in Sockets /\ p.c.control \in p.open /\ p.c.data \in p.open
      /\ p.c.auth = "valid" /\ p.c.mode = "idle"
  BY FtpAssumption DEF Based, States, Clients, Apart, Own, Sound
<1>2. CASE Exhausted(p.open)
  <2>1. AcceptData(p) = [p EXCEPT !.c.knock = FALSE]
    BY <1>2 DEF AcceptData
  <2>2. /\ AcceptData(p) \in States /\ AcceptData(p).open = p.open
        /\ AcceptData(p).c = [p.c EXCEPT !.knock = FALSE]
    <3>. DEFINE f == [p.c EXCEPT !.knock = FALSE]
    <3>1. f \in Clients
      BY <1>1 DEF Clients
    <3>2. AcceptData(p) = [c |-> f, open |-> p.open]
      BY <1>1, <2>1 DEF States
    <3>. HIDE DEF f
    <3>3. AcceptData(p) \in States /\ AcceptData(p).open = p.open /\ AcceptData(p).c = f
      BY <1>1, <3>1, <3>2 DEF States
    <3>. QED  BY <3>3 DEF f
  <2>. DEFINE c == AcceptData(p).c
  <2>3. /\ c.control = p.c.control /\ c.data = p.c.data /\ c.mode = p.c.mode /\ c.auth = p.c.auth
        /\ c.conn = p.c.conn /\ ~c.knock /\ c.asked = p.c.asked /\ c.action = p.c.action
        /\ c.handle = p.c.handle /\ c.inbox = p.c.inbox /\ c.attempts = p.c.attempts
    BY <1>1, <2>2 DEF Clients
  <2>. HIDE DEF c
  <2>4. Sound(c) /\ Keeps(p, AcceptData(p)) /\ Own(c) = Own(p.c)
    BY <1>1, <2>3 DEF Sound, Keeps, Based, Own, c
  <2>5. TakesTurns(p.c) => TakesTurns(c)
    BY <2>3 DEF TakesTurns
  <2>. QED  BY <1>1, <2>2, <2>3, <2>4, <2>5 DEF DataFine, Based, Apart, c
<1>3. CASE ~Exhausted(p.open)
  <2>1. s \in Sockets /\ s \notin p.open
    BY <1>3, LowestIsFree
  <2>2. AcceptData(p) = OnDataConnected(r)
    BY <1>3 DEF AcceptData
  <2>. HIDE DEF s
  <2>3. e \in Clients
    BY <1>1, <2>1 DEF Clients
  <2>4. /\ e.control = p.c.control /\ e.data = s /\ e.auth = p.c.auth /\ ~e.knock
        /\ e.asked = p.c.asked /\ e.action = p.c.action /\ e.handle = p.c.handle
        /\ e.inbox = p.c.inbox /\ e.attempts = p.c.attempts /\ e.mode = p.c.mode /\ e.conn = p.c.conn
    BY <1>1 DEF Clients
  <2>. HIDE DEF e
  <2>5. r \in States
    BY <1>1, <2>1, <2>3 DEF States
  <2>6. Based(r, O)
    BY <1>1, <2>1, <2>4, <2>5 DEF Based, Apart, Own
  <2>7. p.c.asked # "none" /\ TakesTurns(p.c) => TakesTurns(r.c)
    BY <2>4 DEF TakesTurns
  <2>8. DataFine(r, AcceptData(p), O) /\ AcceptData(p).c.data = s
    BY <1>1, <2>1, <2>2, <2>4, <2>6, ConnectedFine, ConnectedFields DEF Based
  <2>9. TakesTurns(p.c) => TakesTurns(AcceptData(p).c)
    <3>1. TakesTurns(p.c) => p.c.asked # "none"
      BY DEF TakesTurns
    <3>. QED  BY <1>1, <2>1, <2>2, <2>4, <2>6, <2>7, <3>1, ConnectedFine
  <2>. QED  BY <1>1, <2>1, <2>4, <2>8, <2>9 DEF DataFine, Keeps
<1>. QED  BY <1>2, <1>3

\* An event of the data connection never touches another client's descriptors,
\* and ends with success only a transfer that was on.
LEMMA DataEventFine ==
    ASSUME NEW p, NEW O, Based(p, O), Sound(p.c), NEW r, NEW w,
           Event(p.c, r, w) # "none", Event(p.c, r, w) = "accept" => p.c.knock,
           NEW q \in OnDataEvent(p, Event(p.c, r, w))
    PROVE  /\ DataFine(p, q, O) /\ p.c.auth = "valid"
           /\ TakesTurns(p.c) => TakesTurns(q.c)
           /\ p.c.data # NoSocket /\ q.c.data = NoSocket /\ q.c.action # "none" => p.c.mode # "idle"
<1>0. p \in States /\ p.c \in Clients /\ p.c.conn \in {"idle", "listen", "connect", "running"}
  BY DEF Based, States, Clients
<1>1. /\ Event(p.c, r, w) \in {"connected", "write", "accept", "read"} /\ p.c.data # NoSocket
      /\ Event(p.c, r, w) = "connected" => p.c.conn = "connect"
      /\ Event(p.c, r, w) = "write" => p.c.mode = "write"
      /\ Event(p.c, r, w) = "accept" => p.c.conn = "listen"
      /\ Event(p.c, r, w) = "read" => p.c.mode = "read"
  BY DEF Event, Writing, Reading
<1>2. p.c.auth = "valid"
  BY <1>1 DEF Sound
<1>3. CASE Event(p.c, r, w) = "connected"
  <2>1. p.c.conn = "connect" /\ ~p.c.knock
    BY <1>1, <1>3 DEF Sound
  <2>2. q = OnDataConnected(p) \/ q = OnDataFailed(p)
    BY <1>3 DEF OnDataEvent
  <2>3. TakesTurns(p.c) => p.c.asked # "none"
    BY <2>1 DEF TakesTurns
  <2>4. q.c.data # NoSocket \/ q.c.action = "none"
    BY <1>0, <1>1, <2>2, ConnectedFields, FailedFields
  <2>. QED  BY <1>1, <1>2, <2>1, <2>2, <2>3, <2>4, ConnectedFine, CleanupFine
<1>4. CASE Event(p.c, r, w) \in {"write", "read"}
  <2>1. q \in OnDataWrite(p) \cup OnDataRead(p)
    BY <1>4 DEF OnDataEvent
  <2>. QED  BY <1>1, <1>2, <1>4, <2>1, OnDataWriteFine
<1>5. CASE Event(p.c, r, w) = "accept"
  BY <1>1, <1>2, <1>5, AcceptDataFine DEF OnDataEvent
<1>. QED  BY <1>1, <1>3, <1>4, <1>5

------------------------------------------------------------------------------
(* Lists *)

LEMMA RestIff ==
    ASSUME NEW S, NEW s \in Seq(S), NEW t \in Seq(S)
    PROVE  RestOf(s, t) <=> \E k \in 0 .. Len(t) : /\ Len(s) = Len(t) - k
                                                  /\ \A i \in 1 .. Len(s) : s[i] = t[k + i]
<1>0. Len(t) \in Nat /\ \A i \in 1 .. Len(t) : t[i] \in S
  BY LenProperties
<1>1. ASSUME NEW k \in 0 .. Len(t)
      PROVE  LET u == SubSeq(t, k + 1, Len(t)) IN
             /\ u \in Seq(S) /\ Len(u) = Len(t) - k /\ \A i \in 1 .. Len(u) : u[i] = t[k + i]
  <2>. DEFINE u == SubSeq(t, k + 1, Len(t))
  <2>1. \A i \in k + 1 .. Len(t) : t[i] \in S
    BY <1>0
  <2>2. /\ u \in Seq(S)
        /\ Len(u) = IF k + 1 <= Len(t) THEN Len(t) - (k + 1) + 1 ELSE 0
        /\ \A i \in 1 .. Len(t) - (k + 1) + 1 : u[i] = t[(k + 1) + i - 1]
    BY <1>0, <2>1, SubSeqProperties
  <2>. HIDE DEF u
  <2>3. Len(u) = Len(t) - k /\ \A i \in 1 .. Len(u) : u[i] = t[k + i]
    BY <1>0, <2>2
  <2>. QED  BY <2>2, <2>3 DEF u
<1>2. ASSUME RestOf(s, t)
      PROVE  \E k \in 0 .. Len(t) : Len(s) = Len(t) - k /\ \A i \in 1 .. Len(s) : s[i] = t[k + i]
  BY <1>1, <1>2 DEF RestOf
<1>3. ASSUME NEW k \in 0 .. Len(t), Len(s) = Len(t) - k, \A i \in 1 .. Len(s) : s[i] = t[k + i]
      PROVE  RestOf(s, t)
  <2>. DEFINE u == SubSeq(t, k + 1, Len(t))
  <2>1. u \in Seq(S) /\ Len(u) = Len(t) - k /\ \A i \in 1 .. Len(u) : u[i] = t[k + i]
    BY <1>1
  <2>. HIDE DEF u
  <2>2. s = u
    BY <1>3, <2>1, SeqEqual
  <2>. QED  BY <2>2 DEF RestOf, u
<1>. QED  BY <1>2, <1>3

LEMMA RestOfRest ==
    ASSUME NEW S, NEW s \in Seq(S), NEW t \in Seq(S), NEW u \in Seq(S), RestOf(s, t), RestOf(t, u)
    PROVE  RestOf(s, u)
<1>0. Len(s) \in Nat /\ Len(t) \in Nat /\ Len(u) \in Nat
  BY LenProperties
<1>1. PICK j \in 0 .. Len(t) : Len(s) = Len(t) - j /\ \A i \in 1 .. Len(s) : s[i] = t[j + i]
  BY RestIff
<1>2. PICK k \in 0 .. Len(u) : Len(t) = Len(u) - k /\ \A i \in 1 .. Len(t) : t[i] = u[k + i]
  BY RestIff
<1>3. k + j \in 0 .. Len(u) /\ Len(s) = Len(u) - (k + j) /\ \A i \in 1 .. Len(s) : s[i] = u[(k + j) + i]
  <2>1. k + j \in 0 .. Len(u) /\ Len(s) = Len(u) - (k + j)
    BY <1>0, <1>1, <1>2
  <2>2. ASSUME NEW i \in 1 .. Len(s) PROVE s[i] = u[(k + j) + i]
    <3>1. j + i \in 1 .. Len(t) /\ k + (j + i) = (k + j) + i
      BY <1>0, <1>1
    <3>2. s[i] = t[j + i] /\ t[j + i] = u[k + (j + i)]
      BY <1>1, <1>2, <3>1
    <3>. QED  BY <3>1, <3>2
  <2>. QED  BY <2>1, <2>2
<1>. QED  BY <1>3, RestIff

\* The client served last is taken off the list, and the rest of the list stays
\* the rest.
LEMMA ListWithout ==
    ASSUME NEW S, NEW t \in Seq(S), NEW s \in Seq(S), s # <<>>, RestOf(s, t), IsInjective(t)
    PROVE  /\ Tail(s) \in Seq(S) /\ RestOf(Tail(s), t)
           /\ \A i \in 2 .. Len(s) : s[i] # Head(s)
           /\ Head(s) \in ToSet(t)
           /\ \A at \in DOMAIN t : t[at] = Head(s) =>
                 LET u == RemoveAt(t, at)
                 IN  /\ u \in Seq(S) /\ IsInjective(u) /\ ToSet(u) = ToSet(t) \ {Head(s)}
                     /\ RestOf(Tail(s), u)
<1>0. Len(s) \in Nat /\ Len(t) \in Nat /\ DOMAIN t = 1 .. Len(t) /\ Len(s) > 0
  BY LenProperties, EmptySeq
<1>1. PICK k \in 0 .. Len(t) : Len(s) = Len(t) - k /\ \A i \in 1 .. Len(s) : s[i] = t[k + i]
  BY RestIff
<1>2. /\ Tail(s) \in Seq(S) /\ Len(Tail(s)) = Len(s) - 1
      /\ \A i \in 1 .. Len(Tail(s)) : Tail(s)[i] = s[i + 1]
  BY HeadTailProperties
<1>3. Head(s) = s[1] /\ s[1] = t[k + 1] /\ k + 1 \in 1 .. Len(t)
  <2>1. Head(s) = s[1]
    BY HeadTailProperties
  <2>2. k + 1 \in 1 .. Len(t) /\ 1 \in 1 .. Len(s)
    BY <1>0, <1>1
  <2>. QED  BY <1>1, <2>1, <2>2
<1>. DEFINE n == Len(t)
            m == Len(s)
            l == Len(Tail(s))
<1>12. /\ n \in Nat /\ k \in Nat /\ k + 1 \in 0 .. n /\ m = n - k
       /\ l = n - (k + 1) /\ l = (n - 1) - k
  <2>1. n \in Nat /\ m = n - k /\ l = m - 1 /\ k + 1 \in 1 .. n /\ k \in 0 .. n
    BY <1>0, <1>1, <1>2, <1>3
  <2>. HIDE DEF n, m, l
  <2>. QED  BY <2>1
<1>. HIDE DEF n, m, l
<1>4. RestOf(Tail(s), t)
  <2>1. k + 1 \in 0 .. Len(t) /\ Len(Tail(s)) = Len(t) - (k + 1)
    BY <1>12 DEF n, l
  <2>2. ASSUME NEW i \in 1 .. Len(Tail(s)) PROVE Tail(s)[i] = t[(k + 1) + i]
    <3>1. i + 1 \in 1 .. Len(s) /\ k + (i + 1) = (k + 1) + i
      BY <1>0, <1>2
    <3>. QED  BY <1>1, <1>2, <3>1
  <2>. QED  BY <1>2, <2>1, <2>2, RestIff
<1>5. \A i \in 2 .. Len(s) : s[i] # Head(s)
  <2>1. SUFFICES ASSUME NEW i \in 2 .. Len(s) PROVE s[i] # s[1]
    BY <1>3
  <2>2. k + i \in 1 .. Len(t) /\ k + i # k + 1 /\ i \in 1 .. Len(s)
    BY <1>0, <1>1
  <2>. QED  BY <1>0, <1>1, <1>3, <2>2 DEF IsInjective
<1>6. Head(s) \in ToSet(t)
  BY <1>0, <1>3 DEF ToSet
<1>7. \A at \in DOMAIN t : t[at] = Head(s) => at = k + 1
  BY <1>0, <1>3 DEF IsInjective
<1>. DEFINE u == RemoveAt(t, k + 1)
<1>8. /\ u \in Seq(S) /\ Len(u) = Len(t) - 1
      /\ \A i \in 1 .. Len(u) : u[i] = IF i <= k THEN t[i] ELSE t[i + 1]
  <2>. DEFINE a == SubSeq(t, 1, k)
              b == SubSeq(t, k + 2, Len(t))
  <2>0. \A i \in 1 .. Len(t) : t[i] \in S
    BY LenProperties
  <2>1. a \in Seq(S) /\ Len(a) = k /\ \A i \in 1 .. k : a[i] = t[i]
    <3>1. \A i \in 1 .. k : t[i] \in S
      BY <1>0, <2>0
    <3>2. /\ a \in Seq(S) /\ Len(a) = IF 1 <= k THEN k - 1 + 1 ELSE 0
          /\ \A i \in 1 .. k - 1 + 1 : a[i] = t[1 + i - 1]
      BY <1>0, <3>1, SubSeqProperties
    <3>. HIDE DEF a
    <3>. QED  BY <1>0, <3>2
  <2>2. /\ b \in Seq(S) /\ Len(b) = Len(t) - k - 1
        /\ \A i \in 1 .. Len(b) : b[i] = t[k + 1 + i]
    <3>1. \A i \in k + 2 .. Len(t) : t[i] \in S
      BY <1>0, <2>0
    <3>2. /\ b \in Seq(S) /\ Len(b) = IF k + 2 <= Len(t) THEN Len(t) - (k + 2) + 1 ELSE 0
          /\ \A i \in 1 .. Len(t) - (k + 2) + 1 : b[i] = t[(k + 2) + i - 1]
      BY <1>0, <3>1, SubSeqProperties
    <3>. HIDE DEF b
    <3>3. Len(b) = Len(t) - k - 1
      <4>. DEFINE h == Len(b)
      <4>1. h = IF k + 2 <= n THEN n - (k + 2) + 1 ELSE 0
        BY <3>2 DEF n
      <4>. HIDE DEF h
      <4>2. h = n - k - 1
        BY <1>12, <4>1
      <4>. QED  BY <4>2 DEF n, h
    <3>4. ASSUME NEW i \in 1 .. Len(b) PROVE b[i] = t[k + 1 + i]
      <4>1. i \in 1 .. Len(t) - (k + 2) + 1 /\ (k + 2) + i - 1 = k + 1 + i
        BY <1>0, <3>3
      <4>. QED  BY <3>2, <4>1
    <3>. QED  BY <3>2, <3>3, <3>4
  <2>3. u = a \o b
    <3>1. (k + 1) - 1 = k /\ (k + 1) + 1 = k + 2
      BY <1>0
    <3>2. u = SubSeq(t, 1, (k + 1) - 1) \o SubSeq(t, (k + 1) + 1, Len(t))
      BY DEF RemoveAt
    <3>. HIDE DEF u
    <3>. QED  BY <3>1, <3>2, Zenon
  <2>. HIDE DEF a, b, u
  <2>4. /\ a \o b \in Seq(S) /\ Len(a \o b) = Len(a) + Len(b)
        /\ \A i \in 1 .. Len(a) + Len(b) : (a \o b)[i] = IF i <= Len(a) THEN a[i] ELSE b[i - Len(a)]
    BY <2>1, <2>2, ConcatProperties
  <2>5. u \in Seq(S) /\ Len(u) = Len(t) - 1
    BY <1>0, <1>3, <2>1, <2>2, <2>3, <2>4
  <2>6. ASSUME NEW i \in 1 .. Len(u) PROVE u[i] = IF i <= k THEN t[i] ELSE t[i + 1]
    <3>1. i \in 1 .. Len(a) + Len(b) /\ Len(a) = k
      BY <1>0, <1>3, <2>1, <2>2, <2>5
    <3>2. CASE i <= k
      BY <2>1, <2>3, <2>4, <3>1, <3>2
    <3>3. CASE ~(i <= k)
      <4>1. i - k \in 1 .. Len(b) /\ k + 1 + (i - k) = i + 1
        BY <2>2, <3>1, <3>3
      <4>. QED  BY <2>2, <2>3, <2>4, <3>1, <3>3, <4>1
    <3>. QED  BY <3>2, <3>3
  <2>. QED  BY <2>5, <2>6
<1>. HIDE DEF u
<1>9. IsInjective(u)
  <2>1. DOMAIN u = 1 .. Len(u)
    BY <1>8, LenProperties
  <2>2. ASSUME NEW i \in 1 .. Len(u), NEW j \in 1 .. Len(u), u[i] = u[j] PROVE i = j
    <3>. DEFINE f(h) == IF h <= k THEN h ELSE h + 1
    <3>1. f(i) \in 1 .. Len(t) /\ f(j) \in 1 .. Len(t) /\ u[i] = t[f(i)] /\ u[j] = t[f(j)]
      BY <1>0, <1>3, <1>8
    <3>2. f(i) = f(j)
      BY <1>0, <2>2, <3>1 DEF IsInjective
    <3>. QED  BY <1>3, <1>8, <3>2
  <2>. QED  BY <2>1, <2>2 DEF IsInjective
<1>10. ToSet(u) = ToSet(t) \ {Head(s)}
  <2>1. DOMAIN u = 1 .. Len(u)
    BY <1>8, LenProperties
  <2>2. ASSUME NEW x \in ToSet(u) PROVE x \in ToSet(t) \ {Head(s)}
    <3>1. PICK i \in 1 .. Len(u) : x = u[i]
      BY <2>1, <2>2 DEF ToSet
    <3>. DEFINE h == IF i <= k THEN i ELSE i + 1
    <3>2. h \in 1 .. Len(t) /\ h # k + 1 /\ x = t[h]
      BY <1>0, <1>3, <1>8, <3>1
    <3>. HIDE DEF h
    <3>. QED  BY <1>0, <1>3, <3>2 DEF ToSet, IsInjective
  <2>3. ASSUME NEW x \in ToSet(t) \ {Head(s)} PROVE x \in ToSet(u)
    <3>1. PICK i \in 1 .. Len(t) : x = t[i]
      BY <1>0, <2>3 DEF ToSet
    <3>2. CASE i <= k
      BY <1>0, <1>3, <1>8, <2>1, <3>1, <3>2 DEF ToSet
    <3>3. CASE i > k + 1
      <4>1. i - 1 \in 1 .. Len(u) /\ u[i - 1] = t[i]
        BY <1>0, <1>3, <1>8, <3>1, <3>3
      <4>. QED  BY <2>1, <3>1, <4>1 DEF ToSet
    <3>. QED  BY <1>0, <1>3, <2>3, <3>1, <3>2, <3>3
  <2>. QED  BY <2>2, <2>3
<1>11. RestOf(Tail(s), u)
  <2>1. k \in 0 .. Len(u) /\ Len(Tail(s)) = Len(u) - k
    <3>. DEFINE h == Len(u)
    <3>1. h = n - 1
      BY <1>8 DEF n
    <3>. HIDE DEF h
    <3>2. k \in 0 .. h /\ l = h - k
      BY <1>12, <3>1
    <3>. QED  BY <3>2 DEF h, l
  <2>2. ASSUME NEW i \in 1 .. Len(Tail(s)) PROVE Tail(s)[i] = u[k + i]
    <3>1. /\ i + 1 \in 1 .. Len(s) /\ k + i \in 1 .. Len(u) /\ ~(k + i <= k)
          /\ k + (i + 1) = (k + i) + 1
      BY <1>0, <1>1, <1>2, <1>3, <1>8
    <3>2. Tail(s)[i] = t[(k + i) + 1]
      BY <1>1, <1>2, <3>1
    <3>. QED  BY <1>8, <3>1, <3>2
  <2>. QED  BY <1>2, <1>8, <2>1, <2>2, RestIff
<1>. QED  BY <1>2, <1>4, <1>5, <1>6, <1>7, <1>8, <1>9, <1>10, <1>11 DEF u

LEMMA Appended ==
    ASSUME NEW S, NEW t \in Seq(S), IsInjective(t), NEW x \in S \ ToSet(t)
    PROVE  /\ Append(t, x) \in Seq(S) /\ IsInjective(Append(t, x))
           /\ ToSet(Append(t, x)) = ToSet(t) \cup {x}
<1>. DEFINE u == Append(t, x)
            n == Len(t)
<1>1. /\ u \in Seq(S) /\ Len(u) = n + 1 /\ u[n + 1] = x
      /\ \A i \in 1 .. n : u[i] = t[i]
  BY AppendProperties
<1>2. n \in Nat /\ DOMAIN t = 1 .. n /\ DOMAIN u = 1 .. n + 1
  BY <1>1, LenProperties
<1>. HIDE DEF u, n
<1>3. 1 .. n + 1 = (1 .. n) \cup {n + 1} /\ n + 1 \notin 1 .. n
  BY <1>2
<1>4. \A i \in 1 .. n : t[i] # x
  BY <1>2 DEF ToSet
<1>5. IsInjective(u)
  BY <1>1, <1>2, <1>3, <1>4 DEF IsInjective
<1>6. ToSet(u) = ToSet(t) \cup {x}
  BY <1>1, <1>2, <1>3 DEF ToSet
<1>. QED  BY <1>1, <1>5, <1>6 DEF u

------------------------------------------------------------------------------
(* The traversal *)

Traversals == [pc : {"select", "control", "data"}, todo : Seq(Slots),
               r : SUBSET Sockets, w : SUBSET Sockets]

\* The traversal stops at the end of the list, or at a client that has something
\* to do, with the clients behind it still to be served.
LEMMA TraversalStops ==
    ASSUME NEW list \in Seq(Slots), NEW r \in SUBSET Sockets, NEW w \in SUBSET Sockets
    PROVE  LET T == Traversal(list, r, w) IN
           /\ T \in Traversals /\ RestOf(T.todo, list)
           /\ \/ T = Idle
              \/ /\ T.todo # <<>> /\ T.r = r /\ T.w = w
                 /\ \/ T.pc = "control" /\ client[Head(T.todo)].control \in r
                    \/ T.pc = "data" /\ Event(client[Head(T.todo)], r, w) # "none"
<1>. DEFINE n == Len(list)
            T == Traversal(list, r, w)
            ready == {i \in DOMAIN list : \/ client[list[i]].control \in r
                                          \/ Event(client[list[i]], r, w) # "none"}
            first == CHOOSE i \in ready : \A j \in ready : i <= j
            todo == SubSeq(list, first, Len(list))
<1>1. n \in Nat /\ DOMAIN list = 1 .. n /\ \A i \in 1 .. n : list[i] \in Slots
  BY LenProperties
<1>2. CASE ready = {}
  <2>1. T = Idle /\ Idle \in Traversals /\ Idle.todo = <<>>
    BY <1>2 DEF Traversal, Idle, Traversals
  <2>2. Len(<<>>) = n - n /\ \A i \in 1 .. Len(<<>>) : <<>>[i] = list[n + i]
    BY <1>1
  <2>3. RestOf(<<>>, list)
    <3>1. n \in 0 .. n /\ <<>> \in Seq(Slots)
      BY <1>1
    <3>. QED  BY <2>2, <3>1, RestIff
  <2>. QED  BY <2>1, <2>3
<1>3. CASE ready # {}
  <2>1. T = [pc |-> IF client[Head(todo)].control \in r THEN "control" ELSE "data",
             todo |-> todo, r |-> r, w |-> w]
    BY <1>3 DEF Traversal
  <2>2. first \in 1 .. n /\ first \in ready
    <3>1. ready \in SUBSET Nat
      BY <1>1
    <3>. HIDE DEF ready
    <3>2. \E i \in ready : \A j \in ready : i <= j
      BY <1>3, <3>1, LeastExists
    <3>3. first \in ready
      BY <3>2
    <3>. QED  BY <1>1, <3>3 DEF ready
  <2>3. client[list[first]].control \in r \/ Event(client[list[first]], r, w) # "none"
    BY <2>2
  <2>. HIDE DEF ready, first
  <2>4. todo \in Seq(Slots) /\ Len(todo) = n - (first - 1) /\ \A i \in 1 .. Len(todo) : todo[i] = list[(first - 1) + i]
    <3>1. \A i \in first .. n : list[i] \in Slots
      BY <1>1, <2>2
    <3>2. /\ todo \in Seq(Slots) /\ Len(todo) = IF first <= n THEN n - first + 1 ELSE 0
          /\ \A i \in 1 .. n - first + 1 : todo[i] = list[first + i - 1]
      BY <1>1, <2>2, <3>1, SubSeqProperties
    <3>. HIDE DEF todo
    <3>. DEFINE l == Len(todo)
    <3>3. l = IF first <= n THEN n - first + 1 ELSE 0
      BY <3>2
    <3>. HIDE DEF l, n
    <3>4. l = n - (first - 1) /\ l = n - first + 1
      BY <1>1, <2>2, <3>3
    <3>5. ASSUME NEW i \in 1 .. l PROVE todo[i] = list[(first - 1) + i]
      <4>1. i \in 1 .. n - first + 1 /\ first + i - 1 = (first - 1) + i
        BY <2>2, <3>4, <3>5
      <4>. QED  BY <3>2, <4>1 DEF n
    <3>. QED  BY <3>2, <3>4, <3>5 DEF l
  <2>. HIDE DEF todo
  <2>5. todo # <<>> /\ Head(todo) = list[first]
    <3>. DEFINE l == Len(todo)
    <3>0. l = n - (first - 1)
      BY <2>4
    <3>. HIDE DEF l, n
    <3>1. 1 \in 1 .. l /\ l # 0 /\ (first - 1) + 1 = first
      BY <1>1, <2>2, <3>0
    <3>2. todo[1] = list[first]
      BY <2>4, <3>1 DEF l
    <3>3. todo # <<>>
      BY <2>4, <3>1, EmptySeq DEF l
    <3>. QED  BY <2>4, <3>2, <3>3
  <2>6. RestOf(todo, list)
    <3>1. first - 1 \in 0 .. n
      BY <1>1, <2>2
    <3>. QED  BY <2>4, <3>1, RestIff
  <2>7. T \in Traversals /\ T.todo = todo /\ T.r = r /\ T.w = w
    BY <2>1, <2>4 DEF Traversals
  <2>8. \/ T.pc = "control" /\ client[Head(todo)].control \in r
        \/ T.pc = "data" /\ Event(client[Head(todo)], r, w) # "none"
    BY <2>1, <2>3, <2>5
  <2>. QED  BY <2>5, <2>6, <2>7, <2>8
<1>. QED  BY <1>2, <1>3

\* Where the server is, and what select has told it, fits the state of the clients
\* it has not served.
ServerSound ==
    /\ srv.pc = "select" <=> srv.todo = <<>>
    /\ srv.pc = "control" => client[Current].control \in srv.r
    /\ srv.pc = "data" => Event(client[Current], srv.r, srv.w) # "none"
    /\ \A i \in DOMAIN srv.todo :
          (i > 1 \/ srv.pc = "control") /\ client[srv.todo[i]].control \in srv.r
          => client[srv.todo[i]].inbox # "none"

\* A traversal leaves it so if the clients of the list are as they were, or new.
LEMMA TraversalSound ==
    ASSUME NEW list \in Seq(Slots), NEW r \in SUBSET Sockets, NEW w \in SUBSET Sockets,
           srv' = Traversal(list, r, w),
           \A i \in 1 .. Len(list) :
              \/ /\ client'[list[i]] = client[list[i]]
                 /\ client[list[i]].control \in r => client[list[i]].inbox # "none"
              \/ client[list[i]] = FreeClient /\ client'[list[i]].control \notin r
    PROVE  ServerSound' /\ srv' \in Traversals /\ RestOf(srv'.todo, list)
<1>. DEFINE todo == srv'.todo
<1>1. /\ srv' \in Traversals /\ RestOf(todo, list) /\ todo \in Seq(Slots)
      /\ \/ srv' = Idle
         \/ /\ todo # <<>> /\ srv'.r = r /\ srv'.w = w
            /\ \/ srv'.pc = "control" /\ client[Head(todo)].control \in r
               \/ srv'.pc = "data" /\ Event(client[Head(todo)], r, w) # "none"
  <2>. DEFINE T == Traversal(list, r, w)
  <2>1. /\ T \in Traversals /\ RestOf(T.todo, list)
        /\ \/ T = Idle
           \/ /\ T.todo # <<>> /\ T.r = r /\ T.w = w
              /\ \/ T.pc = "control" /\ client[Head(T.todo)].control \in r
                 \/ T.pc = "data" /\ Event(client[Head(T.todo)], r, w) # "none"
    BY TraversalStops
  <2>2. srv' = T
    OBVIOUS
  <2>. HIDE DEF T
  <2>3. T.todo \in Seq(Slots)
    BY <2>1 DEF Traversals
  <2>. QED  BY <2>1, <2>2, <2>3
<1>2. CASE srv' = Idle
  BY <1>1, <1>2 DEF ServerSound, Idle
<1>3. CASE srv' # Idle
  <2>1. PICK k \in 0 .. Len(list) : Len(todo) = Len(list) - k /\ \A i \in 1 .. Len(todo) : todo[i] = list[k + i]
    <3>1. todo \in Seq(Slots) /\ RestOf(todo, list)
      BY <1>1
    <3>. HIDE DEF todo
    <3>. QED  BY <3>1, RestIff
  <2>2. Len(list) \in Nat /\ Len(todo) \in Nat /\ DOMAIN todo = 1 .. Len(todo)
    BY <1>1, LenProperties
  <2>3. ASSUME NEW i \in 1 .. Len(todo)
        PROVE  \/ /\ client'[todo[i]] = client[todo[i]]
                  /\ client[todo[i]].control \in r => client[todo[i]].inbox # "none"
               \/ client[todo[i]] = FreeClient /\ client'[todo[i]].control \notin r
    <3>1. k + i \in 1 .. Len(list)
      BY <2>1, <2>2
    <3>. QED  BY <2>1, <3>1
  <2>4. 1 \in 1 .. Len(todo) /\ Head(todo) = todo[1]
    <3>. DEFINE l == Len(todo)
    <3>1. l \in Nat /\ l # 0
      BY <1>1, <1>3, <2>2, EmptySeq
    <3>. HIDE DEF l
    <3>2. 1 \in 1 .. l
      BY <3>1
    <3>3. Head(todo) = todo[1]
      BY <1>1, <1>3
    <3>. QED  BY <3>2, <3>3 DEF l
  <2>5. client'[Head(todo)] = client[Head(todo)]
    <3>1. FreeClient.control \notin r /\ Event(FreeClient, r, w) = "none"
      BY FtpAssumption DEF FreeClient, Event
    <3>. QED  BY <1>1, <1>3, <2>3, <2>4, <3>1
  <2>6. srv'.pc # "select" /\ todo # <<>> /\ srv'.r = r /\ srv'.w = w
    BY <1>1, <1>3
  <2>7. \A i \in DOMAIN todo : client'[todo[i]].control \in r => client'[todo[i]].inbox # "none"
    BY <2>2, <2>3
  <2>. QED  BY <1>1, <1>3, <2>5, <2>6, <2>7 DEF ServerSound, Current
<1>. QED  BY <1>1, <1>2, <1>3

------------------------------------------------------------------------------
(* All clients *)

Others(c) == UNION {Owned(d) : d \in Slots \ {c}}

AllSound == \A c \in Slots : Sound(client[c])
AllTakeTurns == \A c \in Slots \ Rude : TakesTurns(client[c])

FtpInv ==
    /\ TypeOK /\ SocketsOwned /\ ListSound
    /\ AllSound /\ AllTakeTurns /\ ServerSound

LEMMA ClientBased ==
    ASSUME TypeOK, SocketsOwned, NEW c \in Slots, Attached(c)
    PROVE  Based(State(c), Others(c))
<1>1. State(c).c = client[c] /\ State(c).open = open /\ State(c) \in States
  BY DEF State, States, TypeOK
<1>2. Own(client[c]) = Owned(c)
  BY DEF Own, Owned
<1>3. Others(c) \subseteq open /\ Others(c) \cap Owned(c) = {} /\ Owned(c) \subseteq open
  BY DEF Others, SocketsOwned
<1>. QED  BY <1>1, <1>2, <1>3 DEF Based, Apart, SocketsOwned, Attached

\* A step of one client leaves the others as they are.
LEMMA ClientStep ==
    ASSUME TypeOK, SocketsOwned, AllSound, NEW c \in Slots,
           NEW q \in States, Apart(q, Others(c)), Sound(q.c), Handled(c, q)
    PROVE  /\ client' \in [Slots -> Clients] /\ open' \subseteq Sockets
           /\ SocketsOwned' /\ AllSound'
           /\ client'[c] = q.c /\ \A d \in Slots \ {c} : client'[d] = client[d]
<1>1. /\ client' \in [Slots -> Clients] /\ open' = q.open /\ open' \subseteq Sockets
      /\ client'[c] = q.c /\ \A d \in Slots \ {c} : client'[d] = client[d]
  BY DEF TypeOK, Handled, States
<1>2. AllSound'
  BY <1>1 DEF AllSound
<1>3. Owned(c)' = Own(q.c) /\ \A d \in Slots \ {c} : Owned(d)' = Owned(d)
  BY <1>1 DEF Owned, Own
<1>4. \A d \in Slots \ {c} : Owned(d) \subseteq Others(c)
  BY DEF Others
<1>5. \A d \in Slots : Owned(d)' \subseteq open'
  BY <1>1, <1>3, <1>4 DEF Apart
<1>6. \A d, e \in Slots : d # e => Owned(d)' \cap Owned(e)' = {}
  <2>1. \A d \in Slots \ {c} : Owned(d)' \cap Own(q.c) = {}
    BY <1>3, <1>4 DEF Apart
  <2>. QED  BY <1>3, <2>1 DEF SocketsOwned
<1>7. \A d \in Slots : Attached(d)' => client'[d].control # client'[d].data
  BY <1>1 DEF Attached, Sound, SocketsOwned
<1>. QED  BY <1>1, <1>2, <1>5, <1>6, <1>7 DEF SocketsOwned

\* The client whose turn it is, and those behind it in the list.
LEMMA TurnFacts ==
    ASSUME FtpInv, srv.pc # "select"
    PROVE  /\ srv.todo \in Seq(Slots) /\ srv.todo # <<>>
           /\ Current \in Slots /\ Attached(Current)
           /\ Tail(srv.todo) \in Seq(Slots) /\ RestOf(Tail(srv.todo), order)
           /\ \A i \in 1 .. Len(Tail(srv.todo)) :
                 LET d == Tail(srv.todo)[i] IN
                 d \in Slots \ {Current} /\ (client[d].control \in srv.r => client[d].inbox # "none")
<1>1. srv.todo \in Seq(Slots) /\ srv.todo # <<>> /\ order \in Seq(Slots) /\ RestOf(srv.todo, order)
      /\ IsInjective(order) /\ ToSet(order) = Connected
  BY DEF FtpInv, ServerSound, TypeOK, ListSound
<1>2. /\ Tail(srv.todo) \in Seq(Slots) /\ RestOf(Tail(srv.todo), order)
      /\ \A i \in 2 .. Len(srv.todo) : srv.todo[i] # Current
      /\ Current \in ToSet(order)
  BY <1>1, ListWithout DEF Current
<1>3. Current \in Slots /\ Attached(Current)
  BY <1>1, <1>2 DEF Connected
<1>4. ASSUME NEW i \in 1 .. Len(Tail(srv.todo))
      PROVE  LET d == Tail(srv.todo)[i] IN
             d \in Slots \ {Current} /\ (client[d].control \in srv.r => client[d].inbox # "none")
  <2>1. Len(Tail(srv.todo)) = Len(srv.todo) - 1 /\ Tail(srv.todo)[i] = srv.todo[i + 1]
    BY <1>1, HeadTailProperties
  <2>2. Len(srv.todo) \in Nat /\ DOMAIN srv.todo = 1 .. Len(srv.todo)
        /\ \A j \in 1 .. Len(srv.todo) : srv.todo[j] \in Slots
    BY <1>1, LenProperties
  <2>. DEFINE m == Len(srv.todo)
              l == Len(Tail(srv.todo))
  <2>3. l = m - 1 /\ m \in Nat /\ i \in 1 .. l
    BY <2>1, <2>2
  <2>. HIDE DEF m, l
  <2>4. i + 1 \in 2 .. m /\ i + 1 \in 1 .. m /\ i + 1 > 1
    BY <2>3
  <2>5. srv.todo[i + 1] \in Slots /\ srv.todo[i + 1] # Current
    BY <1>2, <2>2, <2>4 DEF m
  <2>6. client[srv.todo[i + 1]].control \in srv.r => client[srv.todo[i + 1]].inbox # "none"
    BY <2>2, <2>4 DEF FtpInv, ServerSound, m
  <2>. QED  BY <2>1, <2>5, <2>6
<1>. QED  BY <1>1, <1>2, <1>3, <1>4

\* The list stays the list of the attached clients, and the clients behind the
\* current one stay behind it.
LEMMA DetachSound ==
    ASSUME FtpInv, srv.pc # "select", NEW q \in States, Handled(Current, q), Detach(Current, q)
    PROVE  /\ order' \in Seq(Slots) /\ IsInjective(order') /\ ToSet(order') = Connected'
           /\ RestOf(Tail(srv.todo), order')
           /\ q.c.control # NoSocket => order' = order
<1>1. /\ srv.todo \in Seq(Slots) /\ srv.todo # <<>> /\ order \in Seq(Slots) /\ RestOf(srv.todo, order)
      /\ IsInjective(order) /\ ToSet(order) = Connected
  BY DEF FtpInv, ServerSound, TypeOK, ListSound
<1>2. Current \in Slots /\ Attached(Current)
  BY TurnFacts
<1>3. client'[Current] = q.c /\ \A d \in Slots \ {Current} : client'[d] = client[d]
  BY <1>2 DEF Handled, FtpInv, TypeOK
<1>4. Connected' = IF q.c.control = NoSocket THEN Connected \ {Current} ELSE Connected
  BY <1>2, <1>3 DEF Connected, Attached
<1>5. CASE q.c.control # NoSocket
  <2>1. order' = order
    BY <1>5 DEF Detach
  <2>2. RestOf(Tail(srv.todo), order)
    BY TurnFacts
  <2>. QED  BY <1>1, <1>4, <1>5, <2>1, <2>2
<1>6. CASE q.c.control = NoSocket
  <2>. DEFINE u == RemoveAt(order, CHOOSE i \in DOMAIN order : order[i] = Current)
  <2>1. order' = u
    BY <1>6 DEF Detach
  <2>2. u \in Seq(Slots) /\ IsInjective(u) /\ ToSet(u) = ToSet(order) \ {Current}
        /\ RestOf(Tail(srv.todo), u)
    <3>. DEFINE at == CHOOSE i \in DOMAIN order : order[i] = Current
    <3>1. Current \in ToSet(order)
      BY <1>1, ListWithout DEF Current
    <3>2. at \in DOMAIN order /\ order[at] = Current
      BY <3>1 DEF ToSet
    <3>. HIDE DEF at
    <3>3. LET v == RemoveAt(order, at)
          IN  /\ v \in Seq(Slots) /\ IsInjective(v) /\ ToSet(v) = ToSet(order) \ {Current}
              /\ RestOf(Tail(srv.todo), v)
      BY <1>1, <3>2, ListWithout DEF Current
    <3>. QED  BY <3>3 DEF at
  <2>. HIDE DEF u
  <2>. QED  BY <1>1, <1>4, <1>6, <2>1, <2>2
<1>. QED  BY <1>5, <1>6

\* The traversal goes on behind the current client.
LEMMA GoesOn ==
    ASSUME FtpInv, srv.pc # "select", NEW q \in States, Handled(Current, q), Detach(Current, q),
           srv' = Traversal(Tail(srv.todo), srv.r, srv.w)
    PROVE  ServerSound' /\ srv' \in Traversals /\ ListSound'
<1>1. /\ Tail(srv.todo) \in Seq(Slots) /\ Current \in Slots
      /\ \A i \in 1 .. Len(Tail(srv.todo)) :
                 LET d == Tail(srv.todo)[i] IN
                 d \in Slots \ {Current} /\ (client[d].control \in srv.r => client[d].inbox # "none")
  BY TurnFacts
<1>2. srv.r \in SUBSET Sockets /\ srv.w \in SUBSET Sockets
  BY DEF FtpInv, TypeOK
<1>3. \A d \in Slots \ {Current} : client'[d] = client[d]
  BY <1>1 DEF Handled, FtpInv, TypeOK
<1>4. ServerSound' /\ srv' \in Traversals /\ RestOf(srv'.todo, Tail(srv.todo))
  BY <1>1, <1>2, <1>3, TraversalSound
<1>5. /\ order' \in Seq(Slots) /\ IsInjective(order') /\ ToSet(order') = Connected'
      /\ RestOf(Tail(srv.todo), order')
  BY DetachSound
<1>6. RestOf(srv'.todo, order')
  <2>1. srv'.todo \in Seq(Slots)
    BY <1>4 DEF Traversals
  <2>. QED  BY <1>1, <1>4, <1>5, <2>1, RestOfRest
<1>. QED  BY <1>4, <1>5, <1>6 DEF ListSound

------------------------------------------------------------------------------
(* The steps *)

LEMMA ControlServed ==
    ASSUME FtpInv, srv.pc = "control", NEW q \in Received(Current)
    PROVE  /\ q \in States /\ Apart(q, Others(Current)) /\ Sound(q.c)
           /\ Obeys(State(Current), q)
           /\ Current \notin Rude => TakesTurns(q.c)
<1>. DEFINE cl == client[Current]
            e == [cl EXCEPT !.inbox = "none"]
            p == [State(Current) EXCEPT !.c.inbox = "none"]
            O == Others(Current)
<1>1. Current \in Slots /\ Attached(Current) /\ srv.todo # <<>> /\ srv.todo \in Seq(Slots)
  BY TurnFacts
<1>2. cl \in Clients /\ Sound(cl) /\ open \in SUBSET Sockets
      /\ (Current \notin Rude => TakesTurns(cl))
  BY <1>1 DEF FtpInv, TypeOK, AllSound, AllTakeTurns
<1>3. Based(State(Current), O)
  BY <1>1, ClientBased DEF FtpInv
<1>4. p = [c |-> e, open |-> open]
  BY <1>2 DEF State
<1>5. e \in Clients
  BY <1>2 DEF Clients
<1>6. /\ e.control = cl.control /\ e.data = cl.data /\ e.mode = cl.mode /\ e.auth = cl.auth
      /\ e.conn = cl.conn /\ e.knock = cl.knock /\ e.asked = cl.asked /\ e.action = cl.action
      /\ e.handle = cl.handle /\ e.inbox = "none"
  BY <1>2 DEF Clients
<1>7. /\ cl.control # NoSocket /\ State(Current).c = cl /\ State(Current).open = open
  BY <1>1 DEF Attached, State
<1>8. cl.inbox \in {"command", "hangup"}
  <2>. DEFINE l == Len(srv.todo)
  <2>1. l \in Nat /\ l # 0 /\ DOMAIN srv.todo = 1 .. l /\ Current = srv.todo[1]
    BY <1>1, LenProperties, EmptySeq DEF Current
  <2>. HIDE DEF l
  <2>2. 1 \in DOMAIN srv.todo
    BY <2>1
  <2>3. cl.inbox # "none"
    BY <2>1, <2>2 DEF FtpInv, ServerSound
  <2>. QED  BY <1>2, <2>3 DEF Clients
<1>. HIDE DEF e, cl, O
<1>9. Based(p, O) /\ Sound(p.c) /\ p.c = e
  BY <1>2, <1>3, <1>4, <1>5, <1>6, <1>7 DEF Based, States, Apart, Own, Sound
<1>10. (q.c = FreeClient \/ (cl.inbox = "command" /\ \E cmd \in AllCommands : q \in OnCommand(p, cmd)))
       /\ Served(p, q, O)
  <2>1. CASE cl.inbox = "hangup"
    <3>1. q = Destroyed(p)
      BY <2>1 DEF Received, cl
    <3>. QED  BY <1>9, <3>1, DestroyedServed DEF Destroyed
  <2>2. CASE cl.inbox = "command"
    <3>1. PICK cmd \in Commands(Current) : q \in OnCommand(p, cmd)
      BY <2>2 DEF Received, cl
    <3>2. cmd \in AllCommands
      BY FtpAssumption DEF Commands
    <3>. QED  BY <1>6, <1>9, <2>2, <3>1, <3>2, CommandServed
  <2>. QED  BY <1>8, <2>1, <2>2
<1>11. Obeys(State(Current), q)
  BY <1>6, <1>7, <1>9, <1>10 DEF Obeys, Served
<1>12. ASSUME Current \notin Rude PROVE TakesTurns(q.c)
  <2>1. CASE q.c = FreeClient
    BY <2>1, FreeClientSound
  <2>2. CASE cl.inbox = "command"
    <3>1. TakesTurns(cl) /\ cl.asked = "none"
      BY <1>2, <1>12, <2>2 DEF TakesTurns
    <3>2. TakesTurns(p.c) /\ p.c.asked = "none"
      BY <1>6, <1>9, <3>1 DEF TakesTurns
    <3>. QED  BY <1>10, <3>2 DEF Served
  <2>. QED  BY <1>10, <2>1, <2>2
<1>. QED  BY <1>10, <1>11, <1>12 DEF Served, O

LEMMA HandleControlKeeps ==
    ASSUME FtpInv, HandleControl
    PROVE  FtpInv'
<1>0. srv.pc = "control"
  BY DEF HandleControl
<1>1. PICK q \in Received(Current) :
         /\ Handled(Current, q) /\ Detach(Current, q)
         /\ srv' = IF Event(q.c, srv.r, srv.w) # "none" THEN [srv EXCEPT !.pc = "data"]
                   ELSE Traversal(Tail(srv.todo), srv.r, srv.w)
  BY DEF HandleControl
<1>2. /\ q \in States /\ Apart(q, Others(Current)) /\ Sound(q.c)
      /\ Current \notin Rude => TakesTurns(q.c)
  BY <1>0, ControlServed
<1>3. /\ srv.todo \in Seq(Slots) /\ srv.todo # <<>> /\ Current \in Slots
      /\ srv \in Traversals
  BY <1>0, TurnFacts DEF FtpInv, TypeOK, Traversals
<1>4. /\ client' \in [Slots -> Clients] /\ open' \subseteq Sockets
      /\ SocketsOwned' /\ AllSound'
      /\ client'[Current] = q.c /\ \A d \in Slots \ {Current} : client'[d] = client[d]
  BY <1>1, <1>2, <1>3, ClientStep DEF FtpInv
<1>5. AllTakeTurns'
  BY <1>2, <1>3, <1>4 DEF AllTakeTurns, FtpInv
<1>6. /\ order' \in Seq(Slots) /\ IsInjective(order') /\ ToSet(order') = Connected'
      /\ q.c.control # NoSocket => order' = order
  BY <1>0, <1>1, <1>2, DetachSound
<1>7. ServerSound' /\ srv' \in Traversals /\ ListSound'
  <2>1. CASE Event(q.c, srv.r, srv.w) = "none"
    BY <1>0, <1>1, <1>2, <2>1, GoesOn
  <2>2. CASE Event(q.c, srv.r, srv.w) # "none"
    <3>1. srv' = [srv EXCEPT !.pc = "data"]
      BY <1>1, <2>2
    <3>2. srv' \in Traversals /\ srv'.pc = "data" /\ srv'.todo = srv.todo /\ srv'.r = srv.r /\ srv'.w = srv.w
      BY <1>3, <3>1 DEF Traversals
    <3>3. q.c.control # NoSocket
      BY <1>2, <2>2 DEF Event, Sound, FreeClient
    <3>4. ListSound'
      BY <1>6, <3>2, <3>3 DEF FtpInv, ListSound
    <3>5. \A i \in DOMAIN srv.todo : i > 1 => srv.todo[i] \in Slots \ {Current}
      <4>1. /\ DOMAIN srv.todo = 1 .. Len(srv.todo) /\ Len(srv.todo) \in Nat
            /\ \A i \in 1 .. Len(srv.todo) : srv.todo[i] \in Slots
        BY <1>3, LenProperties
      <4>2. \A i \in 2 .. Len(srv.todo) : srv.todo[i] # Current
        BY <1>3, ListWithout DEF FtpInv, ListSound, TypeOK, Current
      <4>. QED  BY <4>1, <4>2
    <3>6. \A i \in DOMAIN srv.todo : i > 1 /\ client[srv.todo[i]].control \in srv.r
                                     => client[srv.todo[i]].inbox # "none"
      BY DEF FtpInv, ServerSound
    <3>7. ServerSound'
      BY <1>3, <1>4, <2>2, <3>2, <3>5, <3>6 DEF ServerSound, Current
    <3>. QED  BY <3>2, <3>4, <3>7
  <2>. QED  BY <2>1, <2>2
<1>. QED  BY <1>4, <1>5, <1>6, <1>7 DEF FtpInv, TypeOK, Traversals

\* An event of the current client's data connection is there, and is one that has
\* come if the server is not stalled.
LEMMA DataFacts ==
    ASSUME FtpInv, srv.pc = "data", ~Stalled,
           NEW q \in OnDataEvent(State(Current), Event(client[Current], srv.r, srv.w))
    PROVE  LET p == State(Current) IN
           /\ DataFine(p, q, Others(Current)) /\ p.c.auth = "valid" /\ p.c = client[Current]
           /\ Current \in Slots /\ Attached(Current)
           /\ Current \notin Rude => TakesTurns(q.c)
           /\ p.c.data # NoSocket /\ q.c.data = NoSocket /\ q.c.action # "none" => p.c.mode # "idle"
<1>1. Current \in Slots /\ Attached(Current)
  BY TurnFacts
<1>2. Based(State(Current), Others(Current)) /\ State(Current).c = client[Current]
  BY <1>1, ClientBased DEF FtpInv, State
<1>3. Sound(client[Current]) /\ (Current \notin Rude => TakesTurns(client[Current]))
  BY <1>1 DEF FtpInv, AllSound, AllTakeTurns
<1>4. /\ Event(client[Current], srv.r, srv.w) # "none"
      /\ Event(client[Current], srv.r, srv.w) = "accept" => client[Current].knock
  BY DEF FtpInv, ServerSound, Stalled
<1>. QED  BY <1>1, <1>2, <1>3, <1>4, DataEventFine

LEMMA HandleDataKeeps ==
    ASSUME FtpInv, HandleData
    PROVE  FtpInv'
<1>0. srv.pc = "data" /\ ~Stalled /\ order' = order
      /\ srv' = Traversal(Tail(srv.todo), srv.r, srv.w)
  BY DEF HandleData
<1>1. PICK q \in OnDataEvent(State(Current), Event(client[Current], srv.r, srv.w)) :
         Handled(Current, q)
  BY DEF HandleData
<1>2. /\ q \in States /\ Apart(q, Others(Current)) /\ Sound(q.c)
      /\ Current \notin Rude => TakesTurns(q.c)
      /\ Current \in Slots /\ q.c.control # NoSocket
  BY <1>0, DataFacts DEF DataFine, Keeps, Attached
<1>4. /\ client' \in [Slots -> Clients] /\ open' \subseteq Sockets
      /\ SocketsOwned' /\ AllSound'
      /\ client'[Current] = q.c /\ \A d \in Slots \ {Current} : client'[d] = client[d]
  BY <1>1, <1>2, ClientStep DEF FtpInv
<1>5. AllTakeTurns'
  BY <1>2, <1>4 DEF AllTakeTurns, FtpInv
<1>6. Detach(Current, q)
  BY <1>0, <1>2 DEF Detach
<1>7. ServerSound' /\ srv' \in Traversals /\ ListSound'
  BY <1>0, <1>1, <1>2, <1>6, GoesOn
<1>8. order' \in Seq(Slots)
  BY <1>0 DEF FtpInv, TypeOK
<1>. QED  BY <1>4, <1>5, <1>7, <1>8 DEF FtpInv, TypeOK, Traversals

\* What select reports: open descriptors, and a control connection only if a
\* command or the hang-up has arrived on it.
LEMMA SelectReports ==
    ASSUME FtpInv, NEW up \in SUBSET Uploads, NEW w \in SUBSET Writers
    PROVE  LET r == Commanding \cup Knocking \cup up IN
           /\ r \in SUBSET Sockets /\ w \in SUBSET Sockets /\ r \subseteq open
           /\ \A d \in Slots : client[d].control \in r => client[d].inbox # "none"
<1>. DEFINE r == Commanding \cup Knocking \cup up
<1>1. ASSUME NEW s \in r
      PROVE  \/ \E e \in Slots : Attached(e) /\ s = client[e].control /\ client[e].inbox # "none"
             \/ \E e \in Slots : Attached(e) /\ s = client[e].data /\ client[e].data # NoSocket
  <2>1. CASE s \in Commanding
    BY <2>1 DEF Commanding, Connected
  <2>2. CASE s \in Knocking
    <3>1. PICK e \in Slots : Attached(e) /\ s = client[e].data /\ client[e].knock
      BY <2>2 DEF Knocking, Connected
    <3>. QED  BY <3>1 DEF FtpInv, AllSound, Sound
  <2>3. CASE s \in up
    <3>1. PICK e \in Slots : Attached(e) /\ s = client[e].data /\ client[e].mode = "read"
      BY <2>3 DEF Uploads, Connected
    <3>. QED  BY <3>1 DEF FtpInv, AllSound, Sound
  <2>. QED  BY <2>1, <2>2, <2>3
<1>2. \A e \in Slots : Owned(e) \subseteq open
  BY DEF FtpInv, SocketsOwned
<1>3. \A e \in Slots : (Attached(e) => client[e].control \in Owned(e))
                       /\ (client[e].data # NoSocket => client[e].data \in Owned(e))
  BY DEF Owned, Attached
<1>4. open \subseteq Sockets /\ NoSocket \notin Sockets
  BY FtpAssumption DEF FtpInv, TypeOK
<1>5. r \subseteq open
  BY <1>1, <1>2, <1>3
<1>6. w \subseteq open
  <2>1. ASSUME NEW s \in w PROVE \E e \in Slots : s = client[e].data /\ s # NoSocket
    BY DEF Writers, Connected
  <2>. QED  BY <1>2, <1>3, <2>1
<1>7. ASSUME NEW d \in Slots, client[d].control \in r PROVE client[d].inbox # "none"
  <2>1. Attached(d)
    BY <1>4, <1>5, <1>7 DEF Attached
  <2>2. \A e \in Slots : e # d => Owned(e) \cap Owned(d) = {}
    BY DEF FtpInv, SocketsOwned
  <2>3. client[d].control # client[d].data
    BY <2>1 DEF FtpInv, SocketsOwned
  <2>. HIDE DEF r
  <2>4. CASE \E e \in Slots : Attached(e) /\ client[d].control = client[e].control /\ client[e].inbox # "none"
    BY <1>3, <2>1, <2>2, <2>4
  <2>5. CASE \E e \in Slots : Attached(e) /\ client[d].control = client[e].data /\ client[e].data # NoSocket
    BY <1>3, <2>1, <2>2, <2>3, <2>5
  <2>. QED  BY <1>1, <1>7, <2>4, <2>5
<1>. QED  BY <1>4, <1>5, <1>6, <1>7

\* A new client has the descriptor just handed out, and goes to the end of the list.
LEMMA ConnectSound ==
    ASSUME FtpInv, ~Exhausted(open), NEW c \in Slots, OnClientConnect(c)
    PROVE  /\ client' \in [Slots -> Clients] /\ open' \subseteq Sockets
           /\ SocketsOwned' /\ AllSound' /\ AllTakeTurns'
           /\ client[c] = FreeClient /\ client'[c].control \in Sockets \ open
           /\ client'[c].auth = "invalid"
           /\ \A d \in Slots \ {c} : client'[d] = client[d]
           /\ order' \in Seq(Slots) /\ ToSet(order') = Connected' /\ IsInjective(order')
<1>. DEFINE s == Lowest(open)
            e == [FreeClient EXCEPT !.control = s]
            q == [c |-> e, open |-> open \cup {s}]
<1>1. s \in Sockets /\ s \notin open /\ NoSocket \notin Sockets /\ open \subseteq Sockets
  BY LowestIsFree, FtpAssumption DEF FtpInv, TypeOK
<1>2. client[c] = FreeClient /\ c \notin Connected /\ Sound(FreeClient) /\ FreeClient \in Clients
  BY FreeClientSound DEF OnClientConnect, FtpInv, AllSound, Sound, Attached, Connected
<1>3. client' = [client EXCEPT ![c] = e] /\ open' = open \cup {s} /\ order' = Append(order, c)
  BY DEF OnClientConnect
<1>. HIDE DEF s
<1>4. e \in Clients
  BY <1>1, <1>2 DEF Clients
<1>5. /\ e.control = s /\ e.data = NoSocket /\ e.conn = "idle" /\ e.mode = "idle" /\ ~e.knock
      /\ e.auth = "invalid" /\ e.asked = "none" /\ e.inbox = "none"
  BY DEF FreeClient
<1>. HIDE DEF e
<1>6. q \in States /\ Handled(c, q) /\ q.c = e /\ q.open = open \cup {s}
  BY <1>1, <1>3, <1>4 DEF States, Handled
<1>. HIDE DEF q
<1>7. Sound(e) /\ TakesTurns(e)
  BY <1>1, <1>5 DEF Sound, TakesTurns
<1>8. Apart(q, Others(c))
  <2>1. Others(c) \subseteq open
    BY DEF Others, FtpInv, SocketsOwned
  <2>. QED  BY <1>1, <1>5, <1>6, <2>1 DEF Apart, Own
<1>9. /\ client' \in [Slots -> Clients] /\ open' \subseteq Sockets
      /\ SocketsOwned' /\ AllSound'
      /\ client'[c] = e /\ \A d \in Slots \ {c} : client'[d] = client[d]
  BY <1>6, <1>7, <1>8, ClientStep DEF FtpInv
<1>10. AllTakeTurns'
  BY <1>7, <1>9 DEF AllTakeTurns, FtpInv
<1>11. order' \in Seq(Slots) /\ IsInjective(order') /\ ToSet(order') = Connected \cup {c}
  BY <1>2, <1>3, Appended DEF FtpInv, TypeOK, ListSound
<1>12. Connected' = Connected \cup {c}
  BY <1>1, <1>5, <1>9 DEF Connected, Attached
<1>. QED  BY <1>1, <1>2, <1>5, <1>9, <1>10, <1>11, <1>12

LEMMA SelectKeeps ==
    ASSUME FtpInv, Select
    PROVE  FtpInv'
<1>1. PICK up \in SUBSET Uploads, w \in SUBSET Writers, new \in BOOLEAN :
         /\ IF new THEN Accept ELSE UNCHANGED <<client, order, open>>
         /\ srv' = Traversal(order', Commanding \cup Knocking \cup up, w)
  BY DEF Select
<1>. DEFINE r == Commanding \cup Knocking \cup up
<1>2. /\ r \in SUBSET Sockets /\ w \in SUBSET Sockets /\ r \subseteq open
      /\ \A d \in Slots : client[d].control \in r => client[d].inbox # "none"
  BY SelectReports
<1>3. srv' = Traversal(order', r, w)
  BY <1>1
<1>. HIDE DEF r
<1>4. CASE UNCHANGED <<client, order, open>>
  <2>1. order \in Seq(Slots) /\ \A i \in 1 .. Len(order) : order[i] \in Slots
    BY LenProperties DEF FtpInv, TypeOK
  <2>2. ServerSound' /\ srv' \in Traversals /\ RestOf(srv'.todo, order)
    BY <1>2, <1>3, <1>4, <2>1, TraversalSound
  <2>3. /\ ToSet(order) = Connected' /\ IsInjective(order)
        /\ SocketsOwned' /\ AllSound' /\ AllTakeTurns'
    BY <1>4 DEF FtpInv, ListSound, Connected, SocketsOwned, AllSound, AllTakeTurns, Owned, Attached
  <2>. QED  BY <1>4, <2>2, <2>3 DEF FtpInv, TypeOK, Traversals, ListSound
<1>5. CASE ~UNCHANGED <<client, order, open>>
  <2>1. ~Exhausted(open) /\ \E c \in Slots : OnClientConnect(c)
    BY <1>1, <1>5 DEF Accept
  <2>2. PICK c \in Slots : OnClientConnect(c)
    BY <2>1
  <2>3. /\ client' \in [Slots -> Clients] /\ open' \subseteq Sockets
        /\ SocketsOwned' /\ AllSound' /\ AllTakeTurns'
        /\ client[c] = FreeClient /\ client'[c].control \in Sockets \ open
        /\ \A d \in Slots \ {c} : client'[d] = client[d]
        /\ order' \in Seq(Slots) /\ ToSet(order') = Connected' /\ IsInjective(order')
    BY <2>1, <2>2, ConnectSound
  <2>4. \A i \in 1 .. Len(order') : order'[i] \in Slots
    BY <2>3, LenProperties
  <2>5. \A d \in Slots : \/ /\ client'[d] = client[d]
                            /\ client[d].control \in r => client[d].inbox # "none"
                         \/ client[d] = FreeClient /\ client'[d].control \notin r
    BY <1>2, <2>3
  <2>6. ServerSound' /\ srv' \in Traversals /\ RestOf(srv'.todo, order')
    BY <1>2, <1>3, <2>3, <2>4, <2>5, TraversalSound
  <2>. QED  BY <2>3, <2>6 DEF FtpInv, TypeOK, Traversals, ListSound
<1>. QED  BY <1>4, <1>5

\* What a peer does changes nothing but what waits at its own client.
LEMMA PeerKeeps ==
    ASSUME FtpInv, NEW c \in Slots, Peer(c)
    PROVE  /\ FtpInv' /\ client'[c].control = client[c].control /\ client'[c].auth = client[c].auth
           /\ client'[c].mode = client[c].mode /\ client'[c].data = client[c].data
           /\ \A d \in Slots \ {c} : client'[d] = client[d]
<1>. DEFINE cl == client[c]
            e == client'[c]
            q == [c |-> e, open |-> open]
<1>1. /\ cl \in Clients /\ Sound(cl) /\ (c \notin Rude => TakesTurns(cl))
      /\ client \in [Slots -> Clients] /\ open \in SUBSET Sockets
  BY DEF FtpInv, TypeOK, AllSound, AllTakeTurns
<1>2. /\ UNCHANGED <<order, open, srv>> /\ Attached(c)
      /\ \/ /\ client' = [client EXCEPT ![c].knock = TRUE] /\ MayKnock(c) /\ cl.conn = "listen"
            /\ srv.pc = "select" \/ srv.pc = "data"
         \/ \E what \in {"command", "hangup"} :
               /\ client' = [client EXCEPT ![c].inbox = what]
               /\ what = "hangup" \/ MaySend(c)
               /\ srv.pc = "select"
  BY DEF Peer, Send, Knock, Stalled
<1>. DEFINE Same(f) ==
              /\ f \in Clients
              /\ f.control = cl.control /\ f.data = cl.data /\ f.mode = cl.mode /\ f.auth = cl.auth
              /\ f.conn = cl.conn /\ f.asked = cl.asked /\ f.action = cl.action /\ f.handle = cl.handle
<1>3. /\ client' \in [Slots -> Clients] /\ client' = [client EXCEPT ![c] = e]
      /\ \A d \in Slots \ {c} : client'[d] = client[d]
      /\ Same(e)
  <2>1. CASE client' = [client EXCEPT ![c].knock = TRUE]
    <3>. DEFINE f == [cl EXCEPT !.knock = TRUE]
    <3>1. Same(f)
      BY <1>1 DEF Clients
    <3>2. client' = [client EXCEPT ![c] = f]
      BY <1>1, <2>1
    <3>. HIDE DEF f
    <3>. QED  BY <1>1, <3>1, <3>2
  <2>2. CASE \E what \in {"command", "hangup"} : client' = [client EXCEPT ![c].inbox = what]
    <3>1. PICK what \in {"command", "hangup"} : client' = [client EXCEPT ![c].inbox = what]
      BY <2>2
    <3>. DEFINE f == [cl EXCEPT !.inbox = what]
    <3>2. Same(f)
      BY <1>1 DEF Clients
    <3>3. client' = [client EXCEPT ![c] = f]
      BY <1>1, <3>1
    <3>. HIDE DEF f
    <3>. QED  BY <1>1, <3>2, <3>3
  <2>. QED  BY <1>2, <2>1, <2>2
<1>4. \/ /\ e.knock /\ e.inbox = cl.inbox /\ MayKnock(c) /\ cl.conn = "listen"
         /\ srv.pc = "select" \/ srv.pc = "data"
      \/ /\ e.knock = cl.knock /\ srv.pc = "select"
         /\ e.inbox = "hangup" \/ (e.inbox = "command" /\ MaySend(c))
  BY <1>1, <1>2 DEF Clients
<1>5. cl.control # NoSocket
  BY <1>2 DEF Attached
<1>. HIDE DEF e, cl
<1>6. Sound(e)
  BY <1>1, <1>3, <1>4, <1>5 DEF Sound
<1>7. c \notin Rude => TakesTurns(e)
  BY <1>1, <1>3, <1>4 DEF TakesTurns, MaySend, MayKnock, cl
<1>8. q \in States /\ Handled(c, q) /\ q.c = e /\ q.open = open
  BY <1>1, <1>2, <1>3 DEF States, Handled
<1>9. Apart(q, Others(c))
  <2>1. Apart(State(c), Others(c)) /\ State(c).c = cl /\ State(c).open = open
    BY <1>2, ClientBased DEF FtpInv, Based, State, cl
  <2>. QED  BY <1>3, <1>8, <2>1 DEF Apart, Own
<1>. HIDE DEF q
<1>10. /\ client' \in [Slots -> Clients] /\ open' \subseteq Sockets
       /\ SocketsOwned' /\ AllSound'
  BY <1>6, <1>8, <1>9, ClientStep DEF FtpInv
<1>11. AllTakeTurns'
  BY <1>3, <1>7 DEF AllTakeTurns, FtpInv, e
<1>12. Connected' = Connected
  BY <1>3 DEF Connected, Attached, e, cl
<1>13. ListSound'
  BY <1>2, <1>12 DEF FtpInv, ListSound
<1>14. ServerSound'
  <2>1. srv' = srv /\ (srv.pc = "select" <=> srv.todo = <<>>)
    BY <1>2 DEF FtpInv, ServerSound
  <2>2. CASE srv.pc = "select"
    BY <2>1, <2>2 DEF ServerSound
  <2>3. CASE srv.pc = "data" /\ e.inbox = cl.inbox
    <3>1. Current \in Slots /\ srv.todo \in Seq(Slots)
      BY <2>3, TurnFacts
    <3>2. \A d \in Slots : /\ client'[d].control = client[d].control
                           /\ client'[d].inbox = client[d].inbox
                           /\ Event(client'[d], srv.r, srv.w) = Event(client[d], srv.r, srv.w)
      BY <1>3, <2>3 DEF e, cl, Event, Writing, Reading
    <3>3. \A i \in DOMAIN srv.todo : srv.todo[i] \in Slots
      BY <3>1, LenProperties
    <3>. QED  BY <2>1, <2>3, <3>1, <3>2, <3>3 DEF FtpInv, ServerSound, Current
  <2>. QED  BY <1>4, <2>2, <2>3
<1>. QED  BY <1>2, <1>3, <1>10, <1>11, <1>13, <1>14 DEF FtpInv, TypeOK, e, cl

LEMMA InitKeeps ==
    ASSUME Init
    PROVE  FtpInv
<1>1. client \in [Slots -> Clients] /\ \A c \in Slots : client[c] = FreeClient
  BY FreeClientSound DEF Init
<1>2. /\ order = <<>> /\ open = {} /\ srv = Idle
      /\ srv.todo = <<>> /\ srv.pc = "select" /\ srv \in Traversals
  BY DEF Init, Idle, Traversals
<1>3. \A c \in Slots : Owned(c) = {} /\ ~Attached(c)
  BY <1>1 DEF Owned, Attached, FreeClient
<1>4. SocketsOwned
  BY <1>3 DEF SocketsOwned
<1>5. ListSound
  <2>1. Connected = {} /\ ToSet(<<>>) = {} /\ IsInjective(<<>>)
    BY <1>3 DEF Connected, ToSet, IsInjective
  <2>2. RestOf(<<>>, <<>>)
    <3>. DEFINE e == <<>>
    <3>1. Len(e) = 0 /\ e \in Seq(Slots)
      OBVIOUS
    <3>. HIDE DEF e
    <3>2. 0 \in 0 .. Len(e) /\ Len(e) = Len(e) - 0 /\ \A i \in 1 .. Len(e) : e[i] = e[0 + i]
      BY <3>1
    <3>3. RestOf(e, e)
      BY <3>1, <3>2, RestIff
    <3>. QED  BY <3>3 DEF e
  <2>. QED  BY <1>2, <2>1, <2>2 DEF ListSound
<1>6. AllSound /\ AllTakeTurns
  BY <1>1, FreeClientSound DEF AllSound, AllTakeTurns
<1>7. ServerSound
  BY <1>2 DEF ServerSound
<1>. QED  BY <1>1, <1>2, <1>4, <1>5, <1>6, <1>7 DEF FtpInv, TypeOK, Traversals

LEMMA StepKeeps ==
    ASSUME FtpInv, [Next]_vars
    PROVE  FtpInv'
<1>1. CASE Select
  BY <1>1, SelectKeeps
<1>2. CASE HandleControl
  BY <1>2, HandleControlKeeps
<1>3. CASE HandleData
  BY <1>3, HandleDataKeeps
<1>4. CASE \E c \in Slots : Peer(c)
  BY <1>4, PeerKeeps
<1>5. CASE UNCHANGED vars
  BY <1>5 DEF vars, FtpInv, TypeOK, SocketsOwned, ListSound, AllSound, AllTakeTurns,
              ServerSound, Owned, Attached, Connected, Current
<1>. QED  BY <1>1, <1>2, <1>3, <1>4, <1>5 DEF Next, Server

------------------------------------------------------------------------------
(* Theorems *)

\* The inductive invariant holds.
THEOREM FtpInvariant == Spec => []FtpInv
BY InitKeeps, StepKeeps, PTL DEF Spec

\* Types; among them that wrong passwords are counted no further than to
\* MaxAttempts (WrongPassword) and every descriptor handed out is one the stack has.
THEOREM FtpTypeCorrect == Spec => []TypeOK
<1>1. FtpInv => TypeOK
  BY DEF FtpInv
<1>. QED  BY <1>1, FtpInvariant, PTL

\* No descriptor is ever used by two clients, used after it was closed, or used
\* both as a control and as a data connection (OnDataConnect, OnCmdPasv,
\* AcceptData, Destroyed), whatever the peers send and whatever fails.
THEOREM SocketsStayOwned == Spec => []SocketsOwned
<1>1. FtpInv => SocketsOwned
  BY DEF FtpInv
<1>. QED  BY <1>1, FtpInvariant, PTL

\* m_kClients holds each attached client once and the traversal's next pointer
\* stays in it, though clients are created and destroyed during a traversal
\* (FtpServer_HandleEvents, Detach).
THEOREM ListStaysSound == Spec => []ListSound
<1>1. FtpInv => ListSound
  BY DEF FtpInv
<1>. QED  BY <1>1, FtpInvariant, PTL

\* Data is transferred only for a transfer that was asked for and has not ended,
\* for every client whose peer takes turns, whatever the other peers do
\* (OnDataConnected, OnDataCleanup).
THEOREM DataOnlyIfAskedFor == Spec => []TransferAskedFor
<1>1. FtpInv => TransferAskedFor
  BY DEF FtpInv, AllTakeTurns, TakesTurns, TransferAskedFor
<1>. QED  BY <1>1, FtpInvariant, PTL

\* EndsWhatWasAsked for one client.
Ended(c) ==
    Completes(c)
    => client[c].action = client[c].asked /\ client[c].handle \in Fitting(client[c].asked)

\* "226" ends the transfer that was asked for, with its file or directory still
\* open (OnDataComplete, OnDataRead, OnDataWrite).
THEOREM EndsOnlyWhatWasAsked == Spec => EndsWhatWasAsked
<1>1. ASSUME FtpInv, [Next]_vars, NEW c \in Slots \ Rude
      PROVE  Ended(c)
  <2>1. SUFFICES ASSUME Completes(c)
                 PROVE  client[c].action = client[c].asked /\ client[c].handle \in Fitting(client[c].asked)
    BY DEF Ended
  <2>2. srv.pc = "data" /\ client'[c] # client[c]
    BY <2>1 DEF Completes
  <2>3. ~Select /\ ~HandleControl /\ ~UNCHANGED vars
    BY <2>2 DEF Select, HandleControl, vars
  <2>4. ASSUME NEW d \in Slots, Peer(d) PROVE FALSE
    BY <1>1, <2>1, <2>2, <2>4, PeerKeeps DEF Completes
  <2>5. HandleData
    BY <1>1, <2>3, <2>4 DEF Next, Server
  <2>6. PICK q \in OnDataEvent(State(Current), Event(client[Current], srv.r, srv.w)) :
          Handled(Current, q)
    BY <2>5 DEF HandleData
  <2>7. ~Stalled
    BY <2>5 DEF HandleData
  <2>8. /\ Current \in Slots /\ State(Current).c = client[Current]
        /\ client[Current].data # NoSocket /\ q.c.data = NoSocket /\ q.c.action # "none"
           => client[Current].mode # "idle"
    BY <1>1, <2>2, <2>6, <2>7, DataFacts
  <2>9. client'[Current] = q.c /\ \A d \in Slots \ {Current} : client'[d] = client[d]
    BY <1>1, <2>6, <2>8 DEF Handled, FtpInv, TypeOK
  <2>10. c = Current
    BY <2>2, <2>9
  <2>11. client[c].mode # "idle"
    BY <2>1, <2>8, <2>9, <2>10 DEF Completes
  <2>. QED  BY <1>1, <2>11 DEF FtpInv, AllTakeTurns, TakesTurns
<1>2. FtpInv /\ [Next]_vars => \A c \in Slots \ Rude : Ended(c)
  BY <1>1
<1>3. (\A c \in Slots \ Rude : Ended(c)) <=>
      \A c \in Slots \ Rude :
          Completes(c)
          => /\ client[c].action = client[c].asked
             /\ client[c].handle \in Fitting(client[c].asked)
  BY DEF Ended
<1>. QED  BY <1>2, <1>3, FtpInvariant, PTL DEF Spec, EndsWhatWasAsked

------------------------------------------------------------------------------
(* The refinement of FtpSessions *)

\* How a session may change.
Moves == {<<"free", "greeted">>, <<"greeted", "loggedIn">>, <<"loggedIn", "transferring">>,
          <<"transferring", "loggedIn">>, <<"greeted", "free">>, <<"loggedIn", "free">>,
          <<"transferring", "free">>}

SessionStep == Sessions!Next \/ UNCHANGED [c \in Slots |-> Session(client[c])]

LEMMA OneMoves ==
    ASSUME NEW c \in Slots, \A d \in Slots \ {c} : client'[d] = client[d],
           \/ Session(client'[c]) = Session(client[c])
           \/ <<Session(client[c]), Session(client'[c])>> \in Moves
    PROVE  SessionStep
<1>. DEFINE old == [d \in Slots |-> Session(client[d])]
            new == [d \in Slots |-> Session(client'[d])]
<1>1. \A d \in Slots \ {c} : Session(client'[d]) = Session(client[d])
  OBVIOUS
<1>2. CASE Session(client'[c]) = Session(client[c])
  <2>1. new = old
    BY <1>1, <1>2
  <2>. QED  BY <2>1 DEF SessionStep
<1>3. CASE <<Session(client[c]), Session(client'[c])>> \in Moves
  <2>. DEFINE from == Session(client[c])
              to == Session(client'[c])
  <2>1. old[c] = from /\ new = [old EXCEPT ![c] = to]
    BY <1>1
  <2>2. <<from, to>> \in Moves
    BY <1>3
  <2>. HIDE DEF from, to
  <2>3. \/ from \in {"free"} /\ to = "greeted"
        \/ from \in {"greeted"} /\ to = "loggedIn"
        \/ from \in {"loggedIn"} /\ to = "transferring"
        \/ from \in {"transferring"} /\ to = "loggedIn"
        \/ from \in {"greeted", "loggedIn", "transferring"} /\ to = "free"
    BY <2>2 DEF Moves
  <2>4. \E d \in Slots : \/ old[d] \in {"free"} /\ new = [old EXCEPT ![d] = "greeted"]
                         \/ old[d] \in {"greeted"} /\ new = [old EXCEPT ![d] = "loggedIn"]
                         \/ old[d] \in {"loggedIn"} /\ new = [old EXCEPT ![d] = "transferring"]
                         \/ old[d] \in {"transferring"} /\ new = [old EXCEPT ![d] = "loggedIn"]
                         \/ old[d] \in {"greeted", "loggedIn", "transferring"} /\ new = [old EXCEPT ![d] = "free"]
    <3>. HIDE DEF old, new
    <3>. QED  BY <2>1, <2>3
  <2>. QED  BY <2>4 DEF SessionStep, Sessions!Next, Sessions!Step, Sessions!Connect, Sessions!Login,
                        Sessions!Begin, Sessions!Finish, Sessions!Leave
<1>. QED  BY <1>2, <1>3

LEMMA StepRefines ==
    ASSUME FtpInv, [Next]_vars
    PROVE  SessionStep
<1>0. client \in [Slots -> Clients]
  BY DEF FtpInv, TypeOK
<1>1. ASSUME NEW q, Handled(Current, q), Obeys(State(Current), q), Current \in Slots, Attached(Current),
             q \in States
      PROVE  SessionStep
  <2>1. /\ client'[Current] = q.c /\ \A d \in Slots \ {Current} : client'[d] = client[d]
        /\ State(Current).c = client[Current] /\ client[Current].control # NoSocket
    BY <1>0, <1>1 DEF Handled, State, Attached
  <2>2. \/ Session(client'[Current]) = Session(client[Current])
        \/ <<Session(client[Current]), Session(client'[Current])>> \in Moves
    <3>1. CASE q.c = FreeClient
      BY <2>1, <3>1 DEF Session, FreeClient, Moves
    <3>2. CASE q.c # FreeClient
      BY <1>1, <2>1, <3>2 DEF Session, Obeys, Moves
    <3>. QED  BY <3>1, <3>2
  <2>. QED  BY <1>1, <2>1, <2>2, OneMoves
<1>2. CASE HandleControl
  <2>1. PICK q \in Received(Current) : Handled(Current, q)
    BY <1>2 DEF HandleControl
  <2>2. srv.pc = "control"
    BY <1>2 DEF HandleControl
  <2>. QED  BY <1>1, <2>1, <2>2, ControlServed, TurnFacts
<1>3. CASE HandleData
  <2>1. PICK q \in OnDataEvent(State(Current), Event(client[Current], srv.r, srv.w)) :
          Handled(Current, q)
    BY <1>3 DEF HandleData
  <2>2. srv.pc = "data" /\ ~Stalled
    BY <1>3 DEF HandleData
  <2>3. /\ DataFine(State(Current), q, Others(Current)) /\ State(Current).c.auth = "valid"
        /\ Current \in Slots /\ Attached(Current)
    BY <2>2, DataFacts
  <2>4. Obeys(State(Current), q) /\ q \in States
    BY <2>3 DEF DataFine, Keeps, Obeys
  <2>. QED  BY <1>1, <2>1, <2>3, <2>4
<1>4. CASE UNCHANGED client
  BY <1>4 DEF SessionStep
<1>5. CASE Select /\ ~UNCHANGED client
  <2>1. ~Exhausted(open) /\ \E c \in Slots : OnClientConnect(c)
    BY <1>5 DEF Select, Accept
  <2>2. PICK c \in Slots : OnClientConnect(c)
    BY <2>1
  <2>3. /\ client[c] = FreeClient /\ client'[c].control \in Sockets \ open
        /\ client'[c].auth = "invalid"
        /\ \A d \in Slots \ {c} : client'[d] = client[d]
    BY <2>1, <2>2, ConnectSound
  <2>4. Session(client[c]) = "free" /\ Session(client'[c]) = "greeted"
    BY <2>3, FtpAssumption DEF Session, FreeClient
  <2>5. <<Session(client[c]), Session(client'[c])>> \in Moves
    BY <2>4 DEF Moves
  <2>. QED  BY <2>3, <2>5, OneMoves
<1>6. ASSUME NEW c \in Slots, Peer(c) PROVE SessionStep
  <2>1. /\ client'[c].control = client[c].control /\ client'[c].auth = client[c].auth
        /\ client'[c].mode = client[c].mode
        /\ \A d \in Slots \ {c} : client'[d] = client[d]
    BY <1>6, PeerKeeps
  <2>2. Session(client'[c]) = Session(client[c])
    BY <2>1 DEF Session
  <2>. QED  BY <2>1, <2>2, OneMoves
<1>. QED  BY <1>2, <1>3, <1>4, <1>5, <1>6 DEF Next, Server, vars

\* Every run of the server is a run of FtpSessions: one session changes at a time,
\* and nothing is transferred before the login (OnCommand, OnClientConnect).
THEOREM RefinesSessions == Spec => ImplementsSessions
<1>1. Init => Sessions!Init
  BY DEF Init, Sessions!Init, Session, FreeClient
<1>2. FtpInv /\ [Next]_vars => [Sessions!Next]_([c \in Slots |-> Session(client[c])])
  BY StepRefines DEF SessionStep
<1>. QED  BY <1>1, <1>2, FtpInvariant, PTL DEF Spec, ImplementsSessions, Sessions!Spec
=============================================================================
