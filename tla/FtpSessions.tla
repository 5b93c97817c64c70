----------------------------- MODULE FtpSessions -----------------------------
(***************************************************************************)
(* What ps2ftpd promises about its sessions: a connection takes a free     *)
(* slot, has to log in before anything is transferred for it, runs at most *)
(* one transfer at a time, and gives its slot back when it leaves.         *)
(***************************************************************************)
CONSTANT Slots

VARIABLE session        \* what each slot of m_kClientArray is used for

Init == session = [c \in Slots |-> "free"]

Step(c, from, to) ==
    /\ session[c] \in from
    /\ session' = [session EXCEPT ![c] = to]

Connect(c) == Step(c, {"free"}, "greeted")
Login(c) == Step(c, {"greeted"}, "loggedIn")
Begin(c) == Step(c, {"loggedIn"}, "transferring")
Finish(c) == Step(c, {"transferring"}, "loggedIn")
Leave(c) == Step(c, {"greeted", "loggedIn", "transferring"}, "free")

Next == \E c \in Slots : Connect(c) \/ Login(c) \/ Begin(c) \/ Finish(c) \/ Leave(c)

Spec == Init /\ [][Next]_session
=============================================================================
