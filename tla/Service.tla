------------------------------ MODULE Service ------------------------------
(***************************************************************************)
(* What include/ipc.h promises a client, whatever the transport: after     *)
(* ipc_connect, every ipc_receive returns the answer to the command sent   *)
(* last with ipc_send.  A command is told from the one before by a bit.    *)
(* The transport may lose a connection; from then on nothing is promised.  *)
(***************************************************************************)
EXTENDS Integers

CONSTANT Client

VARIABLES
    phase,   \* phase[c]: where client c is
    asked,   \* asked[c]: the bit of its last command
    heard    \* heard[c]: the bit of the command its last answer belongs to

serviceVars == <<phase, asked, heard>>

To(c, p) == phase' = [phase EXCEPT ![c] = p]

Connect(c) ==
    /\ phase[c] = "out"
    /\ To(c, "idle")
    /\ UNCHANGED <<asked, heard>>

Ask(c) ==
    /\ phase[c] = "idle"
    /\ To(c, "waiting")
    /\ asked' = [asked EXCEPT ![c] = 1 - @]
    /\ UNCHANGED heard

Take(c) ==
    /\ phase[c] = "waiting"
    /\ To(c, "idle")
    /\ heard' = [heard EXCEPT ![c] = asked[c]]
    /\ UNCHANGED asked

\* The connection of some clients is lost, and what they ask and hear has no
\* meaning any more; some processes end.  The others notice nothing.
Loss ==
    \A c \in Client :
        \/ phase[c] # "left" /\ phase'[c] \in {"lost", "left"}
        \/ /\ phase'[c] = phase[c]
           /\ asked'[c] = asked[c]
           /\ heard'[c] = heard[c]

ServiceInit ==
    /\ phase = [c \in Client |-> "out"]
    /\ asked = [c \in Client |-> 0]
    /\ heard = [c \in Client |-> 0]

ServiceNext == Loss \/ \E c \in Client : Connect(c) \/ Ask(c) \/ Take(c)

ServiceSpec == ServiceInit /\ [][ServiceNext]_serviceVars
============================================================================
