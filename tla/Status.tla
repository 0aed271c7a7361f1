------------------------------- MODULE Status -------------------------------
(***************************************************************************)
(* What the broker makes of the status of agents.  When it gets online, an *)
(* agent retains Online in its status topic and sets a last will that      *)
(* turns it to Offline (conn_online in netfind-agent's main.c), in one     *)
(* frame (AgentConn).  Other clients, observers for instance, may send     *)
(* whatever does not claim to be an agent.                                 *)
(***************************************************************************)
EXTENDS Broker

CONSTANTS
    StatusTopic,     \* topics in which agents are online or offline
    Online, Offline  \* the two values of such a topic

OfflineWill(t) == [topic |-> t, value |-> Offline]

LastWill(f) == f.lwt[Len(f.lwt)]

(* The will that counts in frame f is that of the agent with status topic t. *)
Announces(f, t) == f.lwt # <<>> /\ LastWill(f) = OfflineWill(t)

RetainsOnline(m, t) == m.type = "PUB" /\ m.mode = "RETAIN" /\ m.pat = t /\ m.value = Online

ASSUME StatusType == StatusTopic \subseteq Topic /\ {Online, Offline} \subseteq Value /\ Online # Offline

(* The agent's part: Online comes with the will, the client of a connection  *)
(* sets the same will every time, and nobody's will is to be online.         *)
ASSUME OnlineHasWill ==
    \A c \in Conn : \A f \in Frames[c], t \in StatusTopic :
        (\E i \in DOMAIN f.pubdel : RetainsOnline(f.pubdel[i], t)) => Announces(f, t)
ASSUME OneWill ==
    \A c \in Conn : \A f, g \in Frames[c] : f.lwt # <<>> /\ g.lwt # <<>> => LastWill(f) = LastWill(g)
ASSUME NoOnlineWill ==
    \A c \in Conn : \A f \in Frames[c], t \in StatusTopic :
        \A i \in DOMAIN f.lwt : f.lwt[i] # [topic |-> t, value |-> Online]

-----------------------------------------------------------------------------
(* Handler c stands for the online status of t: it has the will, is on the   *)
(* way from the publication to the will, or is about to retain the will.     *)
Guards(c, t) ==
    \/ lwt[c] = OfflineWill(t)
    \/ pc[c] \in Publishing \cup Requesting \cup {"lwt"} /\ Announces(frame[c], t)
    \/ final[c] /\ pc[c] = "save" /\ k[c] = 1 /\ frame[c] = WillFrame(OfflineWill(t))

(* An exception ended handler c before it got to the will of the frame       *)
(* (websocket.py handles LWT after everything else).                         *)
GaveUp(c, t) == pc[c] \in Teardown \cup {"end", "done"} /\ ~final[c] /\ Announces(frame[c], t)

(* While the broker retains "online" for an agent, the handler of some       *)
(* connection stands for it and will turn it into "offline", whatever others *)
(* publish, delete and tear down meanwhile; the only exception is a frame    *)
(* that an exception kept from getting to its will.                          *)
OnlineIsGuarded ==
    \A t \in StatusTopic : cache[t] = Online => \E c \in Conn : Guards(c, t) \/ GaveUp(c, t)

(* main.c: "publish current status as online"; so when no handler has work   *)
(* left, an agent with an open connection is retained as online.             *)
Idle(c) == pc[c] \in {"recv", "done"}
OpenAgentIsOnline ==
    (\A c \in Conn : Idle(c)) =>
        \A c \in Conn, t \in StatusTopic :
            pc[c] = "recv" /\ ws[c] = "open" /\ lwt[c] = OfflineWill(t) => cache[t] = Online
=============================================================================
