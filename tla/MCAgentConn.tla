----------------------------- MODULE MCAgentConn -----------------------------
(* The agent's connection (AgentConn), what the connection object owns       *)
(* (ConnApi), what becomes of a message on the wire (Wire), and how frames   *)
(* are received (PbStream).  They share no state here; a behaviour is about  *)
(* one part, and the others stay in their initial states.                    *)
EXTENDS AgentConn, ConnApi, Wire, PbStream

(* Lists of one and of two messages of different lengths, and of none. *)
SomeLists == {<<>>, <<<<11, 12, 13>>>>, <<<<21, 22>>, <<31, 32>>>>}

VARIABLE part  \* whose behaviour it is

Parts == {"sending", "receiving", "object", "wire"}

all == <<part, vars, object, frame, reception>>

AgentInit == part \in Parts /\ Init /\ ObjectInit /\ WireInit /\ StreamInit

Sending(A) == part = "sending" /\ A /\ UNCHANGED <<part, object, frame, reception>>
Receiving(A) == part = "receiving" /\ A /\ UNCHANGED <<part, vars, object, frame>>

AgentNext ==
    \/ Sending(Next)
    \/ Receiving(StreamNext)
    \/ part = "object" /\ ObjectNext /\ UNCHANGED <<part, vars, frame, reception>>
    \/ part = "wire" /\ WireNext /\ UNCHANGED <<part, vars, object, reception>>

(* conn_thread is scheduled, and what was sent arrives in the end. *)
AgentSpec ==
    /\ AgentInit /\ [][AgentNext]_all
    /\ WF_all(Sending(Thread))
    /\ WF_all(Receiving(Receiver))
    /\ WF_all(Receiving(Network))
=============================================================================
