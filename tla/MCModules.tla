----------------------------- MODULE MCModules -----------------------------
(* The agent beside its connection: the device database, starting and       *)
(* stopping the capture module, with two interfaces and three captures one  *)
(* after another, and the options of a module, one of which selects the     *)
(* interface.  The three share no state here; a behaviour is about one of   *)
(* them, and the others stay in their initial states.                       *)
EXTENDS MCDevdb, EthcapLife, Options

VARIABLE part  \* whose behaviour it is

(* An option of every type, keys with a hint and without. *)
Kind(hint, name, type, choices) == [hint |-> hint, name |-> name, type |-> type, choices |-> choices]

KindsMade ==
    {Kind("", "netif", "single", <<"eth0", "eth1">>), Kind("", "layers", "multi", <<"eth0", "eth1">>),
     Kind("mdns", "service-name", "text", <<>>), Kind("", "promisc", "switch", <<>>),
     Kind("dev-ipaddr", "ipaddr", "number", <<>>)}

ModulesInit ==
    /\ part \in {"devdb", "capture", "options"}
    /\ MCInit /\ LifeInit /\ OptionsInit
    /\ part # "devdb" => about = "races"

ModulesNext ==
    /\ UNCHANGED part
    /\ \/ part = "devdb" /\ MCNext /\ UNCHANGED <<life, settings>>
       \/ part = "capture" /\ LifeNext /\ UNCHANGED <<vars, about, settings>>
       \/ part = "options" /\ OptionsNext /\ UNCHANGED <<vars, about, life>>

ModulesSpec == ModulesInit /\ [][ModulesNext]_<<part, vars, about, life, settings>>
=============================================================================
