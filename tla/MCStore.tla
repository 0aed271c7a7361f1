------------------------------ MODULE MCStore ------------------------------
(* Instances of Store: two handlers that persist values of one topic.       *)
EXTENDS Store

CONSTANTS h1, h2, v1, v2

OneTopic == {"/a_b"}
OneLike == [t \in OneTopic |-> {t}]
Persists ==
    {<<[type |-> "PUB", mode |-> "PERSIST", topic |-> "/a_b", value |-> v, created_at |-> n]>> :
        v \in {v1, v2}, n \in {1, 2}}
EmptyTable == {{}}
=============================================================================
