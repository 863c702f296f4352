-------------------------- MODULE MCSchemaSettings --------------------------
(***************************************************************************)
(* Two users with a session each, two requests at a time.  OneAtATime      *)
(* keeps the product of parts that do not touch each other out of the      *)
(* search: a state in which two stores are in use, or a store and the      *)
(* token cache, is checked and not explored further.                       *)
(***************************************************************************)
EXTENDS SchemaSettings, FiniteSets, TLC

CONSTANTS alice, bob, t1, t2

MCUser == {alice, bob}
MCToken == {t1, t2}
MCSub == (t1 :> alice) @@ (t2 :> bob)

\* The stores that hold something or that a request is in the middle of.
Touched ==
    {n \in Doc : \/ \E u \in User : doc[n][u] # Default
                 \/ \E r \in Request : At(r, "docPut") /\ req[r].name = n}
    \cup {s \in {"rules"} : usedRules # {}}
    \cup {s \in {"qos"} : \/ qos # NoRow \/ qosRules # {}
                          \/ \E r \in Request : At(r, "qosSelect")}
    \cup {s \in {"profile"} : \E p \in Profile : profile[p] # NoRow}

OneAtATime ==
    /\ Cardinality(Touched) <= 1
    /\ Touched # {} => valid = Token /\ cached = {}

\* The endpoints that answer with what they were sent leave no field of it out
\* (nulls apart, and a private key is withheld).
ASSUME EchoesAreComplete ==
    \A op \in EchoRoutes : \A b \in DOMAIN MockRoutes[op] :
        LET answer == MockRoutes[op][b] IN
        answer.code \in {200, 201} =>
            b.sent \ (b.nulls \cup {"private_key"}) \subseteq answer.kept

Symmetry == Permutations(Request)
=============================================================================
