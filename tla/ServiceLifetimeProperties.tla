---------------------- MODULE ServiceLifetimeProperties ----------------------
(***************************************************************************)
(* What contending services may rely on.                                   *)
(***************************************************************************)
EXTENDS ServiceLifetime

\* Every variable has its type.
LifeTypeOK ==
  /\ stage \in [Services -> {"new", "locked", "unmarked", "marking", "owner",
                             "listening", "serving", "disposing", "refused",
                             "gone"}]
  /\ \A s \in Services : Len(remaining[s]) <= 6
  /\ {holder, discovery} \subseteq Services \union {NoService}
  /\ marker \in Services \union {NoService, "torn"}
  /\ announced \subseteq Services
  /\ working \subseteq Services

\* Only the service that holds the home has its store open or an operation
\* under way, through every start, failure, disposal and crash of the others.
SoleOwner ==
  \A s \in Services :
    s \in working \/ stage[s] \in {"owner", "listening", "serving"}
      => holder = s

\* A client that reads service.json while a service serves finds that service:
\* no contender and no predecessor that is still stopping removes its file.
DiscoveryIsCurrent ==
  \A s \in Services : stage[s] = "serving" => discovery = s

\* A start is refused only for the sake of another service that holds the home,
\* not for what one that let it go has left behind.
RefusedForAnOwner ==
  [][\A s \in Services :
       stage'[s] = "refused" /\ stage[s] # "refused"
         => holder \in Services \ {s}]_lifeVars

=============================================================================
