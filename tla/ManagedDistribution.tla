-------------------------- MODULE ManagedDistribution --------------------------
(***************************************************************************)
(* What the manager promises of the sites (CloudFront distributions) it    *)
(* keeps for its owners (Distribution objects), with nothing said of how:  *)
(* no caches, queues, passes, calls, retries or records of ids.            *)
(* DistributionRefinement shows that DistributionController implements it. *)
(***************************************************************************)
CONSTANTS
    Owners,     \* those who may want a site
    Sites,      \* the sites that can be made
    Wishes,     \* what a site can be asked to serve
    Nobody,     \* the owner of a site not made yet
    Nothing     \* what such a site serves

VARIABLES
    wanted,     \* what each owner wants: a wish, to be rid of its site, or it is gone
    site,
    ready,      \* the owners told that their wish is served
    unmanaged   \* the manager looks at an owner that no provider serves

vars == <<wanted, site, ready, unmanaged>>

Unused == [state |-> "unused", on |-> FALSE, owner |-> Nobody, serves |-> Nothing]

Exists(s) == site[s].state \in {"rolling", "settled"}

\* Every site is made new or stays what it is, but for s.
Becomes(s, new) == site' = [site EXCEPT ![s] = new]

Init == /\ wanted \in [Owners -> Wishes]
        /\ site = [s \in Sites |-> Unused]
        /\ ready = {}
        /\ unmanaged = FALSE

-----------------------------------------------------------------------------
(* The owner                                                                *)

Wish(o) == /\ wanted[o] \in Wishes
           /\ \E w \in Wishes : wanted' = [wanted EXCEPT ![o] = w]
           /\ UNCHANGED <<site, ready>>

\* An owner changes its mind, or is gone at once if the manager never saw it.
Renounce(o) == /\ wanted[o] \in Wishes
               /\ \E end \in {"doomed", "gone"} : wanted' = [wanted EXCEPT ![o] = end]
               /\ ready' = ready \ {o}
               /\ UNCHANGED site

Vanish(o) == /\ wanted[o] = "doomed"
             /\ wanted' = [wanted EXCEPT ![o] = "gone"]
             /\ UNCHANGED <<site, ready>>

-----------------------------------------------------------------------------
(* Its site                                                                 *)

\* An owner has one site at a time.
Provide(s, o) == /\ site[s].state = "unused"
                 /\ \A t \in Sites : Exists(t) => site[t].owner # o
                 /\ \E w \in Wishes : Becomes(s, [state |-> "rolling", on |-> TRUE,
                                                  owner |-> o, serves |-> w])
                 /\ UNCHANGED <<wanted, ready>>

Configure(s) == /\ Exists(s)
                /\ \E w \in Wishes : Becomes(s, [state |-> "rolling", on |-> TRUE,
                                                 owner |-> site[s].owner, serves |-> w])
                /\ UNCHANGED <<wanted, ready>>

RollOut(s) == /\ site[s].state = "rolling"
              /\ Becomes(s, [site[s] EXCEPT !.state = "settled"])
              /\ UNCHANGED <<wanted, ready>>

\* No site is turned off or removed under an owner who wants it.
Abandoned(s) == wanted[site[s].owner] \in {"doomed", "gone"}

TurnOff(s) == /\ Exists(s) /\ Abandoned(s)
              /\ Becomes(s, [state |-> "rolling", on |-> FALSE,
                             owner |-> site[s].owner, serves |-> site[s].serves])
              /\ UNCHANGED <<wanted, ready>>

\* Only a site at rest, and off, is removed.
Remove(s) == /\ site[s].state = "settled" /\ ~site[s].on
             /\ Abandoned(s)
             /\ Becomes(s, [site[s] EXCEPT !.state = "gone"])
             /\ UNCHANGED <<wanted, ready>>

-----------------------------------------------------------------------------
(* What the owner is told                                                   *)

\* The wish o has now is served, all over the world.
Fulfilled(o) == \E s \in Sites : /\ site[s].owner = o
                                 /\ site[s].state = "settled" /\ site[s].on
                                 /\ site[s].serves = wanted[o]

Announce(o) == /\ wanted[o] \in Wishes
               /\ Fulfilled(o) \/ unmanaged
               /\ ready' = ready \cup {o}
               /\ UNCHANGED <<wanted, site>>

Retract(o) == /\ ready' = ready \ {o}
              /\ UNCHANGED <<wanted, site>>

-----------------------------------------------------------------------------

\* A look at another owner, or none.
Look == UNCHANGED <<wanted, site, ready>>

Next == /\ \/ \E o \in Owners : \/ Wish(o) \/ Renounce(o) \/ Vanish(o)
                                \/ Announce(o) \/ Retract(o)
           \/ \E s \in Sites, o \in Owners : Provide(s, o)
           \/ \E s \in Sites : Configure(s) \/ RollOut(s) \/ TurnOff(s) \/ Remove(s)
           \/ Look
        /\ unmanaged' \in BOOLEAN

Spec == Init /\ [][Next]_vars
=============================================================================
