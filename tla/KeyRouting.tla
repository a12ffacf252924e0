------------------------------ MODULE KeyRouting ------------------------------
(***************************************************************************)
(* What an API key routes to, and how an operation on it cleans what it    *)
(* was given: the route it is bound to, the backups behind that route's    *)
(* provider, the backup it has failed over to, and its named profiles.     *)
(*                                                                         *)
(* A route is kept by name and looked up in the list of routes each time;  *)
(* the order of the backups and their model overrides are left out.        *)
(***************************************************************************)
EXTENDS Naturals, Sequences

CONSTANTS Provider, Route, Profile,
          None \* the empty string: no route, no provider, no profile

Routing == [route : Route \cup {None}, backups : SUBSET Provider]

NoKey == [gone |-> TRUE]

Key == [route : Route \cup {None}, backups : SUBSET Provider,
        active : Provider \cup {None},
        profiles : Seq([id : Profile, route : Route \cup {None},
                        backups : SUBSET Provider]),
        current : Profile \cup {None}]

ProviderOf(routes, r) ==
    IF \E i \in DOMAIN routes : routes[i].id = r
      THEN routes[CHOOSE i \in DOMAIN routes : routes[i].id = r].provider
      ELSE None

HasRoute(routes, r) == \E i \in DOMAIN routes : routes[i].id = r

Backups(backups, preferred) == backups \ {preferred}

Sanitized(active, preferred, backups) ==
    IF active \in backups \ {preferred} THEN active ELSE None

ProfileIds(k) == {k.profiles[i].id : i \in DOMAIN k.profiles}

Scheme(k, id) == [id |-> id, route |-> k.route, backups |-> k.backups]

NormalProfile(routes, id, routing) ==
    [id |-> id, route |-> routing.route,
     backups |-> Backups(routing.backups, ProviderOf(routes, routing.route))]

\* The profile's routing becomes the key's, whether or not its route and its
\* backups still exist.
Activated(routes, k, i) ==
    LET p == k.profiles[i]
    IN  [k EXCEPT !.route = p.route,
                  !.backups = Backups(p.backups, ProviderOf(routes, p.route)),
                  !.active = None,
                  !.current = p.id]

\* The patch of the console's key form. An absent route keeps the one there is.
Patched(routes, k, routing) ==
    LET route == IF routing.route = None THEN k.route ELSE routing.route
        preferred == ProviderOf(routes, route)
        backups == Backups(routing.backups, preferred)
        edited == [k EXCEPT !.route = route, !.backups = backups,
                            !.active = Sanitized(@, preferred, backups)]
    IN  [edited EXCEPT !.profiles =
            [i \in DOMAIN @ |-> IF @[i].id = k.current
                                  THEN Scheme(edited, k.current) ELSE @[i]]]

\* What DeleteProvider takes out of a key; the profiles keep it.
Forgotten(k, p, removed) ==
    [k EXCEPT !.route = IF @ \in removed THEN None ELSE @,
              !.active = IF @ = p THEN None ELSE @,
              !.backups = @ \ {p}]
=============================================================================
