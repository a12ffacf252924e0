-------------------------------- MODULE Config --------------------------------
(***************************************************************************)
(* The configuration: the providers, the routes and an API key, as the     *)
(* router holds them in memory and as the database holds them.             *)
(*                                                                         *)
(* A console request changes the router under its lock and persists the    *)
(* change afterwards, outside it: providers and routes as one rewrite of   *)
(* both tables from a snapshot, a key as one row. A renewed token and a    *)
(* key's failover position are written by other goroutines meanwhile. The  *)
(* snapshot is a copy of the slice headers: it shares its rows with the    *)
(* router until an append moves them.                                      *)
(***************************************************************************)
EXTENDS KeyRouting, FiniteSets, SequencesExt, Lists

CONSTANTS Console,    \* console requests that may be under way at once
          MaxToken,   \* bound: tokens renewed
          MaxRequests, \* bound: console requests that change something
          MaxMoves,   \* bound: moves of the key by traffic and recovery
          MaxFaults,  \* bound: writes the database refuses, and restarts
          Asked       \* the routings a console request may carry

ASSUME ConfigAssumption ==
    /\ IsFiniteSet(Provider) /\ None \notin Provider \cup Route \cup Profile
    /\ MaxToken \in Nat /\ MaxRequests \in Nat /\ MaxMoves \in Nat
    /\ MaxFaults \in Nat /\ Asked \subseteq Routing
    /\ {"traffic", "renewal"} \cap Console = {}

VARIABLES providers, \* Router.state.Providers
          routes,    \* Router.state.Routes
          key,       \* the one API key in Router.state.APIKeys, or NoKey
          disk,      \* the tables providers, routes and api_keys
          job,       \* what each writer has yet to persist
          unwritten, \* history: what memory holds and no write has carried, and
                     \* whether a token went "astray", to a row it is not of
          overlap,   \* history: whether two rows of the "key", or two changes to
                     \* "save", were under way at once
          requests,  \* console requests so far
          moves,     \* moves of the key so far
          faults     \* refused writes and restarts so far

vars == <<providers, routes, key, disk, job, unwritten, overlap,
          requests, moves, faults>>

Writer == Console \cup {"traffic", "renewal"}

Row == [id : Provider, deleted : BOOLEAN, token : 0..MaxToken]
RouteRow == [id : Route, provider : Provider]

Idle == [at |-> "idle"]
\* A save; for a purge, the row it took and the copy a failed save puts back.
ToSave == [at |-> "save", taken |-> <<>>, back |-> <<>>]
ToRow(k, new) == [at |-> "row", row |-> k, create |-> new]

\* A key as it was created.
Created(routing) == [route |-> routing.route, backups |-> routing.backups,
                      active |-> None, profiles |-> <<>>, current |-> None]

Ids(list) == {list[i].id : i \in DOMAIN list}
Find(list, id) == CHOOSE i \in DOMAIN list : list[i].id = id
Live(p) == p \in Ids(providers) /\ ~providers[Find(providers, p)].deleted
Without(list, id) == Kept(list, {row \in ToSet(list) : row.id # id})

\* A configuration the database was left with.
Init ==
    /\ \E n \in 0..Cardinality(Provider) : \E order \in [1..n -> Provider] :
        /\ IsInjective(order)
        /\ providers = [i \in DOMAIN order |->
                          [id |-> order[i], deleted |-> FALSE, token |-> 0]]
    /\ routes \in {<<>>} \cup {<<row>> : row \in {r \in RouteRow : Live(r.provider)}}
    /\ key \in {NoKey} \cup
         {Created(routing) : routing \in {a \in Asked : /\ HasRoute(routes, a.route)
                                                           \/ a.route = None
                                                        /\ \A p \in a.backups : Live(p)}}
    /\ disk = [providers |-> providers, routes |-> routes, key |-> key]
    /\ job = [w \in Writer |-> Idle]
    /\ unwritten = {} /\ overlap = {}
    /\ requests = 0 /\ moves = 0 /\ faults = 0

Ask(c) ==
    /\ job[c] = Idle /\ requests < MaxRequests
    /\ requests' = requests + 1 /\ UNCHANGED <<moves, faults>>

Fault == faults < MaxFaults /\ faults' = faults + 1 /\ moves' = moves

-----------------------------------------------------------------------------
(* The router's rows and the snapshots that share them                     *)

\* What a snapshot shows after the rows it shares were overwritten in place.
Overwritten(view, now) ==
    [i \in DOMAIN view |-> IF i \in DOMAIN now THEN now[i] ELSE view[i]]

Seen(j, ps, rs, moved) ==
    IF j.at # "write" THEN j
    ELSE [j EXCEPT
            !.providers = IF "providers" \in j.shares THEN Overwritten(@, ps) ELSE @,
            !.routes = IF "routes" \in j.shares THEN Overwritten(@, rs) ELSE @,
            !.shares = @ \ moved]

Settled(w) == job[w].at \notin {"save", "write"}

\* The router's lists become ps and rs, the ones in moved in a new array: a
\* snapshot keeps the old array as it stood before the append.
Rewrite(w, next, ps, rs, moved) ==
    /\ providers' = ps /\ routes' = rs
    /\ overlap' = IF next.at = "save" /\ \E d \in Console \ {w} : ~Settled(d)
                    THEN overlap \cup {"save"} ELSE overlap
    /\ job' = [x \in Writer |-> IF x = w THEN next ELSE Seen(job[x], ps, rs, moved)]

Reallocated(list) == {{}, {list}}

-----------------------------------------------------------------------------
(* Providers                                                               *)

\* An id is free again once its provider was purged, even while a token of
\* that provider is still on its way to the row of that id.
AddProvider(c) ==
    /\ Ask(c)
    /\ \E p \in Provider \ Ids(providers), moved \in Reallocated("providers") :
         /\ Rewrite(c, ToSave,
                    Append(providers, [id |-> p, deleted |-> FALSE, token |-> 0]),
                    routes, moved)
         /\ unwritten' = IF job["renewal"].at = "token" /\ job["renewal"].row.id = p
                           THEN unwritten \cup {"astray"} ELSE unwritten
    /\ UNCHANGED <<key, disk>>

\* UpdateProvider, SetProviderDisabled and the other switches of a provider:
\* nothing the model keeps changes, and the whole state is saved all the same.
EditProvider(c) ==
    /\ Ask(c)
    /\ providers # <<>>
    /\ Rewrite(c, ToSave, providers, routes, {})
    /\ UNCHANGED <<key, disk, unwritten>>

\* The clean-up comes before the look at the provider, so a delete that is
\* refused has made it too; only memory is cleaned, no key is written.
DeleteProvider(c) ==
    /\ Ask(c)
    /\ \E p \in Provider :
         LET removed == {r \in Ids(routes) : ProviderOf(routes, r) = p}
             kept == Kept(routes, {row \in ToSet(routes) : row.provider # p})
             cleaned == IF key = NoKey THEN key ELSE Forgotten(key, p, removed)
             marked == [i \in DOMAIN providers |->
                          IF providers[i].id = p
                            THEN [providers[i] EXCEPT !.deleted = TRUE]
                            ELSE providers[i]]
         IN  /\ key' = cleaned
             /\ Rewrite(c, IF Live(p) THEN ToSave ELSE Idle, marked, kept, {})
             /\ unwritten' = IF cleaned = key THEN unwritten ELSE unwritten \cup {"cleaned"}
    /\ UNCHANGED disk

RestoreProvider(c) ==
    /\ Ask(c)
    /\ \E i \in DOMAIN providers :
         /\ providers[i].deleted
         /\ Rewrite(c, ToSave, [providers EXCEPT ![i].deleted = FALSE], routes, {})
    /\ UNCHANGED <<key, disk, unwritten>>

\* A purge copies the provider, deleted or not, under one lock and removes it under
\* another: what changes in between is not in the copy.
LookAtPurged(c) ==
    /\ Ask(c)
    /\ \E copy \in ToSet(providers) : job' = [job EXCEPT ![c] = [at |-> "purge", copy |-> copy]]
    /\ UNCHANGED <<providers, routes, key, disk, unwritten, overlap>>

\* Only a provider that is in the trash goes; for another the request ends here.
PurgeProvider(c) ==
    /\ job[c].at = "purge"
    /\ LET copy == job[c].copy
           trash == {row \in ToSet(providers) : row.id = copy.id /\ row.deleted}
       IN  \/ \E row \in trash :
                Rewrite(c, [ToSave EXCEPT !.taken = <<row>>, !.back = <<copy>>],
                        Without(providers, copy.id), routes, {})
           \/ /\ trash = {}
              /\ job' = [job EXCEPT ![c] = Idle]
              /\ UNCHANGED <<providers, routes, overlap>>
    /\ UNCHANGED <<key, disk, unwritten, requests, moves, faults>>

-----------------------------------------------------------------------------
(* Routes                                                                  *)

AddRoute(c) ==
    /\ Ask(c)
    /\ \E r \in Route \ Ids(routes), p \in Provider, moved \in Reallocated("routes") :
         /\ Live(p)
         /\ Rewrite(c, ToSave, providers, Append(routes, [id |-> r, provider |-> p]), moved)
    /\ UNCHANGED <<key, disk, unwritten>>

\* Mutant: UpdateRoute takes a provider that is in the trash.
UpdateRouteUnchecked(c) ==
    /\ Ask(c)
    /\ \E i \in DOMAIN routes, p \in Ids(providers) :
         Rewrite(c, ToSave, providers, [routes EXCEPT ![i].provider = p], {})
    /\ UNCHANGED <<key, disk, unwritten>>

UpdateRoute(c) ==
    /\ Ask(c)
    /\ \E i \in DOMAIN routes, p \in Provider :
         /\ Live(p)
         /\ Rewrite(c, ToSave, providers, [routes EXCEPT ![i].provider = p], {})
    /\ UNCHANGED <<key, disk, unwritten>>

DeleteRoute(c) ==
    /\ Ask(c)
    /\ \E r \in Ids(routes) :
         /\ key # NoKey => key.route # r
         /\ Rewrite(c, ToSave, providers, Without(routes, r), {})
    /\ UNCHANGED <<key, disk, unwritten>>

-----------------------------------------------------------------------------
(* saveState: the snapshot, and later the rewrite of both tables           *)

\* Mutant: State copies its lists.
SnapshotCopied(c) ==
    /\ job[c].at = "save"
    /\ job' = [job EXCEPT ![c] =
                 [at |-> "write", taken |-> job[c].taken, back |-> job[c].back,
                  providers |-> providers, routes |-> routes, shares |-> {}]]
    /\ UNCHANGED <<providers, routes, key, disk, unwritten, overlap, requests, moves, faults>>

Snapshot(c) ==
    /\ job[c].at = "save"
    /\ job' = [job EXCEPT ![c] =
                 [at |-> "write", taken |-> job[c].taken, back |-> job[c].back,
                  providers |-> providers, routes |-> routes, shares |-> {"providers", "routes"}]]
    /\ UNCHANGED <<providers, routes, key, disk, unwritten, overlap, requests, moves, faults>>

Storable(j) == IsInjective([i \in DOMAIN j.providers |-> j.providers[i].id])
               /\ IsInjective([i \in DOMAIN j.routes |-> j.routes[i].id])

Save(c) ==
    /\ job[c].at = "write" /\ Storable(job[c])
    /\ disk' = [disk EXCEPT !.providers = job[c].providers, !.routes = job[c].routes]
    /\ job' = [job EXCEPT ![c] = Idle]
    /\ unwritten' = unwritten \ {"config", "token"}
    /\ UNCHANGED <<providers, routes, key, overlap, requests, moves, faults>>

\* Only a purge takes its change back; every other handler answers 500 and
\* leaves the router ahead of the database.
SaveFails(c) ==
    /\ Fault
    /\ job[c].at = "write" /\ job[c].back = <<>>
    /\ job' = [job EXCEPT ![c] = Idle]
    /\ unwritten' = unwritten \cup {"config"}
    /\ UNCHANGED <<providers, routes, key, disk, overlap, requests>>

\* Mutant: a purge that cannot be saved is not taken back.
PurgeForgotten(c) ==
    /\ Fault
    /\ job[c].at = "write" /\ job[c].back # <<>>
    /\ job' = [job EXCEPT ![c] = Idle]
    /\ UNCHANGED <<providers, routes, key, disk, unwritten, overlap, requests>>

\* How the copy lags behind the row the purge took.
Lags(copy, row) ==
    (IF copy.deleted # row.deleted THEN {"config"} ELSE {})
        \cup (IF copy.token # row.token THEN {"astray"} ELSE {})

PurgeFails(c) ==
    /\ Fault
    /\ job[c].at = "write" /\ job[c].back # <<>>
    /\ LET copy == job[c].back[1]
       IN  IF copy.id \in Ids(providers)
             THEN /\ job' = [job EXCEPT ![c] = Idle]
                  /\ UNCHANGED <<providers, routes, overlap, unwritten>>
             ELSE /\ \E moved \in Reallocated("providers") :
                       Rewrite(c, Idle, Append(providers, copy), routes, moved)
                  /\ unwritten' = unwritten \cup Lags(copy, job[c].taken[1])
    /\ UNCHANGED <<key, disk, requests>>

-----------------------------------------------------------------------------
(* The API key and its profiles                                            *)

RowPending == \E w \in Writer : job[w].at = "row"

\* The key becomes k in memory, and w owes the database its row.
SetKey(w, k, new) ==
    /\ key' = k
    /\ job' = [job EXCEPT ![w] = ToRow(k, new)]
    /\ overlap' = IF RowPending THEN overlap \cup {"key"} ELSE overlap
    /\ unwritten' = unwritten \ {"cleaned"}
    /\ UNCHANGED <<providers, routes, disk>>

Bindable(r) == r = None \/ HasRoute(routes, r)

CreateAPIKey(c) ==
    /\ Ask(c) /\ key = NoKey
    /\ \E routing \in Asked :
         /\ Bindable(routing.route)
         /\ SetKey(c, Created(routing), TRUE)

UpdateAPIKey(c) ==
    /\ Ask(c) /\ key # NoKey
    /\ \E routing \in Asked :
         /\ routing.route = key.route \/ Bindable(routing.route)
         /\ SetKey(c, Patched(routes, key, routing), FALSE)

DeleteAPIKey(c) == Ask(c) /\ key # NoKey /\ SetKey(c, NoKey, FALSE)

\* The first profile added to a key also keeps what the key had.
AddKeyProfile(c) ==
    /\ Ask(c) /\ key # NoKey
    /\ \E id \in Profile \ ProfileIds(key), routing \in Asked, activate \in BOOLEAN :
         /\ Bindable(routing.route)
         /\ \E default \in Profile \ {id} :
              LET seeded == IF key.profiles = <<>>
                              THEN [key EXCEPT !.profiles = <<Scheme(key, default)>>,
                                               !.current = default]
                              ELSE key
                  added == [seeded EXCEPT !.profiles =
                              Append(@, NormalProfile(routes, id, routing))]
              IN  SetKey(c, IF activate THEN Activated(routes, added, Len(added.profiles))
                                        ELSE added, FALSE)

UpdateKeyProfile(c) ==
    /\ Ask(c) /\ key # NoKey
    /\ \E i \in DOMAIN key.profiles, routing \in Asked :
         /\ Bindable(routing.route)
         /\ LET id == key.profiles[i].id
                merged == [key EXCEPT !.profiles[i] = NormalProfile(routes, id, routing)]
            IN  SetKey(c, IF key.current = id THEN Activated(routes, merged, i)
                                              ELSE merged, FALSE)

DeleteKeyProfile(c) ==
    /\ Ask(c) /\ key # NoKey
    /\ \E i \in DOMAIN key.profiles :
         LET left == [key EXCEPT !.profiles = RemoveAt(@, i)]
         IN  SetKey(c, IF key.current # key.profiles[i].id THEN left
                       ELSE IF left.profiles = <<>> THEN [left EXCEPT !.current = None]
                       ELSE Activated(routes, left, 1), FALSE)

\* Mutant: the handler of the switch leaves out persistKey.
SwitchUnsaved(c) ==
    /\ Ask(c) /\ key # NoKey
    /\ \E i \in DOMAIN key.profiles : key' = Activated(routes, key, i)
    /\ UNCHANGED <<providers, routes, disk, job, unwritten, overlap>>

SwitchKeyProfile(c) ==
    /\ Ask(c) /\ key # NoKey
    /\ \E i \in DOMAIN key.profiles : SetKey(c, Activated(routes, key, i), FALSE)

\* A request, or the recovery loop, moves the key to the provider that served.
SetActiveProvider ==
    /\ job["traffic"] = Idle /\ key # NoKey
    /\ \E p \in Provider \cup {None} :
         LET active == Sanitized(p, ProviderOf(routes, key.route), key.backups)
         IN  SetKey("traffic", [key EXCEPT !.active = active], FALSE)
    /\ moves < MaxMoves /\ moves' = moves + 1
    /\ UNCHANGED <<requests, faults>>

\* INSERT finds the id free, UPDATE and DELETE act on the row that is there.
WriteRow(w) ==
    /\ job[w].at = "row"
    /\ job[w].create => disk.key = NoKey
    /\ LET stored == job[w].create \/ job[w].row = NoKey \/ disk.key # NoKey
       IN  /\ disk' = IF stored THEN [disk EXCEPT !.key = job[w].row] ELSE disk
           /\ unwritten' = IF stored THEN unwritten \ {"key"} ELSE unwritten
    /\ job' = [job EXCEPT ![w] = Idle]
    /\ UNCHANGED <<providers, routes, key, overlap, requests, moves, faults>>

WriteRowFails(w) ==
    /\ Fault
    /\ job[w].at = "row"
    /\ job' = [job EXCEPT ![w] = Idle]
    /\ unwritten' = unwritten \cup {"key"}
    /\ UNCHANGED <<providers, routes, key, disk, overlap, requests>>

-----------------------------------------------------------------------------
(* Token renewal, and a restart                                            *)

\* Tokens are numbered in the order in which they were renewed.
Newest == Max({0} \cup {providers[i].token : i \in DOMAIN providers})

\* SetProvider...OAuth does not look at the deleted mark.
Renew ==
    /\ job["renewal"] = Idle /\ Newest < MaxToken
    /\ \E i \in DOMAIN providers :
         LET now == [providers EXCEPT ![i].token = Newest + 1]
         IN  Rewrite("renewal", [at |-> "token", row |-> now[i]], now, routes, {})
    /\ UNCHANGED <<key, disk, unwritten, requests, moves, faults>>

WriteToken ==
    /\ job["renewal"].at = "token"
    /\ LET row == job["renewal"].row
       IN  disk' = [disk EXCEPT !.providers =
                      [i \in DOMAIN @ |-> IF @[i].id = row.id
                                            THEN [@[i] EXCEPT !.token = row.token]
                                            ELSE @[i]]]
    /\ job' = [job EXCEPT !["renewal"] = Idle]
    /\ UNCHANGED <<providers, routes, key, unwritten, overlap, requests, moves, faults>>

WriteTokenFails ==
    /\ Fault
    /\ job["renewal"].at = "token"
    /\ job' = [job EXCEPT !["renewal"] = Idle]
    /\ unwritten' = unwritten \cup {"token"}
    /\ UNCHANGED <<providers, routes, key, disk, overlap, requests>>

\* The process dies wherever it is, and Load reads the tables back.
Restart ==
    /\ Fault
    /\ providers' = disk.providers /\ routes' = disk.routes /\ key' = disk.key
    /\ job' = [w \in Writer |-> Idle]
    /\ unwritten' = {}
    /\ UNCHANGED <<disk, overlap, requests>>

-----------------------------------------------------------------------------
ConsoleStep(c) ==
    \/ AddProvider(c) \/ EditProvider(c) \/ DeleteProvider(c)
    \/ RestoreProvider(c) \/ LookAtPurged(c) \/ PurgeProvider(c)
    \/ AddRoute(c) \/ UpdateRoute(c) \/ DeleteRoute(c)
    \/ Snapshot(c) \/ Save(c) \/ SaveFails(c) \/ PurgeFails(c)
    \/ CreateAPIKey(c) \/ UpdateAPIKey(c) \/ DeleteAPIKey(c)
    \/ AddKeyProfile(c) \/ UpdateKeyProfile(c) \/ DeleteKeyProfile(c)
    \/ SwitchKeyProfile(c)

Next ==
    \/ \E c \in Console : ConsoleStep(c)
    \/ SetActiveProvider
    \/ \E w \in Writer : WriteRow(w) \/ WriteRowFails(w)
    \/ Renew \/ WriteToken \/ WriteTokenFails
    \/ Restart

Spec == Init /\ [][Next]_vars

-----------------------------------------------------------------------------
(* Properties                                                              *)

\* A route leads to a provider that is there and not in the trash, whatever
\* was deleted, restored, purged, refused by the database or lost with the
\* process: AddRoute and UpdateRoute look the provider up, DeleteProvider
\* takes its routes along, and RestoreProvider brings none back. For histories
\* in which no two saves were under way at once: of two, the one that read the
\* router first may be the last to write, and a restart then finds its routes
\* beside the marks it shares with the router.
RouteHasProvider ==
    "save" \notin overlap => \A i \in DOMAIN routes : Live(routes[i].provider)

Marks(list) == {[id |-> list[i].id, deleted |-> list[i].deleted] : i \in DOMAIN list}

\* When no save is under way and the last one did not fail, the tables hold
\* what the router holds: a save that succeeds also repairs the ones that
\* failed before it, and a purge that could not be saved has been taken back.
\* For the same histories. Left out, until the next save: a purge taken back with
\* a copy from before a delete, which brings the provider back out of the trash.
ConfigDurable ==
    /\ "save" \notin overlap
    /\ \A c \in Console : Settled(c)
    /\ "config" \notin unwritten
    =>
        /\ Marks(disk.providers) = Marks(providers)
        /\ ToSet(disk.routes) = ToSet(routes)

\* A renewed token that was written stays written: a save that took its
\* snapshot before the renewal does not put the spent one back. For the same
\* histories. Left out, until the next start: a provider created under the id of
\* one whose renewal was still unwritten, and a purge taken back with a copy from
\* before a renewal, which brings the spent token back.
TokenDurable ==
    /\ "save" \notin overlap
    /\ job["renewal"] = Idle /\ unwritten \cap {"token", "astray"} = {}
    =>
        \A row \in ToSet(providers), stored \in ToSet(disk.providers) :
            row.id = stored.id => row.token = stored.token

SameRouting(a, b) ==
    IF a = NoKey \/ b = NoKey THEN a = b
    ELSE [a EXCEPT !.active = None] = [b EXCEPT !.active = None]

\* With no row of the key on its way, none refused and no provider deleted
\* under it, the database routes the key as the router does, so what the
\* console was told survives a restart.
ChangeSurvives ==
    ~RowPending /\ unwritten \cap {"key", "cleaned"} = {} => SameRouting(disk.key, key)

\* And its failover position too, for histories in which no two changes of the
\* key were under way at once: every operation on the key, on its profiles and
\* of the traffic writes the row it changed.
KeyDurable ==
    "key" \notin overlap /\ ~RowPending /\ unwritten \cap {"key", "cleaned"} = {} => disk.key = key
=============================================================================
