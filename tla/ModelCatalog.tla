---------------------------- MODULE ModelCatalog ----------------------------
(***************************************************************************)
(* The Models section (features/settings/ModelsSection.tsx) over the REST  *)
(* calls of the main process (electron/forge/rest.ts).  The runtime holds  *)
(* the catalog: which models there are and which are enabled.  A toggle    *)
(* flips what the runtime holds and is answered by an empty reply, so the  *)
(* section flips its own copy first and reloads only when the call fails.  *)
(* A call may be lost before it is served, or its answer after that, and a *)
(* call that took too long is given up although it may still be served:    *)
(* the caller sees a failure in each case.                                 *)
(***************************************************************************)
EXTENDS Naturals, FiniteSets

CONSTANTS
  Models,         \* the models of the catalog (modelKey)
  ProviderModels, \* the models a provider profile brings
  Catalog,        \* [a subset of Models -> BOOLEAN]: the catalog at the start
  Unread,         \* the section has no list
  MaxCalls,       \* calls under way at a time
  MaxActions,     \* actions of the user
  MaxLosses       \* calls that fail

ASSUME CatalogAssumption ==
  /\ ProviderModels \subseteq Models
  /\ DOMAIN Catalog \subseteq Models /\ \A m \in DOMAIN Catalog : Catalog[m] \in BOOLEAN
  /\ {MaxCalls, MaxActions, MaxLosses} \subseteq Nat

VARIABLES
  enabled,     \* the runtime: [the models it has -> BOOLEAN]
  models,      \* the section's copy, or Unread
  only,        \* the models the filters let through
  busy,        \* the refresh and bulk buttons are disabled
  calls,       \* the calls under way
  catalogError,\* the section shows an error
  online,      \* the connection phase is connected
  crossed,     \* history: a load was under way while a change was
  acts,        \* the user's actions so far
  losses       \* the failures so far

catalogVars ==
  <<enabled, models, only, busy, calls, catalogError, online, crossed, acts, losses>>

-----------------------------------------------------------------------------
\* A call: what it asks for, whether the runtime served it, with what outcome,
\* the catalog it read, and whether the section has given it up.  The number tells
\* it from the other calls.
Call(kind, ms, cs) ==
  [kind |-> kind, models |-> ms, served |-> FALSE, ok |-> TRUE, got |-> Unread, gone |-> FALSE,
   n |-> CHOOSE k \in 0..Cardinality(cs) : \A c \in cs : c.n # k]

Changes == {"toggle", "bulk", "save", "remove", "refresh"}

ProviderKinds == {"save", "remove", "refresh"}

Toggled(ms) == [m \in DOMAIN enabled |-> IF m \in ms THEN ~enabled[m] ELSE enabled[m]]

\* The models there are after a change of the profile.
ModelsAfter(kind) ==
  CASE kind = "save" -> DOMAIN enabled \cup ProviderModels
    [] kind = "remove" -> DOMAIN enabled \ ProviderModels
    [] OTHER -> DOMAIN enabled

CatalogInit ==
  /\ enabled = Catalog /\ models = Unread /\ only = Models /\ busy = FALSE
  /\ calls = {} /\ catalogError = FALSE /\ online = FALSE /\ crossed = FALSE
  /\ acts = 0 /\ losses = 0

\* A load and a change under way at once: the load may have read the catalog
\* before the change.
NoteCrossing ==
  crossed' = (crossed \/ (/\ \E c \in calls' : c.kind = "load"
                          /\ \E c \in calls' : c.kind \in Changes))

Awaited == {c \in calls : ~c.gone}
Acts == acts < MaxActions /\ Cardinality(Awaited) < MaxCalls /\ acts' = acts + 1

-----------------------------------------------------------------------------
\* load: models, keys and profiles in one.  The section is busy until it ends.
Loading(cs) == calls' = cs \cup {Call("load", {}, cs)} /\ busy' = TRUE

\* The connection is made, and the section loads; or it ends, and the section
\* forgets its list.  What is under way stays under way.
GoOnline ==
  /\ ~online /\ Acts
  /\ online' = TRUE
  /\ Loading(calls)
  /\ UNCHANGED <<enabled, models, only, catalogError, losses>>
  /\ NoteCrossing

GoOffline ==
  /\ online
  /\ online' = FALSE /\ models' = Unread
  /\ UNCHANGED <<enabled, only, busy, calls, catalogError, crossed, acts, losses>>

\* The section shows the list.
Listed == online /\ models # Unread

\* The user filters the list.
SetFilters(ms) ==
  /\ Listed /\ ms # only
  /\ only' = ms
  /\ UNCHANGED <<enabled, models, busy, calls, catalogError, online, crossed, acts, losses>>

\* toggle: the copy is flipped and the call is made, whatever is under way.
Toggle(m) ==
  /\ Listed /\ m \in DOMAIN models \cap only /\ Acts
  /\ models' = [models EXCEPT ![m] = ~@]
  /\ calls' = calls \cup {Call("toggle", {m}, calls)}
  /\ UNCHANGED <<enabled, only, busy, catalogError, online, losses>>
  /\ NoteCrossing

\* bulk: the models on display whose copy differs, one call after the other.
Bulk(b) ==
  LET targets == {m \in DOMAIN models \cap only : models[m] # b} IN
  /\ Listed /\ ~busy /\ targets # {} /\ Acts
  /\ busy' = TRUE
  /\ models' = [m \in DOMAIN models |-> IF m \in targets THEN b ELSE models[m]]
  /\ calls' = calls \cup {Call("bulk", targets, calls)}
  /\ UNCHANGED <<enabled, only, catalogError, online, losses>>
  /\ NoteCrossing

\* The profile is saved or discovery refreshed (both disabled while busy), or
\* the profile is removed (never disabled).
ChangeProvider(kind) ==
  /\ Listed /\ Acts
  /\ kind # "remove" => ~busy
  /\ busy' = TRUE
  /\ calls' = calls \cup {Call(kind, {}, calls)}
  /\ UNCHANGED <<enabled, models, only, catalogError, online, losses>>
  /\ NoteCrossing

-----------------------------------------------------------------------------
\* The runtime serves a call: a load is given the catalog as it is.
ServeLoad(c) ==
  /\ c.kind = "load" /\ ~c.served
  /\ calls' = (calls \ {c}) \cup {[c EXCEPT !.served = TRUE, !.got = enabled]}
  /\ UNCHANGED <<enabled, models, only, busy, catalogError, online, crossed, acts, losses>>

\* server.go:274-281: a toggle flips the model if the runtime has it.
ServeToggle(c) ==
  /\ c.kind = "toggle" /\ ~c.served
  /\ enabled' = Toggled(c.models)
  /\ calls' = (calls \ {c}) \cup
                {[c EXCEPT !.served = TRUE, !.ok = c.models \subseteq DOMAIN enabled]}
  /\ UNCHANGED <<models, only, busy, catalogError, online, crossed, acts, losses>>

\* One toggle of the bulk is served and answered, and the next is sent.
ServeBulk(c) ==
  /\ c.kind = "bulk"
  /\ \E m \in c.models :
       /\ m \in DOMAIN enabled
       /\ enabled' = Toggled({m})
       /\ calls' = (calls \ {c}) \cup {[c EXCEPT !.models = @ \ {m}, !.served = (@ \/ c.models = {m})]}
  /\ UNCHANGED <<models, only, busy, catalogError, online, crossed, acts, losses>>

\* models.go:287-292: a change of the profile starts a discovery, which notes
\* what is enabled ...
StartDiscovery(c) ==
  /\ c.kind \in ProviderKinds /\ c.got = Unread
  /\ calls' = (calls \ {c}) \cup {[c EXCEPT !.got = enabled]}
  /\ UNCHANGED <<enabled, models, only, busy, catalogError, online, crossed, acts, losses>>

\* models.go:733-747: ... and, long after, replaces the catalog, with what it
\* noted: a toggle served in between is undone.
EndDiscovery(c) ==
  /\ c.kind \in ProviderKinds /\ c.got # Unread /\ ~c.served
  /\ enabled' = [m \in ModelsAfter(c.kind) |-> IF m \in DOMAIN c.got THEN c.got[m] ELSE TRUE]
  /\ calls' = (calls \ {c}) \cup {[c EXCEPT !.served = TRUE]}
  /\ UNCHANGED <<models, only, busy, catalogError, online, crossed, acts, losses>>

-----------------------------------------------------------------------------
\* What is left of a call that failed: if the runtime has not served it, the
\* request, for the models it was about.
GivenUp(c, ms) ==
  (calls \ {c}) \cup IF c.served THEN {} ELSE {[c EXCEPT !.gone = TRUE, !.models = ms]}

\* It was lost, or its answer reaches nobody.
GivenUpEnds(c) ==
  /\ c.gone
  /\ calls' = calls \ {c}
  /\ UNCHANGED <<enabled, models, only, busy, catalogError, online, crossed, acts, losses>>

\* The answer of a load: the section shows what it got.
LoadAnswers(c) ==
  /\ c.kind = "load" /\ c.served
  /\ models' = c.got /\ catalogError' = FALSE /\ busy' = FALSE
  /\ calls' = calls \ {c}
  /\ UNCHANGED <<enabled, only, online, crossed, acts, losses>>

\* The load fails.
LoadFails(c) ==
  /\ c.kind = "load" /\ losses < MaxLosses
  /\ losses' = losses + 1
  /\ catalogError' = TRUE /\ busy' = FALSE
  /\ calls' = calls \ {c}
  /\ UNCHANGED <<enabled, models, only, online, crossed, acts>>

\* A toggle is answered.
ToggleAnswers(c) ==
  /\ c.kind = "toggle" /\ c.served /\ c.ok /\ ~c.gone
  /\ calls' = calls \ {c}
  /\ UNCHANGED <<enabled, models, only, busy, catalogError, online, crossed, acts, losses>>

\* The toggle fails, served or not, or the model is gone: the list is reloaded.
ToggleFails(c) ==
  /\ c.kind = "toggle" /\ ~c.gone
  /\ \/ losses < MaxLosses /\ losses' = losses + 1
     \/ c.served /\ ~c.ok /\ UNCHANGED losses
  /\ catalogError' = TRUE
  /\ Loading(GivenUp(c, c.models))
  /\ UNCHANGED <<enabled, models, only, online, acts>>
  /\ NoteCrossing

\* The bulk is through, or a call of it fails and the rest is not sent: the list
\* is reloaded.
BulkEnds(c) ==
  /\ c.kind = "bulk" /\ ~c.gone
  /\ \/ /\ c.models = {} /\ Loading(calls \ {c})
        /\ UNCHANGED <<losses, catalogError>>
     \/ /\ losses < MaxLosses /\ losses' = losses + 1 /\ catalogError' = TRUE
        /\ \E m \in c.models : Loading(GivenUp(c, {m}))
     \/ /\ ~(c.models \subseteq DOMAIN enabled) /\ catalogError' = TRUE
        /\ Loading(calls \ {c}) /\ UNCHANGED losses
  /\ UNCHANGED <<enabled, models, only, online, acts>>
  /\ NoteCrossing

\* The profile's call is answered, and the list is reloaded.
ProviderAnswers(c) ==
  /\ c.kind \in ProviderKinds /\ c.served /\ ~c.gone
  /\ catalogError' = FALSE
  /\ Loading(calls \ {c})
  /\ UNCHANGED <<enabled, models, only, online, acts, losses>>
  /\ NoteCrossing

\* A failed call leaves the section busy.
ProviderFailsBusy(c) ==
  /\ c.kind \in ProviderKinds /\ ~c.gone /\ losses < MaxLosses
  /\ losses' = losses + 1 /\ catalogError' = TRUE
  /\ calls' = GivenUp(c, {})
  /\ UNCHANGED <<enabled, models, only, busy, online, crossed, acts>>

\* The profile's call fails: only the error is shown.
ProviderFails(c) ==
  /\ c.kind \in ProviderKinds /\ ~c.gone /\ losses < MaxLosses
  /\ losses' = losses + 1 /\ catalogError' = TRUE /\ busy' = FALSE
  /\ calls' = GivenUp(c, {})
  /\ UNCHANGED <<enabled, models, only, online, crossed, acts>>

CatalogNext ==
  \/ GoOnline
  \/ GoOffline
  \/ \E ms \in SUBSET Models : SetFilters(ms)
  \/ \E m \in Models : Toggle(m)
  \/ \E b \in BOOLEAN : Bulk(b)
  \/ \E kind \in ProviderKinds : ChangeProvider(kind)
  \/ \E c \in calls : ServeLoad(c)
  \/ \E c \in calls : ServeToggle(c)
  \/ \E c \in calls : ServeBulk(c)
  \/ \E c \in calls : StartDiscovery(c)
  \/ \E c \in calls : EndDiscovery(c)
  \/ \E c \in calls : GivenUpEnds(c)
  \/ \E c \in calls : LoadAnswers(c)
  \/ \E c \in calls : LoadFails(c)
  \/ \E c \in calls : ToggleAnswers(c)
  \/ \E c \in calls : ToggleFails(c)
  \/ \E c \in calls : BulkEnds(c)
  \/ \E c \in calls : ProviderAnswers(c)
  \/ \E c \in calls : ProviderFails(c)

-----------------------------------------------------------------------------
(***************************************************************************)
(* Properties.                                                             *)
(***************************************************************************)
\* ModelsSection.tsx:163-198: when nothing is under way, no error is shown and no
\* load crossed a change, one that was given up included, the section shows what the runtime holds, although
\* toggles are not read back and answers may have been lost.
CatalogSettles ==
  (calls = {} /\ online /\ models # Unread /\ ~catalogError /\ ~crossed) => models = enabled

\* ModelsSection.tsx:68-97, 615-658: the buttons are disabled only while
\* something is under way that will be answered, so that one call that fails never
\* disables them for good.
BusyHasAReason == busy => Awaited # {}
=============================================================================
