--------------------------- MODULE SettingsStore ----------------------------
(***************************************************************************)
(* The settings of Studio in the main process                              *)
(* (src/studio/electron/settings.ts and the settings handlers of main.ts): *)
(* a value in memory, a file written whole at every patch, and the pushes  *)
(* to the renderer.  A patch names the fields it changes; what their       *)
(* values look like is abstracted to what the views tell apart.            *)
(***************************************************************************)
EXTENDS Naturals, Sequences, FiniteSets

CONSTANTS
    Addresses, Local,    \* what the user may type, and what is accepted
    Roots,               \* directories with a checkout of Reticle
    SchemeIds, ProfileIds, LayoutIds,
    Files, Inline,       \* files shown in tabs, and those whose text the tab holds
    MaxFailures,         \* writes of the file that fail
    MaxPushes            \* pushes on their way at once
GraphTab == "graph"
ASSUME SettingsAssumption ==
    /\ Local \subseteq Addresses /\ Local # {} /\ Roots # {}
    /\ Inline \subseteq Files /\ GraphTab \notin Files
    /\ MaxFailures \in Nat /\ MaxPushes \in Nat

None == "none"
Themes == {"dark", "light", "system", "custom"}
Partial(S, T) == UNION {[D -> T] : D \in SUBSET S}
(* A list of named things with one put in, or replaced.                     *)
With(list, id, x) == [i \in DOMAIN list \union {id} |-> IF i = id THEN x ELSE list[i]]

(* The parts with structure: colour schemes, profiles, arrangements.        *)
NoSchemes == [of |-> <<>>, active |-> None]
Schemes ==
    [of : Partial(SchemeIds, {"new", "edited"}), active : SchemeIds \union {None}]
Surfaces == Files \union {GraphTab}
IsArrangement(a) ==
    /\ \A i \in DOMAIN a.tabs : a.tabs[i] \in Surfaces
    /\ a.active \in Surfaces
FirstArrangement == [tabs |-> <<GraphTab>>, active |-> GraphTab]

Fields == {"address", "theme", "nodes", "forge", "cwd", "logs",
           "schemes", "profiles", "layout", "saved"}

(* defaults(): the directories are those of the checkout that is found.     *)
Defaults(root) ==
    [address |-> CHOOSE a \in Local : TRUE, theme |-> "dark", nodes |-> FALSE,
     forge |-> FALSE, cwd |-> root, logs |-> FALSE, schemes |-> NoSchemes,
     profiles |-> [of |-> <<>>, active |-> None],
     layout |-> FirstArrangement, saved |-> <<>>]

(* A patch says only what changes: a field it does not name stays.          *)
Merge(s, p) == [f \in Fields |-> IF f \in DOMAIN p THEN p[f] ELSE s[f]]

(* validate(), section by section.                                          *)
ValidSchemes(c) == c.active = None \/ c.active \in DOMAIN c.of
ValidProfiles(p) ==
    /\ p.active = None \/ p.active \in DOMAIN p.of
    /\ \A id \in DOMAIN p.of : ValidSchemes(p.of[id].schemes)
ValidLayouts(s) == IsArrangement(s.layout) /\ \A id \in DOMAIN s.saved : IsArrangement(s.saved[id])
Valid(s) ==
    /\ s.address \in Local
    /\ ValidSchemes(s.schemes) /\ ValidProfiles(s.profiles) /\ ValidLayouts(s)

-----------------------------------------------------------------------------
VARIABLES
    settings,            \* in memory
    disk,                \* settings.json
    root,                \* the checkout Studio reads sessions and logs from
    pushes,              \* settings on their way to the renderer
    failures
storeVars == <<settings, disk, root, pushes, failures>>

(* load(): an unreadable or invalid file means the defaults.                *)
Loaded(d) == IF Valid(d) THEN d ELSE Defaults(root)

(* persist(): a temporary file renamed over the old one; an error is logged *)
(* and no more.                                                             *)
Persist(next) ==
    \/ disk' = next /\ UNCHANGED failures
    \/ failures < MaxFailures /\ failures' = failures + 1 /\ UNCHANGED disk

(* patch(): a value that is not valid changes nothing.                      *)
Patch(p) ==
    LET next == Merge(settings, p)
    IN  IF Valid(next)
        THEN settings' = next /\ Persist(next)
        ELSE UNCHANGED <<settings, disk, failures>>

(* Mutant: the answer to the caller is the only word of it.                 *)
SettingsPatchUnpushed(p) ==
    /\ root' = IF "cwd" \in DOMAIN p THEN p.cwd ELSE root
    /\ Patch(p) /\ UNCHANGED pushes
(* settings:patch.  The checkout follows the directory of forge.            *)
SettingsPatch(p) ==
    /\ Len(pushes) < MaxPushes
    /\ root' = IF "cwd" \in DOMAIN p THEN p.cwd ELSE root
    /\ Patch(p)
    /\ pushes' = IF Valid(Merge(settings, p)) THEN Append(pushes, settings') ELSE pushes

(* connection:connect patches and pushes nothing.                           *)
ConnectPatch(a) ==
    /\ Patch([address |-> a])
    /\ UNCHANGED <<root, pushes>>
=============================================================================
