------------------------- MODULE StudioPreferences --------------------------
(***************************************************************************)
(* The renderer's side of the settings (src/studio/src): the copy every    *)
(* view computes its patches from, the arrangement of the tabs, and the    *)
(* timer of useLayoutPersistence that saves it.  The requests of the       *)
(* renderer and the pushes of main travel in order, and a request needs    *)
(* nothing of the renderer any more: it is handled as it is sent, and only *)
(* the pushes are on their way.                                            *)
(*                                                                         *)
(* A view that changes a section, a list of named things and the active    *)
(* one, sends the whole section, made from its copy.  What the user means  *)
(* by it is the same change made to the sections as the user left them.    *)
(***************************************************************************)
EXTENDS SettingsStore

CONSTANTS Found,         \* the checkout findRepoRoot finds at a start
          MaxEdits       \* what the user does to settings and tabs
ASSUME PreferencesAssumption == Found \in Roots /\ MaxEdits \in Nat

VARIABLES
    copy,                \* the settings the views show, <<>> while they load
    ui,                  \* the tabs as they are
    armed,               \* the timer of useLayoutPersistence runs
    owed,                \* the second patch of deleteScheme: pushes before its turn
    said,                \* the settings as the user has changed them: a history
    behind,              \* sections that were sent from a copy of them that was behind
    had,                 \* the arrangements of this session of the user
    edits
vars == <<storeVars, copy, ui, armed, owed, said, behind, had, edits>>

Nothing == <<>>
NotOwed == MaxPushes + 1
Shown == copy # Nothing

-----------------------------------------------------------------------------
(* The tabs of the main surface (state/ui.ts): the graph, which stays, and  *)
(* the files that were opened, in order.                                    *)

(* filter(): the tabs among S, in their order.                              *)
Keeping(tabs, S) ==
    LET kept[n \in 0..Len(tabs)] ==
            IF n = 0 THEN <<>>
            ELSE IF tabs[n] \in S THEN Append(kept[n - 1], tabs[n]) ELSE kept[n - 1]
    IN  kept[Len(tabs)]
IsOpen(a, f) == \E i \in DOMAIN a.tabs : a.tabs[i] = f

Opened(a, f) ==
    [tabs |-> IF IsOpen(a, f) THEN a.tabs ELSE Append(a.tabs, f),
     active |-> f]

(* Mutant: the active tab is left as it is.                                 *)
ClosedOnly(a, f) == [a EXCEPT !.tabs = Keeping(a.tabs, Surfaces \ {f})]
(* The tab that is closed gives its place to the one before it.             *)
Closed(a, f) ==
    LET index == CHOOSE i \in DOMAIN a.tabs :
                     a.tabs[i] = f /\ \A j \in 1..(i - 1) : a.tabs[j] # f
        rest == Keeping(a.tabs, Surfaces \ {f})
        before == IF index > 1 THEN rest[index - 1]
                  ELSE IF rest # <<>> THEN rest[1] ELSE GraphTab
    IN  IF f = GraphTab \/ ~IsOpen(a, f) THEN a
        ELSE [tabs |-> IF rest = <<>> THEN <<GraphTab>> ELSE rest,
              active |-> IF a.active = f THEN before ELSE a.active]

(* restoreLayout().                                                         *)
Restored(a) == IF a.tabs = <<>> THEN [a EXCEPT !.tabs = <<GraphTab>>] ELSE a

(* What a named layout keeps: a tab that holds its text is dropped.         *)
Saved(a) ==
    LET tabs == Keeping(a.tabs, Surfaces \ Inline)
    IN  [tabs |-> IF tabs = <<>> THEN <<GraphTab>> ELSE tabs,
         active |-> IF \E i \in DOMAIN tabs : tabs[i] = a.active THEN a.active ELSE GraphTab]

ActiveIsThere(a) == IsOpen(a, a.active)

-----------------------------------------------------------------------------
PrefsInit ==
    /\ settings = Defaults(Found) /\ disk = Defaults(Found) /\ root = Found
    /\ pushes = <<>> /\ failures = 0
    /\ copy = Nothing /\ ui = FirstArrangement /\ armed = FALSE /\ owed = NotOwed
    /\ said = Defaults(Found) /\ behind = {} /\ had = {FirstArrangement} /\ edits = 0

Edit == Shown /\ edits < MaxEdits /\ edits' = edits + 1

(* The fields whose value is made from the one before.                      *)
Sections == {"schemes", "profiles", "saved"}
Send(p) ==
    /\ SettingsPatch(p)
    /\ behind' = behind \union {f \in DOMAIN p \intersect Sections : copy[f] # settings[f]}

(* The view sends p and the user means q; an address that is not accepted   *)
(* refuses the whole of it.                                                 *)
Accepted(p) == "address" \in DOMAIN p => p.address \in Local
Choose(p, q) ==
    /\ Edit /\ Send(p)
    /\ said' = IF Accepted(p) THEN Merge(said, q) ELSE said
    /\ UNCHANGED <<copy, ui, armed, owed, had>>
Pick(p) == Choose(p, p)

-----------------------------------------------------------------------------
(* Mutant: the arrangement is not put back.                                 *)
LoadBare ==
    /\ ~Shown
    /\ copy' = settings /\ pushes' = <<>> /\ armed' = TRUE
    /\ UNCHANGED <<settings, disk, root, failures, ui, owed, said, behind, had, edits>>
(* The start of the renderer: initialize() reads the settings and listens   *)
(* to the pushes that follow; the arrangement kept is put back, once, and   *)
(* the timer starts with the arrangement it restored.                       *)
Load ==
    /\ ~Shown
    /\ copy' = settings /\ pushes' = <<>>
    /\ ui' = Restored(settings.layout)
    /\ had' = had \union {ui'}
    /\ armed' = TRUE
    /\ UNCHANGED <<settings, disk, root, failures, owed, said, behind, edits>>

(* settings.onChange: every push is a new object, and the effect that keeps *)
(* the arrangement depends on it.                                           *)
PushArrives ==
    /\ Shown /\ pushes # <<>>
    /\ copy' = Head(pushes) /\ pushes' = Tail(pushes)
    /\ armed' = TRUE
    /\ owed' = IF owed \in 1..MaxPushes THEN owed - 1 ELSE owed
    /\ UNCHANGED <<settings, disk, root, failures, ui, said, behind, had, edits>>

(* Mutant: the timer sends the settings it knows with the arrangement.      *)
AutoPersistAll ==
    /\ Shown /\ armed
    /\ Send([copy EXCEPT !.layout = ui])
    /\ armed' = FALSE
    /\ UNCHANGED <<copy, ui, owed, said, had, edits>>
(* The timer sends the layouts of its copy with the arrangement.            *)
AutoPersist ==
    /\ Shown /\ armed
    /\ Send([layout |-> ui, saved |-> copy.saved])
    /\ armed' = FALSE
    /\ UNCHANGED <<copy, ui, owed, said, had, edits>>

-----------------------------------------------------------------------------
(* The tabs.                                                                *)
Arrange(a) ==
    /\ Edit
    /\ ui' = a /\ had' = had \union {a} /\ armed' = TRUE
    /\ UNCHANGED <<storeVars, copy, owed, said, behind>>
OpenTab(f) == Arrange(Opened(ui, f))
CloseTab(f) == IsOpen(ui, f) /\ Arrange(Closed(ui, f))
SetActiveTab(f) == IsOpen(ui, f) /\ Arrange([ui EXCEPT !.active = f])
ApplyLayout(id) == Shown /\ id \in DOMAIN copy.saved /\ Arrange(Restored(copy.saved[id]))

(* The names of a section; a new one, made of the time and chance, is new.   *)
Names(x, f) == IF f = "saved" THEN DOMAIN x.saved ELSE DOMAIN x[f].of
Fresh(id, f) ==
    /\ \A x \in {copy, settings, disk, said} : id \notin Names(x, f)
    /\ \A i \in DOMAIN pushes : id \notin Names(pushes[i], f)
ChooseLayouts(l, m) ==
    Choose([layout |-> copy.layout, saved |-> l], [layout |-> copy.layout, saved |-> m])
LayoutsWithout(l, id) == [n \in DOMAIN l \ {id} |-> l[n]]

SaveLayout(id) ==
    /\ Shown /\ Fresh(id, "saved")
    /\ ChooseLayouts(With(copy.saved, id, Saved(ui)), With(said.saved, id, Saved(ui)))
RenameLayout == Shown /\ copy.saved # <<>> /\ ChooseLayouts(copy.saved, said.saved)
DeleteLayout(id) ==
    /\ Shown /\ id \in DOMAIN copy.saved
    /\ ChooseLayouts(LayoutsWithout(copy.saved, id), LayoutsWithout(said.saved, id))

-----------------------------------------------------------------------------
(* The plain fields.                                                        *)
EditTheme(t) ==
    /\ Shown
    /\ t = "custom" => copy.schemes.of # <<>>
    /\ Pick([theme |-> t])
CycleTheme ==
    /\ Shown
    /\ Pick([theme |-> CASE copy.theme = "dark" -> "light"
                         [] copy.theme = "light" -> "system"
                         [] OTHER -> "dark"])
EditNodes == Shown /\ Pick([nodes |-> ~copy.nodes])
EditForge == Shown /\ Pick([forge |-> ~copy.forge])
EditDirectory(r) == Pick([cwd |-> r])
EditLogs == Shown /\ Pick([logs |-> ~copy.logs])
EditConnection(a) == Pick([address |-> a])

(* Connect takes the address the view shows, the popover the one that is    *)
(* typed, and a launch tells the views the address it keeps.                *)
ConnectTo(a) ==
    /\ Edit /\ ConnectPatch(a)
    /\ said' = IF a \in Local THEN Merge(said, [address |-> a]) ELSE said
    /\ UNCHANGED <<copy, ui, armed, owed, behind, had>>
Connect == Shown /\ ConnectTo(copy.address)
Launch(a) == a \in Local /\ Pick([address |-> a])

-----------------------------------------------------------------------------
(* Colour schemes and profiles: lists with an active one.                   *)
Put(c, id, x) == [c EXCEPT !.of = With(@, id, x)]
Activate(c, id) == [c EXCEPT !.active = id]
(* Mutant: it stays the active one.                                         *)
WithoutKeepingActive(c, id) ==
    [of |-> [i \in DOMAIN c.of \ {id} |-> c.of[i]], active |-> c.active]
(* What is deleted is not active any more.                                  *)
Without(c, id) ==
    [of |-> [i \in DOMAIN c.of \ {id} |-> c.of[i]],
     active |-> IF c.active = id THEN None ELSE c.active]

ChooseSchemes(c, d) == Choose([schemes |-> c], [schemes |-> d])
UseSchemes(c, d) ==
    Choose([theme |-> "custom", schemes |-> c], [theme |-> "custom", schemes |-> d])

CreateScheme(id) ==
    /\ Shown /\ Fresh(id, "schemes")
    /\ ChooseSchemes(Put(copy.schemes, id, "new"), Put(said.schemes, id, "new"))
ImportScheme(id) ==
    /\ Shown /\ Fresh(id, "schemes")
    /\ ChooseSchemes(Put(copy.schemes, id, "edited"), Put(said.schemes, id, "edited"))
CreateFromPreset(id) ==
    /\ Shown /\ Fresh(id, "schemes")
    /\ UseSchemes(Activate(Put(copy.schemes, id, "new"), id),
                  Activate(Put(said.schemes, id, "new"), id))
EditScheme(id) ==
    /\ Shown /\ id \in DOMAIN copy.schemes.of
    /\ ChooseSchemes(Put(copy.schemes, id, "edited"), Put(said.schemes, id, "edited"))
ApplyScheme(id) ==
    /\ Shown /\ id \in DOMAIN copy.schemes.of
    /\ UseSchemes(Activate(copy.schemes, id), Activate(said.schemes, id))

DeleteScheme(id) ==
    /\ Edit /\ owed = NotOwed
    /\ id \in DOMAIN copy.schemes.of
    /\ Send([schemes |-> Without(copy.schemes, id)])
    /\ said' = Merge(said, [schemes |-> Without(said.schemes, id)])
    /\ owed' = IF copy.schemes.active = id /\ copy.theme = "custom"
               THEN Len(pushes') ELSE NotOwed
    /\ UNCHANGED <<copy, ui, armed, had>>
(* Its second patch, once the first was answered.                           *)
LeaveCustom ==
    /\ owed = 0 /\ Shown
    /\ LET p == [theme |-> "dark"] IN Send(p) /\ said' = Merge(said, p)
    /\ owed' = NotOwed
    /\ UNCHANGED <<copy, ui, armed, had, edits>>

-----------------------------------------------------------------------------
(* A profile is made of what the views show, and puts back what it kept.    *)
ChooseProfiles(c, d) == Choose([profiles |-> c], [profiles |-> d])
Current == [theme |-> copy.theme, nodes |-> copy.nodes, schemes |-> copy.schemes,
            address |-> copy.address]
AddProfile(id, x) ==
    /\ Shown /\ Fresh(id, "profiles")
    /\ ChooseProfiles(Put(copy.profiles, id, x), Put(said.profiles, id, x))

CreateProfile(id) == Shown /\ AddProfile(id, Current)
(* A profile of another machine: its connection is not looked at.           *)
ImportProfile(id, a) ==
    AddProfile(id, [theme |-> "dark", nodes |-> FALSE, schemes |-> NoSchemes, address |-> a])
RenameProfile == Shown /\ copy.profiles.of # <<>> /\ ChooseProfiles(copy.profiles, said.profiles)
ApplyProfile(id) ==
    /\ Shown /\ id \in DOMAIN copy.profiles.of
    /\ LET kept == copy.profiles.of[id]
           of(c) == [theme |-> kept.theme, nodes |-> kept.nodes, schemes |-> kept.schemes,
                     address |-> kept.address, profiles |-> c]
       IN  Choose(of(Activate(copy.profiles, id)), of(Activate(said.profiles, id)))
DeleteProfile(id) ==
    /\ Shown /\ id \in DOMAIN copy.profiles.of
    /\ ChooseProfiles(Without(copy.profiles, id), Without(said.profiles, id))

-----------------------------------------------------------------------------
(* The window is loaded again, by itself or with the program.               *)
Unloaded ==
    /\ copy' = Nothing /\ ui' = FirstArrangement /\ armed' = FALSE /\ owed' = NotOwed
    /\ pushes' = <<>>
    /\ UNCHANGED <<disk, failures, said, behind, edits>>
Reload == Shown /\ Unloaded /\ UNCHANGED <<settings, root, had>>
Restart ==
    /\ Shown /\ Unloaded
    /\ settings' = Loaded(disk) /\ root' = Found
    /\ had' = {settings'.layout}

EditTabs ==
    \/ \E f \in Files : OpenTab(f) \/ CloseTab(f)
    \/ \E f \in Surfaces : SetActiveTab(f)
EditLayouts ==
    RenameLayout \/ \E id \in LayoutIds : ApplyLayout(id) \/ SaveLayout(id) \/ DeleteLayout(id)
EditFields ==
    \/ CycleTheme \/ EditNodes \/ EditForge \/ EditLogs
    \/ \E t \in Themes : EditTheme(t)
    \/ \E r \in Roots : EditDirectory(r)
Addressing ==
    Connect \/ \E a \in Addresses : EditConnection(a) \/ ConnectTo(a) \/ Launch(a)
EditSchemes ==
    \E id \in SchemeIds :
        \/ CreateScheme(id) \/ ImportScheme(id) \/ CreateFromPreset(id)
        \/ EditScheme(id) \/ ApplyScheme(id) \/ DeleteScheme(id)
EditProfiles ==
    \/ RenameProfile
    \/ \E id \in ProfileIds :
        \/ CreateProfile(id) \/ ApplyProfile(id) \/ DeleteProfile(id)
        \/ \E a \in Addresses : ImportProfile(id, a)

PrefsNext ==
    \/ Load \/ PushArrives \/ AutoPersist \/ LeaveCustom \/ Reload \/ Restart
    \/ EditTabs \/ EditLayouts \/ EditFields \/ Addressing \/ EditSchemes \/ EditProfiles

PrefsSpec == PrefsInit /\ [][PrefsNext]_vars
(* Timers fire and pushes arrive; nobody has to edit, reload or restart.    *)
PrefsFair == PrefsSpec /\ WF_vars(Load) /\ WF_vars(PushArrives) /\ WF_vars(AutoPersist)

-----------------------------------------------------------------------------
(***************************************************************************)
(* Every variable keeps its type; the settings in memory and in the file   *)
(* are ones a start accepts, so that no start falls back to the defaults.  *)
(***************************************************************************)
PrefsTypeOK ==
    /\ \A s \in {settings, disk} : DOMAIN s = Fields /\ s.theme \in Themes
                                   /\ s.schemes \in Schemes /\ Valid(s)
    /\ root \in Roots
    /\ Shown => DOMAIN copy = Fields
    /\ IsArrangement(ui) /\ armed \in BOOLEAN /\ owed \in 0..NotOwed
    /\ Len(pushes) <= MaxPushes
    /\ failures \in 0..MaxFailures /\ edits \in 0..MaxEdits
    /\ behind \subseteq Sections

(***************************************************************************)
(* The settings are as the user has changed them, field by field and in    *)
(* each section change by change, however patches, pushes, the timer and   *)
(* restarts interleave, as long as the file could be written.  An edit is  *)
(* lost only where a section was sent from a copy that was behind in that  *)
(* very section: nothing undoes a choice in another field, and no valid    *)
(* patch is refused.  The arrangement is nobody's edit.                    *)
(***************************************************************************)
EditsAreKept ==
    failures = 0 =>
        \A f \in Fields \ {"layout"} : f \notin behind => settings[f] = said[f]

(***************************************************************************)
(* Once every push has arrived the views show the settings in force, also  *)
(* after patches refused, a reload or a restart; but for the address,      *)
(* which connection:connect changes without a word.                        *)
(***************************************************************************)
CopyCatchesUp ==
    Shown /\ pushes = <<>> =>
        \A f \in Fields \ {"address"} : copy[f] = settings[f]

(***************************************************************************)
(* The active tab is one of the tabs: on the screen, in the arrangement    *)
(* that is put back at the next start and in every named layout, although  *)
(* a named layout drops the tabs that hold their text.                     *)
(***************************************************************************)
ActiveTabExists ==
    /\ ActiveIsThere(ui)
    /\ \A s \in {settings, disk} :
          ActiveIsThere(s.layout) /\ \A id \in DOMAIN s.saved : ActiveIsThere(s.saved[id])

(***************************************************************************)
(* The arrangement that is kept is one the user had in this session or     *)
(* found at its start: the empty strip a renderer starts with never        *)
(* overwrites it ("Restores the last-used arrangement once settings finish *)
(* loading, then keeps it in sync afterward").                             *)
(***************************************************************************)
ArrangementIsTheUsers == settings.layout \in had

(***************************************************************************)
(* No sequence of edits, reloads and restarts leads to settings that the   *)
(* next start refuses, or that name a tab that is not there (settings.ts,  *)
(* ui.ts).                                                                 *)
(***************************************************************************)
SettingsAreSound == PrefsTypeOK /\ ActiveTabExists

-----------------------------------------------------------------------------
(***************************************************************************)
(* The file is written when something changed ("debounced, since ...       *)
(* settings.json is written synchronously on every patch"): when the user  *)
(* leaves settings and tabs alone the timer stops for good.                *)
(***************************************************************************)
WritesStop == <>[]~armed
(***************************************************************************)
(* What TabLayoutsSection.tsx says of the named layouts: they are separate *)
(* from the current arrangement, which the timer keeps, so that only the   *)
(* user or a start changes them.                                           *)
(***************************************************************************)
LayoutsAreSeparate ==
    [][edits' = edits /\ Shown /\ Shown' => settings'.saved = settings.saved]_vars
=============================================================================
