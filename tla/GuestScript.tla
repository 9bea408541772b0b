----------------------------- MODULE GuestScript -----------------------------
(***************************************************************************)
(* The orchestration scripts of the guest panel: one per tab, all in one   *)
(* editor.  The custom tab's is a starter that customStarter generates for *)
(* the module, until the user writes one of his own; it is generated anew  *)
(* when an inspection of the module comes back, which may be long after    *)
(* the user went on.  Each step of GuestPanel is taken with what it does   *)
(* to the scripts.                                                         *)
(***************************************************************************)
EXTENDS GuestPanel

VARIABLES
    doc,                \* the text in the editor
    scripts,            \* per tab but "about": its script, as last saved
    lastCustomStarter,  \* the starter last written
    forceStarterRegen,  \* the next one is written whatever the script is
    place,              \* of the custom module in the inspector's line, or 0
    typed,              \* history: the tabs whose script the user has written
    owed                \* history: the user has asked for the AssemblyScript starter

scriptVars == <<doc, scripts, lastCustomStarter, forceStarterRegen, place, typed, owed>>

Tabs == Examples \cup {"custom"}

\* A text is the script a tab comes with, the user's, or a module's starter.
Original(t) == [kind |-> "original", from |-> t]
Users(t) == [kind |-> "typed", from |-> t]
CustomStarter(m) == [kind |-> "starter", from |-> m]

ScriptInit ==
    /\ \E e \in Examples : doc = Original(e)
    /\ scripts = [t \in Tabs |-> Original(t)]
    /\ lastCustomStarter = Original("custom")
    /\ forceStarterRegen = FALSE
    /\ place = 0
    /\ typed = {} /\ owed = FALSE

-----------------------------------------------------------------------------

\* The user writes into the editor, when it is shown.
EditScript ==
    /\ tab # "about"
    /\ tab = "custom" => customModule # NoModule
    /\ doc' = Users(tab)
    /\ typed' = typed \cup {tab}
    /\ UNCHANGED <<tab, fetched, custom, inspecting,
                   scripts, lastCustomStarter, forceStarterRegen, place, owed>>

SwapScripts_late(t) ==
    /\ scripts' = IF tab = "about" \/ t = "about" THEN scripts
                  ELSE [scripts EXCEPT ![t] = doc]
    /\ doc' = IF t = "about" THEN doc ELSE scripts'[t]

\* selectTab saves the script of the tab that is left.
SwapScripts(t) ==
    /\ scripts' = IF tab = "about" THEN scripts ELSE [scripts EXCEPT ![tab] = doc]
    /\ doc' = IF t = "about" THEN doc ELSE scripts'[t]

SelectTabScript(t) ==
    /\ SelectTab(t)
    /\ SwapScripts(t)
    /\ UNCHANGED <<lastCustomStarter, forceStarterRegen, place, typed, owed>>

SwitchModeScript ==
    /\ SwitchMode
    /\ IF customMode' = "asc"
       THEN forceStarterRegen' = TRUE /\ owed' = TRUE /\ UNCHANGED place
       ELSE place' = 0 /\ UNCHANGED <<forceStarterRegen, owed>>
    /\ UNCHANGED <<doc, scripts, lastCustomStarter, typed>>

\* setCustomWasm lines the module up for inspection, behind what is there.
InLine == Len(inspector.queue) + (IF inspector.pending = NoModule THEN 0 ELSE 1)

Adopt(step, adopted) ==
    /\ step
    /\ place' = IF adopted THEN InLine + 1 ELSE place
    /\ UNCHANGED <<doc, scripts, lastCustomStarter, forceStarterRegen, typed, owed>>

CompileFailsScript(c) ==
    /\ CompileFails(c)
    /\ IF c.seq = ascSeq
       THEN forceStarterRegen' = FALSE /\ place' = 0
       ELSE UNCHANGED <<forceStarterRegen, place>>
    /\ UNCHANGED <<doc, scripts, lastCustomStarter, typed, owed>>

Remember_not(text) == UNCHANGED lastCustomStarter

Remember(text) == lastCustomStarter' = text

\* onModuleResolved for the custom module.  A user who has asked for a starter since
\* he wrote his own script gets it.
Resolved ==
    LET current == IF tab = "custom" THEN doc ELSE scripts["custom"]
        starter == CustomStarter(customModule)
    IN  /\ IF forceStarterRegen \/ current = lastCustomStarter
           THEN /\ scripts' = [scripts EXCEPT !["custom"] = starter]
                /\ Remember(starter)
                /\ doc' = IF tab = "custom" THEN starter ELSE doc
                /\ typed' = IF owed THEN typed \ {"custom"} ELSE typed
           ELSE UNCHANGED <<scripts, lastCustomStarter, doc, typed>>
        /\ forceStarterRegen' = FALSE
        /\ owed' = FALSE

\* The first in the inspector's line has its answer.  One without exports is not
\* resolved.
Served ==
    \/ /\ OnExports
       /\ IF place = 1 THEN Resolved
          ELSE UNCHANGED <<doc, scripts, lastCustomStarter, forceStarterRegen, typed, owed>>
       /\ place' = IF place = 0 THEN 0 ELSE place - 1
    \/ /\ OnExportsError
       /\ place' = IF place = 0 THEN 0 ELSE place - 1
       /\ UNCHANGED <<doc, scripts, lastCustomStarter, forceStarterRegen, typed, owed>>

-----------------------------------------------------------------------------

ScriptUser ==
    /\ clicks < MaxClicks
    /\ clicks' = clicks + 1
    /\ \/ \E t \in Tabs \cup {"about"} : SelectTabScript(t)
       \/ EditScript
       \/ SwitchModeScript
       \/ (EditSource \/ DropFile) /\ UNCHANGED scriptVars

ScriptProgram ==
    /\ UNCHANGED clicks
    /\ \/ \E c \in compiles :
            Adopt(CompileDone(c), c.seq = ascSeq) \/ CompileFailsScript(c)
       \/ \E f \in reading : Adopt(FileRead(f), TRUE)
       \/ Served
       \/ /\ \/ TimerFires \/ WorkerInspects \/ Abort
             \/ \E f \in reading : FileFails(f)
             \/ \E e \in Examples : RegisterExample(e)
          /\ UNCHANGED scriptVars

PanelInit == Init /\ ScriptInit

ScriptSpec ==
    PanelInit /\ [][ScriptUser \/ ScriptProgram]_<<vars, scriptVars>> /\ Fairness

-----------------------------------------------------------------------------
(* Properties.                                                             *)

ScriptOf(t) == IF t = tab THEN doc ELSE scripts[t]

\* A tab's script is the one that came with it or what the user wrote there, however
\* tabs are changed while inspections come back; the custom tab keeps what the user
\* wrote, but for the one starter he gets for switching to AssemblyScript (selectTab,
\* onModuleResolved, "bypass the no-clobber gate once").
ScriptsStayPut ==
    /\ \A e \in Examples : ScriptOf(e) = IF e \in typed THEN Users(e) ELSE Original(e)
    /\ "custom" \in typed => ScriptOf("custom") = Users("custom")

\* At rest, a script of the custom tab that is not the user's is the starter of the
\* module that Prove would run (customStarter: "so a freshly compiled/dropped module
\* runs immediately"), if it has exports and its inspection was not lost.
StarterFits ==
    Settled /\ place = 0 /\ <<customModule, customModule>> \in exports =>
        ScriptOf("custom") \in {Users("custom"), CustomStarter(customModule)}
=============================================================================
