----------------------------- MODULE GuestPanel -----------------------------
(***************************************************************************)
(* Which guest module a page would prove: the guest panel                  *)
(* (guest-panel.ts) with its built-in examples and its custom tab, where a *)
(* module is compiled from AssemblyScript or uploaded, and the inspector   *)
(* (guest-module.ts), which asks the prover worker for the exports of one  *)
(* module at a time.                                                       *)
(*                                                                         *)
(* Compiling, reading a file, fetching a built-in and inspecting are all   *)
(* asynchronous: the user goes on meanwhile.  A module is represented by   *)
(* what its bytes are made from.                                           *)
(***************************************************************************)
EXTENDS Integers, Sequences

CONSTANTS
    Examples,     \* the built-in examples
    MaxClicks,    \* bound: what the user does, edits and dropped files included
    MaxAborts,    \* bound: respawns of the prover worker
    Faults        \* what may go wrong, see AllFaults

\* slow: a file is still being read when the mode is changed.  abort: a run is
\* aborted.
AllFaults == {"slow", "abort"}

ASSUME PanelAssumption ==
    /\ {"about", "custom"} \cap Examples = {}
    /\ MaxClicks \in Nat /\ MaxAborts \in Nat
    /\ Faults \subseteq AllFaults

VARIABLES
    tab,          \* the selected tab
    customMode,   \* "asc" or "upload"
    source,       \* the version of the AssemblyScript source in the editor
    customModule, \* the module of the custom tab
    fetched,      \* the examples whose built-in module has arrived
    timer,        \* the debounce timer of onAscChange is set
    ascSeq,       \* number of the last compile
    compiles,     \* the compiles in flight
    reading,      \* the files being read
    files,        \* number of files dropped so far
    inspector,    \* the inspector's pending module and queue
    posted,       \* the inspections posted to the prover worker
    answers,      \* its answers on their way back
    exports,      \* modules that have exports, with the module these belong to
    clicks,       \* number of things the user has done so far
    aborts        \* number of respawns so far

custom == <<customMode, source, customModule, timer, ascSeq, compiles, reading, files>>
inspecting == <<inspector, posted, answers, exports, aborts>>
vars == <<clicks, tab, fetched, custom, inspecting>>

Sources == 0..MaxClicks
Files == 1..MaxClicks
FromAsc(s) == [kind |-> "asc", from |-> s]
FromFile(f) == [kind |-> "upload", from |-> f]
Example(e) == [kind |-> "example", from |-> e]
Module == {FromAsc(s) : s \in Sources} \cup {FromFile(f) : f \in Files}
            \cup {Example(e) : e \in Examples}
NoModule == [kind |-> "none"]
MaybeModule == Module \cup {NoModule}

TypeOK ==
    /\ tab \in Examples \cup {"about", "custom"}
    /\ customMode \in {"asc", "upload"}
    /\ source \in Sources
    /\ customModule \in MaybeModule /\ customModule.kind # "example"
    /\ fetched \subseteq Examples
    /\ timer \in BOOLEAN
    /\ ascSeq \in Nat
    /\ compiles \subseteq [seq : Nat, of : Sources]
    /\ reading \subseteq Files
    /\ files \in 0..MaxClicks
    /\ inspector \in [pending : MaybeModule, queue : Seq(Module)]
    /\ posted \in Seq(Module) /\ answers \in Seq(Module)
    /\ Len(posted \o answers) <= 1     \* it inspects one module at a time
    /\ exports \subseteq Module \X Module
    /\ clicks \in 0..MaxClicks /\ aborts \in 0..MaxAborts

Init ==
    /\ tab = "about" /\ customMode = "asc" /\ source = 0
    /\ customModule = NoModule /\ fetched = {}
    /\ timer = FALSE /\ ascSeq = 0 /\ compiles = {}
    /\ reading = {} /\ files = 0
    /\ inspector = [pending |-> NoModule, queue |-> <<>>]
    /\ posted = <<>> /\ answers = <<>> /\ exports = {}
    /\ clicks = 0 /\ aborts = 0

-----------------------------------------------------------------------------
(* The inspector.  A definition X_y above X is a mutant of it, a plausible *)
(* bug; nothing uses it.                                                   *)

Drain_clobber(q, pending) ==
    IF q = <<>>
    THEN /\ inspector' = [pending |-> pending, queue |-> q]
         /\ UNCHANGED posted
    ELSE /\ inspector' = [pending |-> Head(q), queue |-> Tail(q)]
         /\ posted' = Append(posted, Head(q))

\* drain: the next module goes to the worker, unless one is pending.
Drain(q, pending) ==
    IF pending # NoModule \/ q = <<>>
    THEN /\ inspector' = [pending |-> pending, queue |-> q]
         /\ UNCHANGED posted
    ELSE /\ inspector' = [pending |-> Head(q), queue |-> Tail(q)]
         /\ posted' = Append(posted, Head(q))

Inspect(m) ==
    /\ Drain(Append(inspector.queue, m), inspector.pending)
    /\ UNCHANGED <<answers, exports, aborts>>

\* The prover worker parses the exports, or fails to.
WorkerInspects ==
    /\ posted # <<>>
    /\ posted' = Tail(posted)
    /\ answers' = Append(answers, Head(posted))
    /\ UNCHANGED <<tab, fetched, custom, inspector, exports, aborts>>

OnExports ==
    /\ answers # <<>>
    /\ answers' = Tail(answers)
    /\ exports' = IF inspector.pending = NoModule THEN exports
                  ELSE exports \cup {<<inspector.pending, Head(answers)>>}
    /\ Drain(inspector.queue, NoModule)
    /\ UNCHANGED <<tab, fetched, custom, aborts>>

OnExportsError_stuck ==
    /\ answers # <<>>
    /\ answers' = Tail(answers)
    /\ UNCHANGED <<tab, fetched, custom, inspector, posted, exports, aborts>>

\* An uploaded file need not be a module.
OnExportsError ==
    /\ answers # <<>> /\ Head(answers).kind = "upload"
    /\ answers' = Tail(answers)
    /\ Drain(inspector.queue, NoModule)
    /\ UNCHANGED <<tab, fetched, custom, exports, aborts>>

\* RunController.abort terminates the prover worker and spawns another.
Abort ==
    /\ "abort" \in Faults /\ aborts < MaxAborts
    /\ aborts' = aborts + 1
    /\ posted' = <<>> /\ answers' = <<>>
    /\ UNCHANGED <<tab, fetched, custom, inspector, exports>>

-----------------------------------------------------------------------------
(* The custom tab.                                                         *)

SetCustomWasm(m) ==
    /\ customModule' = m
    /\ Inspect(m)

\* compileAsc, up to its await, of the source as it is in the editor.
CompileAsc ==
    /\ ascSeq' = ascSeq + 1
    /\ compiles' = compiles \cup {[seq |-> ascSeq + 1, of |-> source]}

\* The tab that is shown may be selected again.
SelectTab(t) ==
    /\ tab' = t
    /\ IF t = "custom" /\ customMode = "asc" /\ customModule = NoModule
       THEN CompileAsc ELSE UNCHANGED <<ascSeq, compiles>>
    /\ UNCHANGED <<fetched, customMode, source, customModule, timer, reading, files,
                   inspecting>>

EditSource ==
    /\ tab = "custom" /\ customMode = "asc"
    /\ source' = source + 1
    /\ timer' = TRUE
    /\ UNCHANGED <<tab, fetched, customMode, customModule, ascSeq, compiles, reading,
                   files, inspecting>>

TimerFires ==
    /\ timer
    /\ timer' = FALSE
    /\ CompileAsc
    /\ UNCHANGED <<tab, fetched, customMode, source, customModule, reading, files,
                   inspecting>>

CompileDone_anySeq(c) ==
    /\ c \in compiles
    /\ compiles' = compiles \ {c}
    /\ SetCustomWasm(FromAsc(c.of))
    /\ UNCHANGED <<tab, fetched, customMode, source, timer, ascSeq, reading, files>>

\* compileAsc after its await: the result of a superseded compile is dropped.
CompileDone(c) ==
    /\ c \in compiles
    /\ compiles' = compiles \ {c}
    /\ IF c.seq = ascSeq
       THEN SetCustomWasm(FromAsc(c.of))
       ELSE UNCHANGED <<customModule, inspecting>>
    /\ UNCHANGED <<tab, fetched, customMode, source, timer, ascSeq, reading, files>>

\* The source has an error.
CompileFails(c) ==
    /\ c \in compiles
    /\ compiles' = compiles \ {c}
    /\ customModule' = IF c.seq = ascSeq THEN NoModule ELSE customModule
    /\ UNCHANGED <<tab, fetched, customMode, source, timer, ascSeq, reading, files,
                   inspecting>>

\* applyCustomMode.
SwitchMode ==
    /\ tab = "custom"
    /\ reading = {} \/ "slow" \in Faults
    /\ IF customMode = "upload"
       THEN /\ customMode' = "asc"
            /\ CompileAsc
            /\ UNCHANGED customModule
       ELSE /\ customMode' = "upload"
            /\ customModule' = NoModule
            /\ UNCHANGED <<ascSeq, compiles>>
    /\ UNCHANGED <<tab, fetched, source, timer, reading, files, inspecting>>

DropFile ==
    /\ tab = "custom" /\ customMode = "upload"
    /\ files' = files + 1
    /\ reading' = reading \cup {files + 1}
    /\ UNCHANGED <<tab, fetched, customMode, source, customModule, timer, ascSeq,
                   compiles, inspecting>>

\* loadFile after its await.
FileRead(f) ==
    /\ f \in reading
    /\ reading' = reading \ {f}
    /\ SetCustomWasm(FromFile(f))
    /\ UNCHANGED <<tab, fetched, customMode, source, timer, ascSeq, compiles, files>>

\* The read rejects, which nothing in loadFile or its callers handles.
FileFails(f) ==
    /\ f \in reading
    /\ reading' = reading \ {f}
    /\ UNCHANGED <<tab, fetched, customMode, source, customModule, timer, ascSeq,
                   compiles, files, inspecting>>

-----------------------------------------------------------------------------

\* A built-in module arrives.
RegisterExample(e) ==
    /\ e \in Examples \ fetched
    /\ fetched' = fetched \cup {e}
    /\ Inspect(Example(e))
    /\ UNCHANGED <<tab, custom>>

User ==
    /\ clicks < MaxClicks
    /\ clicks' = clicks + 1
    /\ \/ \E t \in Examples \cup {"about", "custom"} : SelectTab(t)
       \/ EditSource
       \/ SwitchMode
       \/ DropFile

Async ==
    \/ TimerFires
    \/ \E c \in compiles : CompileDone(c) \/ CompileFails(c)
    \/ \E f \in reading : FileRead(f) \/ FileFails(f)
    \/ \E e \in Examples : RegisterExample(e)

Answered == OnExports \/ OnExportsError

Program == (Async \/ WorkerInspects \/ Answered \/ Abort) /\ UNCHANGED clicks

Next == User \/ Program

\* What was started finishes.  The user need not do anything.
Fairness ==
    /\ WF_vars(Async /\ UNCHANGED clicks)
    /\ WF_vars(WorkerInspects /\ UNCHANGED clicks)
    /\ WF_vars(Answered /\ UNCHANGED clicks)

Spec == Init /\ [][Next]_vars
FairSpec == Spec /\ Fairness

-----------------------------------------------------------------------------
(* Properties.                                                             *)

\* The exports a module is given are its own: the inspector attributes an
\* answer, which does not name its module, to the right one (initInspector).
ExportsBelong == \A pair \in exports : pair[1] = pair[2]

\* Once nothing is in flight, a compiled module of the custom tab in
\* AssemblyScript mode is the one compiled from the source in the editor, however
\* late and in whatever order compiles answer (compileAsc, ascSeq).  The verifier
\* of a remote run relies on it: it compiles the source and refuses another
\* binary.
Settled == ~timer /\ compiles = {} /\ reading = {}
CompiledIsSource ==
    Settled /\ customMode = "asc" /\ customModule.kind = "asc"
      => customModule = FromAsc(source)

\* The inspector gets through its queue.  Guarded: an abort may terminate the
\* worker during an inspection.
Inspected ==
    inspector.pending # NoModule ~>
        (inspector.pending = NoModule /\ inspector.queue = <<>>) \/ aborts > 0

-----------------------------------------------------------------------------
(* What the comments say and the code does not do.                         *)

\* In AssemblyScript mode the module is not an uploaded one (applyCustomMode:
\* "the AS source is now the source of truth").
SourceIsTruth == Settled /\ customMode = "asc" => customModule.kind # "upload"

\* In upload mode the module is an uploaded one, and none before an upload
\* (applyCustomMode: "wait for an upload").
UploadWaits ==
    customMode = "upload" => customModule.kind \in {"none", "upload"}
=============================================================================
