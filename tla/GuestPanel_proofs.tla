------------------------- MODULE GuestPanel_proofs -------------------------
(***************************************************************************)
(* That the guest panel is never mistaken about the module it would prove: *)
(* the exports it shows, the source its module is compiled from and the    *)
(* script that goes with it, for any number of examples, clicks, edits,    *)
(* dropped files and respawns of the worker.                               *)
(***************************************************************************)
EXTENDS GuestScript, SequenceTheorems, TLAPS

-----------------------------------------------------------------------------
(* Modules.                                                                *)

\* A module is known by its kind and by what it is made from.
LEMMA ModuleKinds ==
    /\ \A s \in Sources : FromAsc(s) \in Module /\ FromAsc(s).kind = "asc"
    /\ \A f \in Files : FromFile(f) \in Module /\ FromFile(f).kind = "upload"
    /\ \A e \in Examples : Example(e) \in Module /\ Example(e).kind = "example"
    /\ NoModule.kind = "none" /\ NoModule \notin Module
    /\ \A m \in Module : m.kind = "upload" => \E f \in Files : m = FromFile(f)
    /\ \A f, g \in Files : FromFile(f) = FromFile(g) => f = g
<1>1. /\ \A s \in Sources : FromAsc(s) \in Module
      /\ \A f \in Files : FromFile(f) \in Module
      /\ \A e \in Examples : Example(e) \in Module
  <2>1. ASSUME NEW s \in Sources PROVE FromAsc(s) \in Module
    BY DEF Module
  <2>2. ASSUME NEW f \in Files PROVE FromFile(f) \in Module
    BY DEF Module
  <2>3. ASSUME NEW e \in Examples PROVE Example(e) \in Module
    BY DEF Module
  <2> QED
    BY <2>1, <2>2, <2>3
<1>2. /\ \A s \in Sources : FromAsc(s).kind = "asc"
      /\ \A f \in Files : FromFile(f).kind = "upload" /\ FromFile(f).from = f
      /\ \A e \in Examples : Example(e).kind = "example"
      /\ NoModule.kind = "none"
  BY DEF FromAsc, FromFile, Example, NoModule
<1>3. ASSUME NEW m \in Module
      PROVE  \/ \E s \in Sources : m = FromAsc(s)
             \/ \E f \in Files : m = FromFile(f)
             \/ \E e \in Examples : m = Example(e)
  BY DEF Module
<1>4. \A m \in Module : m.kind # "none"
  BY <1>2, <1>3
<1>5. \A m \in Module : m.kind = "upload" => \E f \in Files : m = FromFile(f)
  BY <1>2, <1>3
<1>6. \A f, g \in Files : FromFile(f) = FromFile(g) => f = g
  BY <1>2
<1> QED
  BY <1>1, <1>2, <1>4, <1>5, <1>6

-----------------------------------------------------------------------------
(* The inspector.                                                          *)

\* The modules that are inspected or wait for it.
Line == IF inspector.pending = NoModule THEN << >>
        ELSE <<inspector.pending>> \o inspector.queue

InspectorType ==
    /\ inspector \in [pending : MaybeModule, queue : Seq(Module)]
    /\ posted \in Seq(Module) /\ answers \in Seq(Module)
    /\ exports \subseteq Module \X Module
    /\ aborts \in 0..MaxAborts

\* Only the pending module is with the worker, and none waits unless one is pending.
OneAtATime ==
    /\ inspector.pending = NoModule =>
          inspector.queue = << >> /\ posted = << >> /\ answers = << >>
    /\ posted # << >> => posted = <<inspector.pending>> /\ answers = << >>
    /\ answers # << >> => answers = <<inspector.pending>> /\ posted = << >>

InspectorInv == InspectorType /\ OneAtATime /\ ExportsBelong

\* Whoever is alone with the worker fits into a line of one.
LEMMA OneInLine == InspectorInv => Len(posted \o answers) <= 1
<1> SUFFICES ASSUME InspectorInv PROVE Len(posted \o answers) <= 1
  OBVIOUS
<1>1. Len(posted \o answers) = Len(posted) + Len(answers)
  BY DEF InspectorInv, InspectorType
<1>2. Len(posted) \in {0, 1} /\ Len(answers) \in {0, 1} /\ (posted = << >> \/ answers = << >>)
  BY DEF InspectorInv, OneAtATime
<1>3. posted = << >> => Len(posted) = 0
  OBVIOUS
<1>4. answers = << >> => Len(answers) = 0
  OBVIOUS
<1>5. Len(posted) \in Nat /\ Len(answers) \in Nat
  BY DEF InspectorInv, InspectorType
<1>6. CASE posted = << >>
  BY <1>1, <1>2, <1>3, <1>5, <1>6
<1>7. CASE answers = << >>
  BY <1>1, <1>2, <1>4, <1>5, <1>7
<1> QED
  BY <1>2, <1>6, <1>7

\* The line is the pending module and then the queue.
LEMMA InTheLine ==
    ASSUME InspectorInv
    PROVE  /\ Line \in Seq(Module)
           /\ inspector.pending = NoModule => Line = << >>
           /\ inspector.pending # NoModule =>
                /\ inspector.pending \in Module
                /\ Len(Line) = Len(inspector.queue) + 1
                /\ Line[1] = inspector.pending
                /\ \A i \in 1..Len(inspector.queue) : Line[i + 1] = inspector.queue[i]
           /\ InLine = Len(Line)
<1>1. inspector.queue \in Seq(Module) /\ inspector.pending \in MaybeModule
  BY DEF InspectorInv, InspectorType
<1>2. CASE inspector.pending = NoModule
  <2>1. Line = << >> /\ inspector.queue = << >>
    BY <1>2 DEF Line, InspectorInv, OneAtATime
  <2> QED
    BY <1>2, <2>1, EmptySeq DEF InLine
<1>3. CASE inspector.pending # NoModule
  <2>1. inspector.pending \in Module /\ Line = <<inspector.pending>> \o inspector.queue
    BY <1>1, <1>3 DEF MaybeModule, Line
  <2>2. <<inspector.pending>> \in Seq(Module) /\ Len(<<inspector.pending>>) = 1
    BY <2>1
  <2>3. /\ Line \in Seq(Module) /\ Len(Line) = 1 + Len(inspector.queue)
        /\ Line[1] = inspector.pending
        /\ \A i \in 1..Len(inspector.queue) : Line[i + 1] = inspector.queue[i]
    BY <1>1, <2>1, <2>2
  <2> QED
    BY <1>1, <1>3, <2>1, <2>3 DEF InLine
<1> QED
  BY <1>2, <1>3

\* A module that is to be inspected goes to the end of the line.
LEMMA InspectKeeps ==
    ASSUME InspectorInv, NEW m \in Module, Inspect(m)
    PROVE  InspectorInv' /\ Line' = Append(Line, m) /\ exports' = exports
<1> DEFINE q == inspector.queue
           p == inspector.pending
<1>1. /\ q \in Seq(Module) /\ p \in MaybeModule /\ Append(q, m) \in Seq(Module)
      /\ Append(q, m) # << >>
      /\ UNCHANGED <<answers, exports, aborts>>
  <2>1. q \in Seq(Module) /\ p \in MaybeModule
    BY DEF InspectorInv, InspectorType
  <2>2. UNCHANGED <<answers, exports, aborts>>
    BY DEF Inspect
  <2> QED
    BY <2>1, <2>2
<1>2. CASE p = NoModule
  <2>1. q = << >> /\ posted = << >> /\ answers = << >> /\ Line = << >>
    BY <1>2 DEF InspectorInv, OneAtATime, Line
  <2>2. Append(q, m) = <<m>> /\ Head(<<m>>) = m /\ Tail(<<m>>) = << >>
    BY <2>1
  <2>3. inspector' = [pending |-> m, queue |-> << >>] /\ posted' = <<m>>
    BY <1>1, <1>2, <2>1, <2>2 DEF Inspect, Drain
  <2>4. m # NoModule /\ <<m>> \in Seq(Module) /\ << >> \in Seq(Module)
    BY ModuleKinds
  <2>5. InspectorInv'
    BY <1>1, <2>1, <2>3, <2>4
       DEF InspectorInv, InspectorType, OneAtATime, ExportsBelong, MaybeModule
  <2>6. Line' = <<m>> \o << >>
    BY <2>3, <2>4 DEF Line
  <2>7. Line' = <<m>>
    BY <2>4, <2>6
  <2> QED
    BY <1>1, <2>1, <2>5, <2>7
<1>3. CASE p # NoModule
  <2>1. inspector' = [pending |-> p, queue |-> Append(q, m)] /\ posted' = posted
    BY <1>3 DEF Inspect, Drain
  <2>2. InspectorInv'
    BY <1>1, <1>3, <2>1 DEF InspectorInv, InspectorType, OneAtATime, ExportsBelong
  <2>3. p \in Module /\ <<p>> \in Seq(Module)
    BY <1>1, <1>3 DEF MaybeModule
  <2>4. Line = <<p>> \o q /\ Line' = <<p>> \o Append(q, m)
    BY <1>3, <2>1 DEF Line
  <2>5. <<p>> \o Append(q, m) = Append(<<p>> \o q, m)
    BY <1>1, <2>3
  <2> QED
    BY <1>1, <2>2, <2>4, <2>5
<1> QED
  BY <1>2, <1>3

\* An answer is about the first in the line, and the next goes to the worker.
LEMMA AnswerServes ==
    ASSUME InspectorInv, answers # << >>, answers' = Tail(answers),
           Drain(inspector.queue, NoModule), UNCHANGED aborts
    PROVE  /\ inspector.pending \in Module /\ Head(answers) = inspector.pending
           /\ Line # << >> /\ Line[1] = inspector.pending
           /\ Line' = Tail(Line)
           /\ OneAtATime'
           /\ inspector' \in [pending : MaybeModule, queue : Seq(Module)]
           /\ posted' \in Seq(Module) /\ answers' \in Seq(Module)
<1> DEFINE q == inspector.queue
           p == inspector.pending
<1>1. /\ q \in Seq(Module) /\ p \in MaybeModule /\ p # NoModule
      /\ answers = <<p>> /\ posted = << >>
  BY DEF InspectorInv, InspectorType, OneAtATime
<1>2. p \in Module /\ Head(answers) = p /\ answers' = << >>
  BY <1>1 DEF MaybeModule
<1>3. /\ Line \in Seq(Module) /\ Len(Line) = Len(q) + 1 /\ Line[1] = p
      /\ \A i \in 1..Len(q) : Line[i + 1] = q[i]
  BY <1>1, InTheLine
<1>4. Line # << >> /\ Tail(Line) = q
  <2>1. Line # << >>
    BY <1>1, <1>3
  <2>2. /\ Tail(Line) \in Seq(Module) /\ Len(Tail(Line)) = Len(q)
        /\ \A i \in 1..Len(q) : Tail(Line)[i] = q[i]
    BY <1>1, <1>3, <2>1
  <2> QED
    BY <1>1, <2>1, <2>2, SeqEqual
<1>5. CASE q = << >>
  <2>1. inspector' = [pending |-> NoModule, queue |-> << >>] /\ posted' = << >>
    BY <1>1, <1>5 DEF Drain
  <2>2. Line' = << >> /\ OneAtATime'
    BY <1>2, <2>1 DEF Line, OneAtATime
  <2> QED
    BY <1>1, <1>2, <1>3, <1>4, <1>5, <2>1, <2>2, EmptySeq DEF MaybeModule
<1>6. CASE q # << >>
  <2>1. inspector' = [pending |-> Head(q), queue |-> Tail(q)] /\ posted' = <<Head(q)>>
    BY <1>1, <1>6 DEF Drain
  <2>2. Head(q) \in Module /\ Tail(q) \in Seq(Module) /\ Head(q) # NoModule
    BY <1>1, <1>6, ModuleKinds
  <2>3. OneAtATime'
    BY <1>2, <2>1, <2>2 DEF OneAtATime
  <2>4. Line' = <<Head(q)>> \o Tail(q)
    BY <2>1, <2>2 DEF Line
  <2>5. <<Head(q)>> \o Tail(q) = q
    BY <1>1, <1>6, <2>2
  <2>6. <<Head(q)>> \in Seq(Module) /\ << >> \in Seq(Module)
    BY <2>2
  <2> QED
    BY <1>1, <1>2, <1>3, <1>4, <2>1, <2>2, <2>3, <2>4, <2>5, <2>6 DEF MaybeModule
<1> QED
  BY <1>5, <1>6

-----------------------------------------------------------------------------
(* The custom tab.                                                         *)

CustomType ==
    /\ tab \in Examples \cup {"about", "custom"}
    /\ customMode \in {"asc", "upload"}
    /\ customModule \in MaybeModule /\ customModule.kind # "example"
    /\ fetched \subseteq Examples
    /\ timer \in BOOLEAN
    /\ ascSeq \in Nat
    /\ compiles \subseteq [seq : Nat, of : Sources]

\* An edit and a dropped file are things the user does.
Counted ==
    /\ clicks \in 0..MaxClicks
    /\ source \in 0..clicks /\ files \in 0..clicks
    /\ reading \subseteq 1..files

\* Unless an edit still waits for its compile, the latest compile is of the source as
\* it is, and so is the module that it left.
Latest(c) == c.seq = ascSeq
LatestCompile ==
    /\ \A c \in compiles : c.seq <= ascSeq
    /\ ~timer => \A c \in compiles : Latest(c) => c.of = source
    /\ ~timer /\ customModule.kind = "asc" /\ (\A c \in compiles : ~Latest(c)) =>
          customModule = FromAsc(source)

\* A file is read once, so its module is in the line once and has no exports before.
Exported(m) == <<m, m>> \in exports
UploadsOnce ==
    \A f \in Files :
        /\ \A i, j \in 1..Len(Line) : Line[i] = FromFile(f) /\ Line[j] = FromFile(f) => i = j
        /\ (\E i \in 1..Len(Line) : Line[i] = FromFile(f)) =>
              ~Exported(FromFile(f)) /\ f \notin reading /\ f <= files
        /\ Exported(FromFile(f)) => f \notin reading /\ f <= files

PanelInv == InspectorInv /\ CustomType /\ Counted /\ LatestCompile /\ UploadsOnce

LEMMA PanelTypes == PanelInv => TypeOK
<1> SUFFICES ASSUME PanelInv PROVE TypeOK
  OBVIOUS
<1>1. source \in Sources /\ reading \subseteq Files /\ files \in 0..MaxClicks
  BY PanelAssumption DEF PanelInv, Counted, Sources, Files
<1> QED
  BY <1>1, OneInLine DEF PanelInv, Counted, CustomType, InspectorInv, InspectorType, TypeOK

LEMMA PanelCompiled == PanelInv => CompiledIsSource
  BY DEF PanelInv, LatestCompile, CompiledIsSource, Settled

LEMMA PanelStarts == Init => PanelInv
<1> SUFFICES ASSUME Init PROVE PanelInv
  OBVIOUS
<1> USE DEF Init
<1>1. << >> \in Seq(Module) /\ inspector.pending = NoModule
  OBVIOUS
<1>2. Line = << >> /\ InspectorInv
  BY <1>1, PanelAssumption
     DEF Line, InspectorInv, InspectorType, OneAtATime, ExportsBelong, MaybeModule
<1>3. CustomType
  BY ModuleKinds DEF CustomType, MaybeModule
<1>4. Counted /\ LatestCompile
  BY PanelAssumption, ModuleKinds DEF Counted, LatestCompile
<1>5. UploadsOnce
  BY <1>2 DEF UploadsOnce, Exported
<1> QED
  BY <1>2, <1>3, <1>4, <1>5 DEF PanelInv

\* The clicks of a step of the user's, and of one of the program's.
Counts == clicks' \in {clicks, clicks + 1} /\ clicks' <= MaxClicks
Clicks == clicks' = clicks + 1 /\ clicks' <= MaxClicks

\* What a step keeps that leaves the inspector alone.
LEMMA InspectorFrame ==
    ASSUME InspectorInv, UNCHANGED inspecting
    PROVE  InspectorInv' /\ Line' = Line /\ exports' = exports
  BY DEF inspecting, Line, InspectorInv, InspectorType, OneAtATime, ExportsBelong

\* A file that starts to be read is a new one.
LEMMA UploadsFrame ==
    ASSUME UploadsOnce, Line' = Line, exports' = exports, files \in Nat, files' \in Nat,
           files <= files', \A f \in reading' \ reading : f > files
    PROVE  UploadsOnce'
<1> SUFFICES ASSUME NEW f \in Files
             PROVE  /\ (\E i \in 1..Len(Line) : Line[i] = FromFile(f)) =>
                          ~Exported(FromFile(f))' /\ f \notin reading' /\ f <= files'
                    /\ Exported(FromFile(f))' => f \notin reading' /\ f <= files'
  BY DEF UploadsOnce
<1>1. f \in Int
  BY DEF Files
<1>2. f <= files /\ f \notin reading => f <= files' /\ f \notin reading'
  BY <1>1
<1>3. Exported(FromFile(f))' <=> Exported(FromFile(f))
  BY DEF Exported
<1> QED
  BY <1>2, <1>3 DEF UploadsOnce

-----------------------------------------------------------------------------
(* The steps of the panel, one lemma each.                                 *)

\* The steps that neither inspect a module nor edit or drop a file.
Aside == UNCHANGED <<inspecting, source, reading, files>>
LEMMA AsideKeeps ==
    ASSUME PanelInv, Aside, Counts
    PROVE  InspectorInv' /\ UploadsOnce' /\ Counted'
  BY InspectorFrame, UploadsFrame DEF Aside, PanelInv, Counted, Counts

\* A compile is of the source as it is, and later than all before.
LEMMA CompileAscKeeps ==
    ASSUME CustomType, LatestCompile, Counted, CompileAsc, UNCHANGED source
    PROVE  /\ ascSeq' \in Nat /\ compiles' \subseteq [seq : Nat, of : Sources]
           /\ LatestCompile'
<1> DEFINE new == [seq |-> ascSeq + 1, of |-> source]
<1>1. /\ ascSeq \in Nat /\ source \in Sources
      /\ compiles \subseteq [seq : Nat, of : Sources]
  BY PanelAssumption DEF CustomType, Counted, Sources
<1>2. ascSeq' = ascSeq + 1 /\ compiles' = compiles \cup {new}
  BY DEF CompileAsc
<1>3. new \in [seq : Nat, of : Sources] /\ new.seq = ascSeq + 1 /\ new.of = source
  BY <1>1
<1> HIDE DEF new
<1>4. \A c \in compiles : c.seq \in Nat /\ c.seq < ascSeq'
  BY <1>1, <1>2 DEF LatestCompile
<1>5. new \in compiles' /\ new.seq = ascSeq'
  BY <1>2, <1>3
<1>6. \A c \in compiles' : c.seq <= ascSeq' /\ (c.seq = ascSeq' => c = new)
  BY <1>1, <1>2, <1>3, <1>4
<1> QED
  BY <1>1, <1>2, <1>3, <1>5, <1>6 DEF LatestCompile, Latest

\* Changing the tab may compile the source.
LEMMA SelectTabKeeps ==
    ASSUME PanelInv, NEW t \in Examples \cup {"about", "custom"}, SelectTab(t), Clicks
    PROVE  PanelInv'
<1>1. /\ tab' = t
      /\ UNCHANGED <<fetched, customMode, source, customModule, timer>>
      /\ Aside
  BY DEF SelectTab, Aside
<1>2. InspectorInv' /\ UploadsOnce' /\ Counted'
  BY <1>1, AsideKeeps DEF Clicks, Counts
<1>3. CASE UNCHANGED <<ascSeq, compiles>>
  BY <1>1, <1>2, <1>3 DEF PanelInv, CustomType, LatestCompile, Latest
<1>4. CASE CompileAsc
  BY <1>1, <1>2, <1>4, CompileAscKeeps DEF PanelInv, CustomType
<1> QED
  BY <1>3, <1>4 DEF SelectTab

\* An edit is waited for.
LEMMA EditSourceKeeps ==
    ASSUME PanelInv, EditSource, Clicks
    PROVE  PanelInv'
<1>1. /\ source' = source + 1 /\ timer' = TRUE
      /\ UNCHANGED <<tab, fetched, customMode, customModule, ascSeq, compiles>>
      /\ UNCHANGED <<reading, files, inspecting>>
  BY DEF EditSource
<1>2. InspectorInv' /\ UploadsOnce'
  BY <1>1, InspectorFrame, UploadsFrame DEF PanelInv, Counted
<1>3. Counted'
  BY <1>1 DEF PanelInv, Counted, Clicks
<1>4. CustomType' /\ LatestCompile'
  BY <1>1 DEF PanelInv, CustomType, LatestCompile
<1> QED
  BY <1>2, <1>3, <1>4 DEF PanelInv

\* The timer of an edit compiles it.
LEMMA TimerFiresKeeps ==
    ASSUME PanelInv, TimerFires, UNCHANGED clicks
    PROVE  PanelInv'
<1>1. /\ timer' = FALSE /\ CompileAsc
      /\ UNCHANGED <<tab, fetched, customMode, source, customModule>>
      /\ Aside
  BY DEF TimerFires, Aside
<1>2. Counts
  BY DEF PanelInv, Counted, Counts
<1>3. InspectorInv' /\ UploadsOnce' /\ Counted'
  BY <1>1, <1>2, AsideKeeps
<1>4. LatestCompile'
  BY <1>1, CompileAscKeeps DEF PanelInv
<1>5. CustomType'
  BY <1>1, CompileAscKeeps DEF PanelInv, CustomType
<1> QED
  BY <1>3, <1>4, <1>5 DEF PanelInv

\* A compile with an error leaves no module.
LEMMA CompileFailsKeeps ==
    ASSUME PanelInv, NEW c \in compiles, CompileFails(c), UNCHANGED clicks
    PROVE  PanelInv'
<1>1. /\ compiles' = compiles \ {c}
      /\ customModule' = IF Latest(c) THEN NoModule ELSE customModule
      /\ UNCHANGED <<tab, fetched, customMode, timer, ascSeq>>
      /\ Aside
  BY DEF CompileFails, Aside, Latest
<1>2. Counts
  BY DEF PanelInv, Counted, Counts
<1>3. InspectorInv' /\ UploadsOnce' /\ Counted'
  BY <1>1, <1>2, AsideKeeps
<1>4. CustomType'
  BY <1>1, ModuleKinds DEF PanelInv, CustomType, MaybeModule
<1>5. LatestCompile'
  <2>1. UNCHANGED <<source, timer, ascSeq>>
    BY <1>1 DEF Aside
  <2>2. CASE Latest(c)
    BY <1>1, <2>1, <2>2, ModuleKinds DEF PanelInv, LatestCompile, Latest
  <2>3. CASE ~Latest(c)
    BY <1>1, <2>1, <2>3 DEF PanelInv, LatestCompile, Latest
  <2> QED
    BY <2>2, <2>3
<1> QED
  BY <1>3, <1>4, <1>5 DEF PanelInv

\* The custom tab forgets its module when it waits for an upload.
LEMMA SwitchModeKeeps ==
    ASSUME PanelInv, SwitchMode, Clicks
    PROVE  PanelInv'
<1>1. UNCHANGED <<tab, fetched, source, timer>> /\ Aside
  BY DEF SwitchMode, Aside
<1>2. InspectorInv' /\ UploadsOnce' /\ Counted'
  BY <1>1, AsideKeeps DEF Clicks, Counts
<1>3. CASE customMode' = "asc" /\ CompileAsc /\ UNCHANGED customModule
  BY <1>1, <1>2, <1>3, CompileAscKeeps DEF PanelInv, CustomType
<1>4. CASE /\ customMode' = "upload" /\ customModule' = NoModule
           /\ UNCHANGED <<ascSeq, compiles>>
  BY <1>1, <1>2, <1>4, ModuleKinds
     DEF PanelInv, CustomType, LatestCompile, Latest, MaybeModule
<1> QED
  BY <1>3, <1>4 DEF SwitchMode

\* A dropped file is a new one.
LEMMA DropFileKeeps ==
    ASSUME PanelInv, DropFile, Clicks
    PROVE  PanelInv'
<1>1. /\ files' = files + 1 /\ reading' = reading \cup {files + 1}
      /\ UNCHANGED <<tab, fetched, customMode, source, customModule, timer, ascSeq>>
      /\ UNCHANGED compiles /\ UNCHANGED inspecting
  BY DEF DropFile
<1>2. Counted' /\ files \in Nat /\ files' \in Nat /\ files <= files'
  BY <1>1 DEF PanelInv, Counted, Clicks
<1>3. \A f \in reading' \ reading : f > files
  BY <1>1, <1>2
<1>4. InspectorInv' /\ UploadsOnce'
  BY <1>1, <1>2, <1>3, InspectorFrame, UploadsFrame DEF PanelInv
<1>5. CustomType' /\ LatestCompile'
  BY <1>1 DEF PanelInv, CustomType, LatestCompile, Latest
<1> QED
  BY <1>2, <1>4, <1>5 DEF PanelInv

\* The line with one more module.
LEMMA LineAppended ==
    ASSUME InspectorInv, NEW m \in Module, Inspect(m)
    PROVE  /\ Len(Line) \in Nat /\ Len(Line') = Len(Line) + 1
           /\ \A i \in 1..Len(Line) : Line'[i] = Line[i]
           /\ Line'[Len(Line) + 1] = m
  BY InspectKeeps, InTheLine

\* A module that is no file's disturbs no file's.
LEMMA UploadsOther ==
    ASSUME PanelInv, NEW m \in Module, m.kind # "upload", Inspect(m),
           UNCHANGED <<reading, files>>
    PROVE  UploadsOnce'
<1>1. exports' = exports
  BY InspectKeeps DEF PanelInv
<1>2. /\ Len(Line) \in Nat /\ Len(Line') = Len(Line) + 1
      /\ \A i \in 1..Len(Line) : Line'[i] = Line[i]
      /\ Line'[Len(Line) + 1] = m
  BY LineAppended DEF PanelInv
<1>3. ASSUME NEW f \in Files, NEW i \in 1..Len(Line'), Line'[i] = FromFile(f)
      PROVE  i \in 1..Len(Line) /\ Line[i] = FromFile(f)
  <2>1. i # Len(Line) + 1
    BY <1>2, <1>3, ModuleKinds
  <2> QED
    BY <1>2, <1>3, <2>1
<1> QED
  BY <1>1, <1>3 DEF PanelInv, UploadsOnce, Exported

\* A result that is still wanted is of the source as it is.
LEMMA CompileDoneKeeps ==
    ASSUME PanelInv, NEW c \in compiles, CompileDone(c), UNCHANGED clicks
    PROVE  PanelInv'
<1>1. /\ compiles' = compiles \ {c}
      /\ UNCHANGED <<tab, fetched, customMode, source, timer, ascSeq, reading, files>>
  BY DEF CompileDone
<1>2. c \in [seq : Nat, of : Sources] /\ c.of \in Sources
  BY DEF PanelInv, CustomType
<1>3. Counted'
  BY <1>1 DEF PanelInv, Counted
<1>4. CASE Latest(c)
  <2> DEFINE m == FromAsc(c.of)
  <2>1. customModule' = m /\ Inspect(m)
    BY <1>4 DEF CompileDone, SetCustomWasm, Latest
  <2>2. m \in Module /\ m.kind = "asc"
    BY <1>2, ModuleKinds
  <2> HIDE DEF m
  <2>3. InspectorInv'
    BY <2>1, <2>2, InspectKeeps DEF PanelInv
  <2>4. UploadsOnce'
    BY <1>1, <2>1, <2>2, UploadsOther
  <2>5. CustomType'
    BY <1>1, <2>1, <2>2 DEF PanelInv, CustomType, MaybeModule
  <2>6. ~timer => m = FromAsc(source)
    BY <1>4 DEF PanelInv, LatestCompile, m
  <2>7. LatestCompile'
    BY <1>1, <2>1, <2>6 DEF PanelInv, LatestCompile, Latest
  <2> QED
    BY <1>3, <2>3, <2>4, <2>5, <2>7 DEF PanelInv
<1>5. CASE ~Latest(c)
  <2>1. UNCHANGED <<customModule, inspecting>>
    BY <1>5 DEF CompileDone, Latest
  <2>2. InspectorInv' /\ UploadsOnce'
    BY <1>1, <2>1, InspectorFrame, UploadsFrame DEF PanelInv, Counted
  <2>3. CustomType' /\ LatestCompile'
    BY <1>1, <1>5, <2>1 DEF PanelInv, CustomType, LatestCompile, Latest
  <2> QED
    BY <1>3, <2>2, <2>3 DEF PanelInv
<1> QED
  BY <1>4, <1>5

\* A file that has been read is lined up for the only time.
LEMMA FileReadKeeps ==
    ASSUME PanelInv, NEW f \in reading, FileRead(f), UNCHANGED clicks
    PROVE  PanelInv' /\ f \in Files
<1> DEFINE m == FromFile(f)
<1>1. /\ reading' = reading \ {f} /\ customModule' = m /\ Inspect(m)
      /\ UNCHANGED <<tab, fetched, customMode, source, timer, ascSeq, compiles, files>>
  BY DEF FileRead, SetCustomWasm
<1>2. f \in Files /\ f \in 1..files /\ files \in Nat
  BY PanelAssumption DEF PanelInv, Counted, Files
<1>3. m \in Module /\ m.kind = "upload"
  BY <1>2, ModuleKinds
<1>4. InspectorInv' /\ exports' = exports
  BY <1>1, <1>3, InspectKeeps DEF PanelInv
<1>5. CustomType' /\ Counted' /\ LatestCompile'
  BY <1>1, <1>3 DEF PanelInv, CustomType, Counted, LatestCompile, Latest, MaybeModule
<1>6. /\ Len(Line) \in Nat /\ Len(Line') = Len(Line) + 1
      /\ \A i \in 1..Len(Line) : Line'[i] = Line[i]
      /\ Line'[Len(Line) + 1] = m
  BY <1>1, <1>3, LineAppended DEF PanelInv
<1>7. UploadsOnce'
  <2>1. \A i \in 1..Len(Line) : Line[i] # m
    BY <1>2 DEF PanelInv, UploadsOnce
  <2>2. ~Exported(m)
    BY <1>2 DEF PanelInv, UploadsOnce
  <2>3. ASSUME NEW g \in Files, NEW i \in 1..Len(Line'), Line'[i] = FromFile(g)
        PROVE  \/ i \in 1..Len(Line) /\ Line[i] = FromFile(g) /\ g # f
               \/ i = Len(Line) + 1 /\ g = f
    <3>1. i = Len(Line) + 1 \/ i \in 1..Len(Line)
      BY <1>6
    <3>2. CASE i = Len(Line) + 1
      BY <1>2, <1>6, <2>3, <3>2, ModuleKinds
    <3>3. CASE i \in 1..Len(Line)
      BY <1>6, <2>1, <2>3, <3>3
    <3> QED
      BY <3>1, <3>2, <3>3
  <2>4. ASSUME NEW g \in Files
        PROVE  /\ \A i, j \in 1..Len(Line') :
                      Line'[i] = FromFile(g) /\ Line'[j] = FromFile(g) => i = j
               /\ (\E i \in 1..Len(Line') : Line'[i] = FromFile(g)) =>
                      ~Exported(FromFile(g))' /\ g \notin reading' /\ g <= files'
               /\ Exported(FromFile(g))' => g \notin reading' /\ g <= files'
    <3>1. CASE g = f
      BY <1>1, <1>2, <1>4, <2>2, <2>3, <3>1 DEF Exported
    <3>2. CASE g # f
      BY <1>1, <1>4, <2>3, <2>4, <3>2 DEF PanelInv, UploadsOnce, Exported
    <3> QED
      BY <3>1, <3>2
  <2> QED
    BY <2>4 DEF UploadsOnce
<1> QED
  BY <1>2, <1>4, <1>5, <1>7 DEF PanelInv

\* A file that could not be read is forgotten.
LEMMA FileFailsKeeps ==
    ASSUME PanelInv, NEW f \in reading, FileFails(f), UNCHANGED clicks
    PROVE  PanelInv'
<1>1. /\ reading' \subseteq reading
      /\ UNCHANGED <<tab, fetched, customMode, source, customModule, timer, ascSeq>>
      /\ UNCHANGED <<compiles, files>> /\ UNCHANGED inspecting
  BY DEF FileFails
<1>2. Counted' /\ files \in Nat
  BY <1>1 DEF PanelInv, Counted
<1>3. InspectorInv' /\ UploadsOnce'
  BY <1>1, <1>2, InspectorFrame, UploadsFrame DEF PanelInv
<1>4. CustomType' /\ LatestCompile'
  BY <1>1 DEF PanelInv, CustomType, LatestCompile, Latest
<1> QED
  BY <1>2, <1>3, <1>4 DEF PanelInv

\* A built-in module is lined up.
LEMMA RegisterKeeps ==
    ASSUME PanelInv, NEW e \in Examples, RegisterExample(e), UNCHANGED clicks
    PROVE  PanelInv'
<1> DEFINE m == Example(e)
<1>1. /\ fetched' = fetched \cup {e} /\ Inspect(m)
      /\ UNCHANGED <<tab, customMode, source, customModule, timer, ascSeq, compiles>>
      /\ UNCHANGED <<reading, files>>
  BY DEF RegisterExample, custom
<1>2. m \in Module /\ m.kind = "example"
  BY ModuleKinds
<1> HIDE DEF m
<1>3. InspectorInv' /\ UploadsOnce'
  BY <1>1, <1>2, InspectKeeps, UploadsOther DEF PanelInv
<1>4. CustomType' /\ Counted' /\ LatestCompile'
  BY <1>1 DEF PanelInv, CustomType, Counted, LatestCompile, Latest
<1> QED
  BY <1>3, <1>4 DEF PanelInv

\* What a step keeps that leaves the custom tab alone.
LEMMA CustomFrame ==
    ASSUME PanelInv, UNCHANGED <<clicks, tab, fetched, custom>>
    PROVE  /\ CustomType' /\ Counted' /\ LatestCompile'
           /\ UNCHANGED <<customModule, reading, files>>
  BY DEF custom, PanelInv, CustomType, Counted, LatestCompile, Latest

\* The worker's answer is about the module that it was given.
LEMMA WorkerInspectsKeeps ==
    ASSUME PanelInv, WorkerInspects, UNCHANGED clicks
    PROVE  PanelInv' /\ Line' = Line /\ UNCHANGED <<customModule, exports>>
<1>1. /\ posted # << >> /\ posted' = Tail(posted) /\ answers' = Append(answers, Head(posted))
      /\ UNCHANGED <<tab, fetched, custom, inspector, exports, aborts>>
  BY DEF WorkerInspects
<1>2. posted = <<inspector.pending>> /\ answers = << >> /\ inspector.pending # NoModule
  BY <1>1 DEF PanelInv, InspectorInv, OneAtATime
<1>3. posted' = << >> /\ answers' = <<inspector.pending>>
  BY <1>1, <1>2
<1>4. inspector.pending \in Module
  BY <1>2 DEF PanelInv, InspectorInv, InspectorType, MaybeModule
<1>5. InspectorInv' /\ Line' = Line
  BY <1>1, <1>2, <1>3, <1>4
     DEF PanelInv, InspectorInv, InspectorType, OneAtATime, ExportsBelong, Line
<1>6. CustomType' /\ Counted' /\ LatestCompile' /\ UNCHANGED <<customModule, reading, files>>
  BY <1>1, CustomFrame
<1>7. UploadsOnce'
  BY <1>1, <1>5, <1>6, UploadsFrame DEF PanelInv, Counted
<1> QED
  BY <1>1, <1>5, <1>6, <1>7 DEF PanelInv

\* A respawned worker knows nothing of what it was asked.
LEMMA AbortKeeps ==
    ASSUME PanelInv, Abort, UNCHANGED clicks
    PROVE  PanelInv' /\ Line' = Line /\ UNCHANGED <<customModule, exports>>
<1>1. /\ aborts' = aborts + 1 /\ aborts < MaxAborts /\ posted' = << >> /\ answers' = << >>
      /\ UNCHANGED <<tab, fetched, custom, inspector, exports>>
  BY DEF Abort
<1>2. InspectorInv' /\ Line' = Line
  BY <1>1, PanelAssumption
     DEF PanelInv, InspectorInv, InspectorType, OneAtATime, ExportsBelong, Line
<1>3. CustomType' /\ Counted' /\ LatestCompile' /\ UNCHANGED <<customModule, reading, files>>
  BY <1>1, CustomFrame
<1>4. UploadsOnce'
  BY <1>1, <1>2, <1>3, UploadsFrame DEF PanelInv, Counted
<1> QED
  BY <1>1, <1>2, <1>3, <1>4 DEF PanelInv

\* The first leaves the line.
LEMMA LineShortened ==
    ASSUME InspectorInv, Line # << >>, Line' = Tail(Line)
    PROVE  /\ Len(Line) \in Nat \ {0} /\ Len(Line') = Len(Line) - 1
           /\ \A i \in 1..Len(Line') : Line'[i] = Line[i + 1] /\ i + 1 \in 1..Len(Line)
  BY InTheLine

\* A file's module that leaves the line does not come back.
LEMMA UploadsServed ==
    ASSUME PanelInv, Line # << >>, Line' = Tail(Line), UNCHANGED <<reading, files>>,
           exports' \subseteq exports \cup {<<Line[1], Line[1]>>}
    PROVE  UploadsOnce'
<1>1. /\ Len(Line) \in Nat \ {0} /\ Len(Line') = Len(Line) - 1
      /\ \A i \in 1..Len(Line') : Line'[i] = Line[i + 1] /\ i + 1 \in 1..Len(Line)
  BY LineShortened DEF PanelInv
<1>2. 1 \in 1..Len(Line)
  BY <1>1
<1>3. ASSUME NEW f \in Files
      PROVE  /\ \A i, j \in 1..Len(Line') :
                    Line'[i] = FromFile(f) /\ Line'[j] = FromFile(f) => i = j
             /\ (\E i \in 1..Len(Line') : Line'[i] = FromFile(f)) =>
                    ~Exported(FromFile(f))' /\ f \notin reading' /\ f <= files'
             /\ Exported(FromFile(f))' => f \notin reading' /\ f <= files'
  <2>1. /\ \A i, j \in 1..Len(Line) : Line[i] = FromFile(f) /\ Line[j] = FromFile(f) => i = j
        /\ (\E i \in 1..Len(Line) : Line[i] = FromFile(f)) =>
              ~Exported(FromFile(f)) /\ f \notin reading /\ f <= files
        /\ Exported(FromFile(f)) => f \notin reading /\ f <= files
    BY DEF PanelInv, UploadsOnce
  <2>2. Exported(FromFile(f))' => Exported(FromFile(f)) \/ Line[1] = FromFile(f)
    BY DEF Exported
  <2>3. ASSUME NEW i \in 1..Len(Line'), NEW j \in 1..Len(Line'),
               Line'[i] = FromFile(f), Line'[j] = FromFile(f)
        PROVE  i = j
    <3>1. /\ i + 1 \in 1..Len(Line) /\ j + 1 \in 1..Len(Line)
          /\ Line[i + 1] = FromFile(f) /\ Line[j + 1] = FromFile(f)
      BY <1>1, <2>3
    <3>2. i + 1 = j + 1
      BY <2>1, <3>1
    <3> QED
      BY <1>1, <3>2
  <2>4. ASSUME NEW i \in 1..Len(Line'), Line'[i] = FromFile(f)
        PROVE  ~Exported(FromFile(f))' /\ f \notin reading' /\ f <= files'
    <3>1. i + 1 \in 1..Len(Line) /\ Line[i + 1] = FromFile(f) /\ i + 1 # 1
      BY <1>1, <2>4
    <3>2. Line[1] # FromFile(f)
      BY <1>2, <2>1, <3>1
    <3> QED
      BY <2>1, <2>2, <3>1, <3>2
  <2> QED
    BY <1>2, <2>1, <2>2, <2>3, <2>4
<1> QED
  BY <1>3 DEF UploadsOnce

\* An answer is the pending module's, and so are the exports it brings.
LEMMA OnExportsKeeps ==
    ASSUME PanelInv, OnExports, UNCHANGED clicks
    PROVE  /\ PanelInv' /\ Line # << >> /\ Line' = Tail(Line)
           /\ exports' = exports \cup {<<Line[1], Line[1]>>} /\ UNCHANGED customModule
<1>1. /\ answers # << >> /\ answers' = Tail(answers) /\ UNCHANGED aborts
      /\ Drain(inspector.queue, NoModule)
      /\ UNCHANGED <<tab, fetched, custom>>
  BY DEF OnExports
<1>2. /\ inspector.pending \in Module /\ Head(answers) = inspector.pending
      /\ Line # << >> /\ Line[1] = inspector.pending
      /\ Line' = Tail(Line) /\ OneAtATime'
      /\ inspector' \in [pending : MaybeModule, queue : Seq(Module)]
      /\ posted' \in Seq(Module) /\ answers' \in Seq(Module)
  BY <1>1, AnswerServes DEF PanelInv
<1>3. exports' = exports \cup {<<Line[1], Line[1]>>}
  BY <1>2, ModuleKinds DEF OnExports
<1>4. InspectorInv'
  BY <1>1, <1>2, <1>3 DEF PanelInv, InspectorInv, InspectorType, ExportsBelong
<1>5. CustomType' /\ Counted' /\ LatestCompile' /\ UNCHANGED <<customModule, reading, files>>
  BY <1>1, CustomFrame
<1>6. UploadsOnce'
  BY <1>2, <1>3, <1>5, UploadsServed
<1> QED
  BY <1>2, <1>3, <1>4, <1>5, <1>6 DEF PanelInv

\* An uploaded file that is no module has no exports.
LEMMA OnExportsErrorKeeps ==
    ASSUME PanelInv, OnExportsError, UNCHANGED clicks
    PROVE  /\ PanelInv' /\ Line # << >> /\ Line' = Tail(Line)
           /\ Line[1].kind = "upload" /\ UNCHANGED <<customModule, exports>>
<1>1. /\ answers # << >> /\ answers' = Tail(answers) /\ UNCHANGED <<aborts, exports>>
      /\ Drain(inspector.queue, NoModule) /\ Head(answers).kind = "upload"
      /\ UNCHANGED <<tab, fetched, custom>>
  BY DEF OnExportsError
<1>2. /\ Head(answers) = inspector.pending
      /\ Line # << >> /\ Line[1] = inspector.pending
      /\ Line' = Tail(Line) /\ OneAtATime'
      /\ inspector' \in [pending : MaybeModule, queue : Seq(Module)]
      /\ posted' \in Seq(Module) /\ answers' \in Seq(Module)
  BY <1>1, AnswerServes DEF PanelInv
<1>3. InspectorInv'
  BY <1>1, <1>2 DEF PanelInv, InspectorInv, InspectorType, ExportsBelong
<1>4. CustomType' /\ Counted' /\ LatestCompile' /\ UNCHANGED <<customModule, reading, files>>
  BY <1>1, CustomFrame
<1>5. UploadsOnce'
  BY <1>1, <1>2, <1>4, UploadsServed DEF PanelInv
<1> QED
  BY <1>1, <1>2, <1>3, <1>4, <1>5 DEF PanelInv

\* Writing a script is not a matter of the panel.
LEMMA EditScriptKeeps ==
    ASSUME PanelInv, EditScript, Clicks
    PROVE  PanelInv' /\ Line' = Line /\ UNCHANGED <<customModule, exports, tab>>
<1>1. UNCHANGED <<tab, fetched, custom, inspecting>>
  BY DEF EditScript
<1>2. InspectorInv' /\ Line' = Line /\ exports' = exports
  BY <1>1, InspectorFrame DEF PanelInv
<1>3. UploadsOnce'
  BY <1>1, <1>2, UploadsFrame DEF custom, PanelInv, Counted
<1>4. CustomType' /\ Counted' /\ LatestCompile' /\ UNCHANGED customModule
  BY <1>1 DEF custom, PanelInv, CustomType, Counted, LatestCompile, Latest, Clicks
<1> QED
  BY <1>1, <1>2, <1>3, <1>4 DEF PanelInv

-----------------------------------------------------------------------------
(* The scripts.                                                            *)

\* The custom tab's script is the user's or the last starter, and the starter that
\* comes whatever the script is has been asked for.
Starters ==
    /\ DOMAIN scripts = Tabs
    /\ lastCustomStarter.kind # "typed"
    /\ forceStarterRegen => owed
    /\ ScriptOf("custom") \in {Users("custom"), lastCustomStarter}

\* The custom module has its place in the line until it is served, and only built-in
\* modules are behind it.
PlaceInLine ==
    /\ place \in 0..Len(Line)
    /\ place > 0 => customModule # NoModule /\ Line[place] = customModule
    /\ customModule # NoModule => \A i \in 1..Len(Line) : i > place => Line[i].kind = "example"

\* A module that was served has its starter.
ServedFits ==
    place = 0 /\ Exported(customModule) =>
        ScriptOf("custom") \in {Users("custom"), CustomStarter(customModule)}

ScriptInv == PanelInv /\ Starters /\ ScriptsStayPut /\ PlaceInLine /\ ServedFits

\* Neither the pages without a script nor the custom tab are examples.
LEMMA TabNames ==
    /\ "custom" \in Tabs /\ "about" \notin Tabs
    /\ \A e \in Examples : e \in Tabs /\ e # "custom"
  BY PanelAssumption DEF Tabs

\* A typed script is neither a starter nor the one a tab comes with.
LEMMA TextKinds ==
    /\ \A t : Users(t).kind = "typed"
    /\ \A t : Original(t).kind # "typed"
    /\ \A m : CustomStarter(m).kind # "typed"
  BY DEF Users, Original, CustomStarter

LEMMA ScriptStarts == PanelInit => ScriptInv
<1> SUFFICES ASSUME PanelInit PROVE ScriptInv
  OBVIOUS
<1>1. PanelInv
  BY PanelStarts DEF PanelInit
<1>2. /\ tab = "about" /\ scripts = [t \in Tabs |-> Original(t)] /\ place = 0 /\ typed = {}
      /\ lastCustomStarter = Original("custom") /\ ~forceStarterRegen /\ exports = {}
      /\ customModule = NoModule /\ inspector.pending = NoModule
  BY DEF PanelInit, Init, ScriptInit
<1>3. \A t \in Tabs : ScriptOf(t) = Original(t)
  BY <1>2, TabNames DEF ScriptOf
<1>4. Starters /\ ScriptsStayPut
  BY <1>2, <1>3, TabNames, TextKinds DEF Starters, ScriptsStayPut
<1>5. Line = << >>
  BY <1>2 DEF Line
<1>6. PlaceInLine /\ ServedFits
  BY <1>2, <1>5 DEF PlaceInLine, ServedFits, Exported
<1> QED
  BY <1>1, <1>4, <1>6 DEF ScriptInv

\* What a step keeps that leaves every tab its script.
Kept ==
    /\ DOMAIN scripts' = Tabs /\ \A t \in Tabs : ScriptOf(t)' = ScriptOf(t)
    /\ UNCHANGED <<lastCustomStarter, typed>>
LEMMA KeptKeeps ==
    ASSUME ScriptInv, Kept, forceStarterRegen' => owed'
    PROVE  Starters' /\ ScriptsStayPut'
<1>1. /\ ScriptOf("custom")' = ScriptOf("custom")
      /\ \A e \in Examples : ScriptOf(e)' = ScriptOf(e)
  BY TabNames DEF Kept
<1> QED
  BY <1>1 DEF Kept, ScriptInv, Starters, ScriptsStayPut, Users, Original

\* Changing tabs saves one script and shows another.
LEMMA SwapKeeps ==
    ASSUME Starters, NEW t \in Tabs \cup {"about"}, tab' = t, SwapScripts(t),
           tab \in Tabs \cup {"about"}, UNCHANGED <<lastCustomStarter, typed>>
    PROVE  Kept
<1>1. DOMAIN scripts = Tabs
  BY DEF Starters
<1>2. DOMAIN scripts' = Tabs
  BY <1>1 DEF SwapScripts
<1>3. ASSUME NEW u \in Tabs PROVE ScriptOf(u)' = ScriptOf(u)
  <2>1. scripts'[u] = ScriptOf(u)
    BY <1>1, TabNames DEF SwapScripts, ScriptOf
  <2> QED
    BY <2>1, TabNames DEF SwapScripts, ScriptOf
<1> QED
  BY <1>2, <1>3 DEF Kept

\* A step that does not touch the editor keeps every script.
LEMMA UntouchedKept ==
    ASSUME Starters, UNCHANGED <<tab, doc, scripts, lastCustomStarter, typed>>
    PROVE  Kept
  BY DEF Starters, Kept, ScriptOf
-----------------------------------------------------------------------------
(* The place of the custom module.                                         *)

\* The line and the module as they were.
LEMMA PlaceSame ==
    ASSUME ScriptInv, Line' = Line, UNCHANGED <<customModule, place, exports>>,
           ScriptOf("custom")' \in {ScriptOf("custom"), Users("custom")}
    PROVE  PlaceInLine' /\ ServedFits'
<1>1. PlaceInLine'
  BY DEF ScriptInv, PlaceInLine
<1>2. Users("custom")' = Users("custom") /\ CustomStarter(customModule)' = CustomStarter(customModule)
  BY DEF Users, CustomStarter
<1>3. Exported(customModule)' <=> Exported(customModule)
  BY DEF Exported
<1> QED
  BY <1>1, <1>2, <1>3 DEF ScriptInv, ServedFits

\* No module, no place.
LEMMA PlaceNone ==
    ASSUME InspectorInv', Line' \in Seq(Module), customModule' = NoModule, place' = 0
    PROVE  PlaceInLine' /\ ServedFits'
<1>1. ~Exported(customModule)'
  BY ModuleKinds DEF Exported, InspectorInv, InspectorType
<1>2. Len(Line') \in Nat
  OBVIOUS
<1> QED
  BY <1>1, <1>2 DEF PlaceInLine, ServedFits

\* A module that is adopted is the last in the line.
LEMMA PlaceAdopted ==
    ASSUME ScriptInv, NEW m \in Module, Inspect(m), customModule' = m, place' = InLine + 1
    PROVE  PlaceInLine' /\ ServedFits'
<1>1. /\ Len(Line) \in Nat /\ Len(Line') = Len(Line) + 1
      /\ Line'[Len(Line) + 1] = m
  BY LineAppended DEF ScriptInv, PanelInv
<1>2. place' = Len(Line) + 1
  BY InTheLine DEF ScriptInv, PanelInv
<1> QED
  BY <1>1, <1>2, ModuleKinds DEF PlaceInLine, ServedFits

\* A built-in module goes behind it.
LEMMA PlaceRegistered ==
    ASSUME ScriptInv, NEW m \in Module, m.kind = "example", Inspect(m),
           UNCHANGED <<customModule, place, exports>>,
           ScriptOf("custom")' = ScriptOf("custom")
    PROVE  PlaceInLine' /\ ServedFits'
<1>1. /\ Len(Line) \in Nat /\ Len(Line') = Len(Line) + 1
      /\ \A i \in 1..Len(Line) : Line'[i] = Line[i]
      /\ Line'[Len(Line) + 1] = m
  BY LineAppended DEF ScriptInv, PanelInv
<1>2. \A i \in 1..Len(Line') : i \in 1..Len(Line) \/ i = Len(Line) + 1
  BY <1>1
<1>3. PlaceInLine'
  BY <1>1, <1>2 DEF ScriptInv, PlaceInLine
<1>4. ServedFits'
  BY DEF ScriptInv, ServedFits, Exported, Users, CustomStarter
<1> QED
  BY <1>3, <1>4

\* Everyone in the line moves up.
LEMMA PlaceServed ==
    ASSUME ScriptInv, Line # << >>, Line' = Tail(Line), UNCHANGED customModule,
           place' = IF place = 0 THEN 0 ELSE place - 1
    PROVE  PlaceInLine'
<1>1. /\ Len(Line) \in Nat \ {0} /\ Len(Line') = Len(Line) - 1
      /\ \A i \in 1..Len(Line') : Line'[i] = Line[i + 1] /\ i + 1 \in 1..Len(Line)
  BY LineShortened DEF ScriptInv, PanelInv
<1>2. /\ place \in 0..Len(Line)
      /\ place > 0 => customModule # NoModule /\ Line[place] = customModule
      /\ customModule # NoModule => \A i \in 1..Len(Line) : i > place => Line[i].kind = "example"
  BY DEF ScriptInv, PlaceInLine
<1>3. place' \in 0..Len(Line')
  BY <1>1, <1>2
<1>4. place' > 0 => place' \in 1..Len(Line') /\ Line'[place'] = Line[place]
  <2> SUFFICES ASSUME place' > 0 PROVE place' \in 1..Len(Line') /\ Line'[place'] = Line[place]
    OBVIOUS
  <2>1. place' \in 1..Len(Line') /\ place' + 1 = place
    BY <1>1, <1>2, <1>3
  <2> QED
    BY <1>1, <2>1
<1>5. ASSUME customModule # NoModule, NEW i \in 1..Len(Line'), i > place'
      PROVE  Line'[i].kind = "example"
  <2>1. i + 1 \in 1..Len(Line) /\ i + 1 > place /\ Line'[i] = Line[i + 1]
    BY <1>1, <1>2, <1>5
  <2> QED
    BY <1>2, <1>5, <2>1
<1> QED
  BY <1>2, <1>3, <1>4, <1>5 DEF PlaceInLine
-----------------------------------------------------------------------------
(* The steps of the panel with its scripts, one lemma each.                *)

LEMMA SelectTabScriptKeeps ==
    ASSUME ScriptInv, NEW t \in Tabs \cup {"about"}, SelectTabScript(t), Clicks
    PROVE  ScriptInv'
<1>1. /\ SelectTab(t) /\ SwapScripts(t) /\ tab' = t /\ UNCHANGED inspecting
      /\ UNCHANGED <<customModule, lastCustomStarter, forceStarterRegen, place, typed, owed>>
  BY DEF SelectTabScript, SelectTab
<1>2. PanelInv'
  BY <1>1, SelectTabKeeps DEF ScriptInv, Tabs
<1>3. Line' = Line /\ exports' = exports
  BY <1>1, InspectorFrame DEF ScriptInv, PanelInv
<1>4. Kept
  BY <1>1, SwapKeeps DEF ScriptInv, PanelInv, CustomType, Tabs
<1>5. Starters' /\ ScriptsStayPut'
  BY <1>1, <1>4, KeptKeeps DEF ScriptInv, Starters
<1>6. PlaceInLine' /\ ServedFits'
  BY <1>1, <1>3, <1>4, PlaceSame, TabNames DEF Kept
<1> QED
  BY <1>2, <1>5, <1>6 DEF ScriptInv

\* What the user writes is the tab's script.
LEMMA EditScriptScriptKeeps ==
    ASSUME ScriptInv, EditScript, Clicks
    PROVE  ScriptInv'
<1>1. PanelInv' /\ Line' = Line /\ UNCHANGED <<customModule, exports, tab>>
  BY EditScriptKeeps DEF ScriptInv
<1>2. /\ tab # "about" /\ doc' = Users(tab) /\ typed' = typed \cup {tab}
      /\ UNCHANGED <<scripts, lastCustomStarter, forceStarterRegen, place, owed>>
  BY DEF EditScript
<1>3. \A t : ScriptOf(t)' = IF t = tab THEN Users(t) ELSE ScriptOf(t)
  BY <1>1, <1>2 DEF ScriptOf
<1>4. Starters'
  BY <1>2, <1>3 DEF ScriptInv, Starters, Users
<1>5. ScriptsStayPut'
  BY <1>2, <1>3 DEF ScriptInv, ScriptsStayPut, Users, Original
<1>6. PlaceInLine' /\ ServedFits'
  BY <1>1, <1>2, <1>3, PlaceSame
<1> QED
  BY <1>1, <1>4, <1>5, <1>6 DEF ScriptInv

\* Switching to AssemblyScript owes the user a starter; to an upload, no module.
LEMMA SwitchModeScriptKeeps ==
    ASSUME ScriptInv, SwitchModeScript, Clicks
    PROVE  ScriptInv'
<1>1. /\ SwitchMode /\ UNCHANGED <<tab, inspecting, doc, scripts, lastCustomStarter, typed>>
  BY DEF SwitchModeScript, SwitchMode
<1>2. PanelInv'
  BY <1>1, SwitchModeKeeps DEF ScriptInv
<1>3. Line' = Line /\ exports' = exports /\ InspectorInv'
  BY <1>1, InspectorFrame DEF ScriptInv, PanelInv
<1>4. Kept
  BY <1>1, UntouchedKept DEF ScriptInv
<1>5. CASE customMode' = "asc"
  <2>1. /\ forceStarterRegen' = TRUE /\ owed' = TRUE /\ UNCHANGED place
        /\ UNCHANGED customModule
    BY <1>1, <1>5 DEF SwitchModeScript, SwitchMode
  <2>2. Starters' /\ ScriptsStayPut'
    BY <1>4, <2>1, KeptKeeps
  <2>3. PlaceInLine' /\ ServedFits'
    BY <1>3, <1>4, <2>1, PlaceSame, TabNames DEF Kept
  <2> QED
    BY <1>2, <2>2, <2>3 DEF ScriptInv
<1>6. CASE customMode' # "asc"
  <2>1. place' = 0 /\ UNCHANGED <<forceStarterRegen, owed>> /\ customModule' = NoModule
    BY <1>1, <1>6 DEF SwitchModeScript, SwitchMode
  <2>2. Starters' /\ ScriptsStayPut'
    BY <1>4, <2>1, KeptKeeps DEF ScriptInv, Starters
  <2>3. PlaceInLine' /\ ServedFits'
    BY <1>3, <2>1, PlaceNone, InTheLine DEF ScriptInv, PanelInv
  <2> QED
    BY <1>2, <2>2, <2>3 DEF ScriptInv
<1> QED
  BY <1>5, <1>6

\* Steps that leave the scripts, the module and the line alone.
LEMMA BesidesKeeps ==
    ASSUME ScriptInv, PanelInv', UNCHANGED <<tab, scriptVars, customModule, exports>>,
           Line' = Line
    PROVE  ScriptInv'
<1>1. UNCHANGED <<doc, scripts, lastCustomStarter, forceStarterRegen, place, typed, owed>>
  BY DEF scriptVars
<1>2. Kept
  BY <1>1, UntouchedKept DEF ScriptInv
<1>3. Starters' /\ ScriptsStayPut'
  BY <1>1, <1>2, KeptKeeps DEF ScriptInv, Starters
<1>4. PlaceInLine' /\ ServedFits'
  BY <1>1, <1>2, PlaceSame, TabNames DEF Kept
<1> QED
  BY <1>3, <1>4 DEF ScriptInv

\* A compile or a file that the custom tab adopts, or drops.
LEMMA AdoptKeeps ==
    /\ \A c \in compiles :
          ScriptInv /\ UNCHANGED clicks /\ Adopt(CompileDone(c), c.seq = ascSeq) => ScriptInv'
    /\ \A f \in reading :
          ScriptInv /\ UNCHANGED clicks /\ Adopt(FileRead(f), TRUE) => ScriptInv'
<1>1. ASSUME ScriptInv, UNCHANGED <<tab, clicks>>, PanelInv', NEW m \in Module, Inspect(m),
             customModule' = m, place' = InLine + 1,
             UNCHANGED <<doc, scripts, lastCustomStarter, forceStarterRegen, typed, owed>>
      PROVE  ScriptInv'
  <2>1. Kept
    BY <1>1, UntouchedKept DEF ScriptInv
  <2>2. Starters' /\ ScriptsStayPut'
    BY <1>1, <2>1, KeptKeeps DEF ScriptInv, Starters
  <2>3. PlaceInLine' /\ ServedFits'
    BY <1>1, PlaceAdopted
  <2> QED
    BY <1>1, <2>2, <2>3 DEF ScriptInv
<1>2. ASSUME NEW c \in compiles, ScriptInv, UNCHANGED clicks,
             Adopt(CompileDone(c), c.seq = ascSeq)
      PROVE  ScriptInv'
  <2>1. /\ CompileDone(c) /\ UNCHANGED tab
        /\ UNCHANGED <<doc, scripts, lastCustomStarter, forceStarterRegen, typed, owed>>
        /\ place' = IF c.seq = ascSeq THEN InLine + 1 ELSE place
    BY <1>2 DEF Adopt, CompileDone
  <2>2. PanelInv'
    BY <1>2, <2>1, CompileDoneKeeps DEF ScriptInv
  <2>3. CASE c.seq = ascSeq
    <3>1. FromAsc(c.of) \in Module
      BY <1>2, ModuleKinds DEF ScriptInv, PanelInv, CustomType
    <3>2. customModule' = FromAsc(c.of) /\ Inspect(FromAsc(c.of))
      BY <2>1, <2>3 DEF CompileDone, SetCustomWasm
    <3> QED
      BY <1>1, <1>2, <2>1, <2>2, <2>3, <3>1, <3>2
  <2>4. CASE c.seq # ascSeq
    <3>1. UNCHANGED <<customModule, inspecting, place>>
      BY <2>1, <2>4 DEF CompileDone
    <3>2. Line' = Line /\ exports' = exports
      BY <1>2, <3>1, InspectorFrame DEF ScriptInv, PanelInv
    <3> QED
      BY <1>2, <2>1, <2>2, <3>1, <3>2, BesidesKeeps DEF scriptVars
  <2> QED
    BY <2>3, <2>4
<1>3. ASSUME NEW f \in reading, ScriptInv, UNCHANGED clicks, Adopt(FileRead(f), TRUE)
      PROVE  ScriptInv'
  <2>1. /\ FileRead(f) /\ UNCHANGED tab /\ place' = InLine + 1
        /\ UNCHANGED <<doc, scripts, lastCustomStarter, forceStarterRegen, typed, owed>>
        /\ customModule' = FromFile(f) /\ Inspect(FromFile(f))
    BY <1>3 DEF Adopt, FileRead, SetCustomWasm
  <2>2. PanelInv' /\ FromFile(f) \in Module
    BY <1>3, <2>1, FileReadKeeps, ModuleKinds DEF ScriptInv
  <2> QED
    BY <1>1, <1>3, <2>1, <2>2
<1> QED
  BY <1>2, <1>3

\* A compile that fails takes the module and its place.
LEMMA CompileFailsScriptKeeps ==
    ASSUME ScriptInv, NEW c \in compiles, CompileFailsScript(c), UNCHANGED clicks
    PROVE  ScriptInv'
<1>1. /\ CompileFails(c) /\ UNCHANGED <<tab, inspecting>>
      /\ UNCHANGED <<doc, scripts, lastCustomStarter, typed, owed>>
  BY DEF CompileFailsScript, CompileFails
<1>2. PanelInv'
  BY <1>1, CompileFailsKeeps DEF ScriptInv
<1>3. Line' = Line /\ exports' = exports /\ InspectorInv'
  BY <1>1, InspectorFrame DEF ScriptInv, PanelInv
<1>4. Kept
  BY <1>1, UntouchedKept DEF ScriptInv
<1>5. CASE c.seq = ascSeq
  <2>1. forceStarterRegen' = FALSE /\ place' = 0 /\ customModule' = NoModule
    BY <1>1, <1>5 DEF CompileFailsScript, CompileFails
  <2>2. Starters' /\ ScriptsStayPut'
    BY <1>4, <2>1, KeptKeeps
  <2>3. PlaceInLine' /\ ServedFits'
    BY <1>3, <2>1, PlaceNone, InTheLine DEF ScriptInv, PanelInv
  <2> QED
    BY <1>2, <2>2, <2>3 DEF ScriptInv
<1>6. CASE c.seq # ascSeq
  <2>1. UNCHANGED <<forceStarterRegen, place, customModule>>
    BY <1>1, <1>6 DEF CompileFailsScript, CompileFails
  <2> QED
    BY <1>1, <1>2, <1>3, <2>1, BesidesKeeps DEF scriptVars
<1> QED
  BY <1>5, <1>6

\* The starter is written over the last one, or over the user's script if it is owed.
LEMMA ResolvedKeeps ==
    ASSUME ScriptInv, Resolved, UNCHANGED <<tab, customModule>>
    PROVE  /\ Starters' /\ ScriptsStayPut'
           /\ ScriptOf("custom")' \in {Users("custom"), CustomStarter(customModule)}
<1> DEFINE starter == CustomStarter(customModule)
           written == forceStarterRegen \/ ScriptOf("custom") = lastCustomStarter
<1>1. /\ DOMAIN scripts = Tabs /\ lastCustomStarter.kind # "typed"
      /\ forceStarterRegen => owed
      /\ ScriptOf("custom") \in {Users("custom"), lastCustomStarter}
  BY DEF ScriptInv, Starters
<1>2. forceStarterRegen' = FALSE
  BY DEF Resolved
<1>3. CASE written
  <2>1. /\ scripts' = [scripts EXCEPT !["custom"] = starter]
        /\ lastCustomStarter' = starter
        /\ doc' = IF tab = "custom" THEN starter ELSE doc
        /\ typed' = IF owed THEN typed \ {"custom"} ELSE typed
    BY <1>3 DEF Resolved, ScriptOf, Remember
  <2>2. /\ ScriptOf("custom")' = starter /\ DOMAIN scripts' = Tabs
        /\ \A e \in Examples : ScriptOf(e)' = ScriptOf(e)
    BY <1>1, <2>1, TabNames DEF ScriptOf
  <2>3. ~owed => "custom" \notin typed
    <3> SUFFICES ASSUME ~owed, "custom" \in typed PROVE FALSE
      OBVIOUS
    <3>1. ScriptOf("custom") = Users("custom")
      BY DEF ScriptInv, ScriptsStayPut
    <3> QED
      BY <1>1, <1>3, <3>1, TextKinds
  <2>4. Starters'
    BY <1>2, <2>1, <2>2, TextKinds DEF Starters
  <2>5. ScriptsStayPut'
    BY <2>1, <2>2, <2>3, TabNames DEF ScriptInv, ScriptsStayPut, Users, Original
  <2> QED
    BY <2>2, <2>4, <2>5
<1>4. CASE ~written
  <2>1. UNCHANGED <<scripts, lastCustomStarter, doc, typed>>
    BY <1>4 DEF Resolved, ScriptOf
  <2>2. Kept
    BY <2>1, UntouchedKept DEF ScriptInv
  <2>3. ScriptOf("custom")' = Users("custom")
    BY <1>1, <1>4, <2>2, TabNames DEF Kept
  <2> QED
    BY <1>2, <2>2, <2>3, KeptKeeps
<1> QED
  BY <1>3, <1>4

\* An answer that is not about the custom module leaves it alone.
LEMMA OthersServed ==
    ASSUME ScriptInv, PanelInv', Line # << >>, Line' = Tail(Line),
           exports' \in {exports, exports \cup {<<Line[1], Line[1]>>}},
           place # 1, place' = IF place = 0 THEN 0 ELSE place - 1,
           UNCHANGED <<tab, customModule>>,
           UNCHANGED <<doc, scripts, lastCustomStarter, forceStarterRegen, typed, owed>>
    PROVE  ScriptInv'
<1>1. Kept
  BY UntouchedKept DEF ScriptInv
<1>2. Starters' /\ ScriptsStayPut'
  BY <1>1, KeptKeeps DEF ScriptInv, Starters
<1>3. PlaceInLine'
  BY PlaceServed
<1>4. ASSUME place' = 0, Exported(customModule)' PROVE place = 0 /\ Exported(customModule)
  <2>1. place = 0
    BY <1>4, InTheLine DEF ScriptInv, PlaceInLine, PanelInv
  <2>2. customModule # NoModule
    BY <1>4, ModuleKinds DEF Exported, PanelInv, InspectorInv, InspectorType
  <2>3. 1 \in 1..Len(Line)
    BY InTheLine DEF ScriptInv, PanelInv
  <2>4. Line[1].kind = "example" /\ customModule.kind # "example"
    BY <2>1, <2>2, <2>3 DEF ScriptInv, PlaceInLine, PanelInv, CustomType
  <2> QED
    BY <1>4, <2>1, <2>4 DEF Exported
<1>5. ServedFits'
  BY <1>1, <1>4, TabNames DEF ScriptInv, ServedFits, Users, CustomStarter, Kept
<1> QED
  BY <1>2, <1>3, <1>5 DEF ScriptInv

\* An answer resolves the custom module when it is its turn.
LEMMA ServedKeeps ==
    ASSUME ScriptInv, Served, UNCHANGED clicks
    PROVE  ScriptInv'
<1>1. /\ place' = IF place = 0 THEN 0 ELSE place - 1
      /\ UNCHANGED tab
  BY DEF Served, OnExports, OnExportsError
<1>2. CASE OnExports /\ place = 1 /\ Resolved
  <2>1. /\ PanelInv' /\ Line # << >> /\ Line' = Tail(Line) /\ UNCHANGED customModule
    BY <1>2, OnExportsKeeps DEF ScriptInv
  <2>2. PlaceInLine'
    BY <1>1, <2>1, PlaceServed
  <2>3. /\ Starters' /\ ScriptsStayPut'
        /\ ScriptOf("custom")' \in {Users("custom"), CustomStarter(customModule)}
    BY <1>1, <1>2, <2>1, ResolvedKeeps
  <2>4. ServedFits'
    BY <2>1, <2>3 DEF ServedFits, Users, CustomStarter
  <2> QED
    BY <2>1, <2>2, <2>3, <2>4 DEF ScriptInv
<1>3. CASE /\ OnExports /\ place # 1
           /\ UNCHANGED <<doc, scripts, lastCustomStarter, forceStarterRegen, typed, owed>>
  <2>1. /\ PanelInv' /\ Line # << >> /\ Line' = Tail(Line)
        /\ exports' = exports \cup {<<Line[1], Line[1]>>} /\ UNCHANGED customModule
    BY <1>3, OnExportsKeeps DEF ScriptInv
  <2> QED
    BY <1>1, <1>3, <2>1, OthersServed
<1>4. CASE /\ OnExportsError
           /\ UNCHANGED <<doc, scripts, lastCustomStarter, forceStarterRegen, typed, owed>>
  <2>1. /\ PanelInv' /\ Line # << >> /\ Line' = Tail(Line)
        /\ Line[1].kind = "upload" /\ UNCHANGED <<customModule, exports>>
    BY <1>4, OnExportsErrorKeeps DEF ScriptInv
  <2>2. CASE place # 1
    BY <1>1, <1>4, <2>1, <2>2, OthersServed
  <2>3. CASE place = 1
    <3>1. 1 \in 1..Len(Line) /\ Line[1] \in Module /\ Line[1] = customModule
      BY <2>1, <2>3, InTheLine DEF ScriptInv, PlaceInLine, PanelInv
    <3>2. ~Exported(customModule)
      BY <2>1, <3>1, ModuleKinds DEF ScriptInv, PanelInv, UploadsOnce
    <3>3. ServedFits'
      BY <2>1, <3>2 DEF ServedFits, Exported
    <3>4. PlaceInLine'
      BY <1>1, <2>1, PlaceServed
    <3>5. Kept
      BY <1>1, <1>4, UntouchedKept DEF ScriptInv
    <3>6. Starters' /\ ScriptsStayPut'
      BY <1>4, <3>5, KeptKeeps DEF ScriptInv, Starters
    <3> QED
      BY <2>1, <3>3, <3>4, <3>6 DEF ScriptInv
  <2> QED
    BY <2>2, <2>3
<1> QED
  BY <1>2, <1>3, <1>4 DEF Served

\* What arrives beside it: the timer, a worker's answer, a respawn, a file that cannot
\* be read, a built-in module.
LEMMA AsideScriptKeeps ==
    ASSUME ScriptInv, UNCHANGED <<clicks, scriptVars>>,
           \/ TimerFires \/ WorkerInspects \/ Abort
           \/ \E f \in reading : FileFails(f)
           \/ \E e \in Examples : RegisterExample(e)
    PROVE  ScriptInv'
<1>1. CASE TimerFires
  <2>1. PanelInv' /\ UNCHANGED <<tab, customModule, inspecting>>
    BY <1>1, TimerFiresKeeps DEF TimerFires, ScriptInv
  <2>2. Line' = Line /\ exports' = exports
    BY <2>1, InspectorFrame DEF ScriptInv, PanelInv
  <2> QED
    BY <2>1, <2>2, BesidesKeeps
<1>2. CASE WorkerInspects
  <2>1. UNCHANGED tab
    BY <1>2 DEF WorkerInspects
  <2> QED
    BY <1>2, <2>1, WorkerInspectsKeeps, BesidesKeeps DEF ScriptInv
<1>3. CASE Abort
  <2>1. UNCHANGED tab
    BY <1>3 DEF Abort
  <2> QED
    BY <1>3, <2>1, AbortKeeps, BesidesKeeps DEF ScriptInv
<1>4. ASSUME NEW e \in Examples, RegisterExample(e) PROVE ScriptInv'
  <2>1. PanelInv'
    BY <1>4, RegisterKeeps DEF ScriptInv
  <2>2. /\ Example(e) \in Module /\ Example(e).kind = "example" /\ Inspect(Example(e))
        /\ UNCHANGED <<tab, customModule>>
    BY <1>4, ModuleKinds DEF RegisterExample, custom
  <2>3. UNCHANGED <<doc, scripts, lastCustomStarter, forceStarterRegen, place, typed, owed>>
    BY DEF scriptVars
  <2>4. Kept
    BY <2>2, <2>3, UntouchedKept DEF ScriptInv
  <2>5. Starters' /\ ScriptsStayPut'
    BY <2>3, <2>4, KeptKeeps DEF ScriptInv, Starters
  <2>6. exports' = exports
    BY <2>2, InspectKeeps DEF ScriptInv, PanelInv
  <2>7. PlaceInLine' /\ ServedFits'
    BY <2>2, <2>3, <2>4, <2>6, PlaceRegistered, TabNames DEF Kept
  <2> QED
    BY <2>1, <2>5, <2>7 DEF ScriptInv
<1>5. ASSUME NEW f \in reading, FileFails(f) PROVE ScriptInv'
  <2>1. PanelInv' /\ UNCHANGED <<tab, customModule, inspecting>>
    BY <1>5, FileFailsKeeps DEF FileFails, ScriptInv
  <2>2. Line' = Line /\ exports' = exports
    BY <2>1, InspectorFrame DEF ScriptInv, PanelInv
  <2> QED
    BY <2>1, <2>2, BesidesKeeps
<1> QED
  BY <1>1, <1>2, <1>3, <1>4, <1>5

\* An edit of the source, and a file that is dropped.
LEMMA EditOrDropKeeps ==
    ASSUME ScriptInv, EditSource \/ DropFile, Clicks, UNCHANGED scriptVars
    PROVE  ScriptInv'
<1>1. PanelInv' /\ UNCHANGED <<tab, customModule, inspecting>>
  BY EditSourceKeeps, DropFileKeeps DEF EditSource, DropFile, ScriptInv
<1>2. Line' = Line /\ exports' = exports
  BY <1>1, InspectorFrame DEF ScriptInv, PanelInv
<1> QED
  BY <1>1, <1>2, BesidesKeeps

LEMMA StutterKeeps ==
    ASSUME ScriptInv, UNCHANGED <<vars, scriptVars>>
    PROVE  ScriptInv'
<1>1. UNCHANGED <<clicks, tab, fetched, custom, inspecting, customModule, reading, files>>
  BY DEF vars, custom
<1>2. InspectorInv' /\ Line' = Line /\ exports' = exports
  BY <1>1, InspectorFrame DEF ScriptInv, PanelInv
<1>3. CustomType' /\ Counted' /\ LatestCompile'
  BY <1>1, CustomFrame DEF ScriptInv
<1>4. UploadsOnce'
  BY <1>1, <1>2, UploadsFrame DEF ScriptInv, PanelInv, Counted
<1>5. PanelInv'
  BY <1>2, <1>3, <1>4 DEF PanelInv
<1> QED
  BY <1>1, <1>2, <1>5, BesidesKeeps

LEMMA ScriptNext ==
    ScriptInv /\ [ScriptUser \/ ScriptProgram]_<<vars, scriptVars>> => ScriptInv'
<1>1. ASSUME ScriptInv, ScriptUser PROVE ScriptInv'
  <2>1. Clicks
    BY <1>1, PanelAssumption DEF ScriptUser, Clicks, ScriptInv, PanelInv, Counted
  <2> QED
    BY <1>1, <2>1, SelectTabScriptKeeps, EditScriptScriptKeeps, SwitchModeScriptKeeps,
       EditOrDropKeeps DEF ScriptUser
<1>2. ASSUME ScriptInv, ScriptProgram PROVE ScriptInv'
  BY <1>2, AdoptKeeps, CompileFailsScriptKeeps, ServedKeeps, AsideScriptKeeps
     DEF ScriptProgram
<1> QED
  BY <1>1, <1>2, StutterKeeps

LEMMA ScriptInvHolds == ScriptSpec => []ScriptInv
  BY ScriptStarts, ScriptNext, PTL DEF ScriptSpec

-----------------------------------------------------------------------------

\* The panel and its inspector keep the types that GuestPanel gives them.
THEOREM PanelTypeCorrect == ScriptSpec => []TypeOK
<1>1. ScriptInv => TypeOK
  BY PanelTypes DEF ScriptInv
<1> QED
  BY ScriptInvHolds, <1>1, PTL

\* The exports a module is given are its own (initInspector of guest-module.ts).
THEOREM ExportsBelongHolds == ScriptSpec => []ExportsBelong
<1>1. ScriptInv => ExportsBelong
  BY DEF ScriptInv, PanelInv, InspectorInv
<1> QED
  BY ScriptInvHolds, <1>1, PTL

\* A compiled module at rest is compiled from the source in the editor (compileAsc of
\* guest-panel.ts).
THEOREM CompiledIsSourceHolds == ScriptSpec => []CompiledIsSource
<1>1. ScriptInv => CompiledIsSource
  BY PanelCompiled DEF ScriptInv
<1> QED
  BY ScriptInvHolds, <1>1, PTL

\* Every tab keeps its script (selectTab, onModuleResolved of guest-panel.ts).
THEOREM ScriptsStayPutHolds == ScriptSpec => []ScriptsStayPut
<1>1. ScriptInv => ScriptsStayPut
  BY DEF ScriptInv
<1> QED
  BY ScriptInvHolds, <1>1, PTL

\* A starter at rest is that of the module that Prove would run (customStarter of
\* guest-module.ts).
THEOREM StarterFitsHolds == ScriptSpec => []StarterFits
<1>1. ScriptInv => StarterFits
  BY DEF ScriptInv, ServedFits, Exported, StarterFits
<1> QED
  BY ScriptInvHolds, <1>1, PTL
=============================================================================
