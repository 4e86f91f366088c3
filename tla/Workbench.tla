------------------------------ MODULE Workbench ------------------------------
(***************************************************************************)
(* Models that need no company, side by side: a behaviour chooses its      *)
(* subject and stays with it.  Four of them are modules with a state: the  *)
(* steps of the VM, the panel of the debugger and its scan of a line, and  *)
(* the configuration service; any other is a pure function, asked once.    *)
(***************************************************************************)
EXTENDS DebugPanel, StepControl, RuntimeScan, ConfigService

CONSTANTS DebuggerTools,  \* the pure functions, by what they are part of
          LanguageTools,
          EditTools,
          CoreTools,
          InputsOf(_),      \* what a function is asked
          AnswerOf(_, _),   \* what it answers
          IsRight(_, _, _)  \* whether that is right: subject, argument, answer

VARIABLES subject, \* the model this behaviour is of
          asked, input \* a pure function: whether it was asked, and what

toolVars == <<asked, input>>
allVars == <<subject, panelVars, stepsVars, scanVars, configVars, toolVars>>

Tools == DebuggerTools \union LanguageTools \union EditTools \union CoreTools
Subjects == {"steps", "panel", "scan", "config"} \union Tools

WorkbenchInit ==
    /\ subject \in Subjects
    /\ StepsInit /\ PanelInit /\ ScanInit /\ ConfigInit
    /\ asked = FALSE
    /\ input = <<>>

Stepping == /\ subject = "steps" /\ StepsNext
            /\ UNCHANGED <<subject, panelVars, scanVars, configVars, toolVars>>
Inspecting == /\ subject = "panel" /\ PanelNext
              /\ UNCHANGED <<subject, stepsVars, scanVars, configVars, toolVars>>
Foreseeing == /\ subject = "scan" /\ ScanNext
              /\ UNCHANGED <<subject, stepsVars, panelVars, configVars, toolVars>>
OfConfig(A) == /\ subject = "config" /\ A
               /\ UNCHANGED <<subject, stepsVars, panelVars, scanVars, toolVars>>
Evaluate == /\ subject \in Tools /\ ~asked
            /\ asked' = TRUE
            /\ \E x \in InputsOf(subject) : input' = x
            /\ UNCHANGED <<subject, stepsVars, panelVars, scanVars, configVars>>

WorkbenchNext ==
    \/ Stepping \/ Inspecting \/ Foreseeing \/ OfConfig(ConfigNext) \/ Evaluate

(* What is fair of the configuration service is so where it is the         *)
(* subject, and asks nothing elsewhere.                                    *)
WorkbenchFairness ==
    /\ WF_allVars(OfConfig(Announce("rpc") \/ Watch))
    /\ WF_allVars(OfConfig(Announce("watcher") \/ Poll))

WorkbenchSpec == WorkbenchInit /\ [][WorkbenchNext]_allVars /\ WorkbenchFairness

-----------------------------------------------------------------------------
AnswersAreRight(tools) ==
    subject \in tools /\ asked =>
        \A answer \in {AnswerOf(subject, input)} : IsRight(subject, input, answer)

(* What the debugger says of a paused program is so: the panel shows the   *)
(* memory and an edit reaches the cell of its row (DebugPanel), and an     *)
(* error is announced of a line when the line raises it (RuntimeScan).     *)
DebuggerTellsTheTruth == PanelShowsMemory /\ EditsReachTheirRow /\ PredictionsAreRight

(* What is read of the files of a project is what they say, in the sense   *)
(* and with the exceptions that each reading states where it is defined.   *)
(* By the debugger: an expression has the value of its only reading        *)
(* (DebugExpr), a line of the editor and a file stand for those that were  *)
(* compiled (SourceMap).                                                   *)
(* By the engine: the lexer and the reader of lines read the same code,    *)
(* with the indentation it has (TokenLexer); the statements that stand     *)
(* elsewhere than the first of their block are the ones warned of          *)
(* (StmtIndent); the symbols of a file are those its parts declare,        *)
(* whatever is before or after them (SymbolParser); what is warned of as   *)
(* unused is used on no ordinary line - a use on a line that declares or   *)
(* is a directive may go unseen (UnusedAgrees) - and it warns of what is   *)
(* deprecated, undeclared or without a body, a body with a comment in its  *)
(* way apart (CodeAnalysis); it collects what a program includes           *)
(* (IncludeGraph); a name it proposes is one it accepts, if no word of it  *)
(* is a single letter (NameAdvice).                                        *)
(* By the core: a setting is what the project says of it, else what the    *)
(* user says, and its default when what is said so is wrong - a wrong      *)
(* value of the project hides a right one of the user, and costs no other  *)
(* setting (ConfigAgrees); what is written is read back and what is not    *)
(* stays; a migration keeps the lines of the list files, and loses only    *)
(* the terms a list file did not take and those written to the             *)
(* configuration behind its back, writes none twice but those that begin   *)
(* like a comment, and ends when it is tried again (MigrateAgrees); a      *)
(* server is addressed where it listens; it is said to be debuggable when  *)
(* it loads the plugin, and otherwise only in the cases of KnownToPass; a  *)
(* build is given the includes that are analysed, some that only it is     *)
(* given apart, and the level the debugger needs (ProjectFolder).          *)
ProjectIsReadRight == AnswersAreRight(DebuggerTools \union LanguageTools \union CoreTools)

=============================================================================
