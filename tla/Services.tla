------------------------------ MODULE Services ------------------------------
(***************************************************************************)
(* What runs behind the editor, side by side: a behaviour chooses its      *)
(* subject and stays with it.  The subjects are the core that keeps its    *)
(* engine up (EngineHost), the documents of that engine (EngineDocuments)  *)
(* and the cores of the windows (CoreRequests).                            *)
(***************************************************************************)
EXTENDS EngineHost, EngineDocuments, CoreRequests

VARIABLE subject   \* the model this behaviour is of

serviceVars == <<subject, hostVars, vars, deskVars>>

ServicesInit ==
    /\ subject \in {"host", "documents", "desk"}
    /\ HostInit /\ Init /\ DeskInit
    /\ subject # "desk" => asks = CHOOSE a \in Asks : TRUE

OfHost(A) == /\ subject = "host" /\ A
             /\ UNCHANGED <<subject, vars, deskVars>>
OfDocuments(A) == /\ subject = "documents" /\ A
                  /\ UNCHANGED <<subject, hostVars, deskVars>>
OfDesk(A) == /\ subject = "desk" /\ A
             /\ UNCHANGED <<subject, hostVars, vars>>

ServicesNext ==
    \/ OfHost(HostNext) \/ OfDocuments(Next) \/ OfDesk(DeskNext)

(* What is fair of a subject is so where it is the subject, and asks       *)
(* nothing elsewhere.                                                      *)
ServicesFairness ==
    /\ \A c \in Conns : WF_serviceVars(OfHost(RouteSends(c)))
    /\ \A g \in Gens : WF_serviceVars(OfHost(Step(g)))
    /\ WF_serviceVars(OfDocuments(Analysis \/ EndRequests))
    /\ WF_serviceVars(OfDocuments(\E f \in Files : SpawnTargets(f)))
    /\ WF_serviceVars(OfDocuments(Handshake))
    /\ WF_serviceVars(OfDocuments(Follow))
    /\ \A w \in Windows : /\ WF_serviceVars(OfDesk(Loop(w)))
                          /\ WF_serviceVars(OfDesk(CompileDone(w)))

ServicesSpec == ServicesInit /\ [][ServicesNext]_serviceVars /\ ServicesFairness

-----------------------------------------------------------------------------
(* Who asks is answered: an edit with the diagnostics of the text it left  *)
(* (EngineDocuments), a request of a window by its core unless the core is *)
(* gone (CoreRequests).                                                    *)
EveryoneIsAnswered == EditsAreAnswered /\ RequestsAreAnswered
=============================================================================
