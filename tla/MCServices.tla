----------------------------- MODULE MCServices ------------------------------
(***************************************************************************)
(* The services that must come back by themselves (fill attribution, feed  *)
(* socket, token service, process) and the mode control they run under,    *)
(* checked together.  They share no variable: `focus' picks the one that   *)
(* moves and whose fairness is assumed, and the others stay in an initial  *)
(* state.                                                                  *)
(***************************************************************************)
EXTENDS FillAttribution, FeedSocket, TokenService, ProcessLife, ModeControl

VARIABLE focus

Focused(component) == focus = component /\ UNCHANGED focus

ServicesInit ==
  /\ focus \in {"attribution", "feed", "token", "process", "mode"}
  /\ Init /\ TokenInit
  /\ FeedInit /\ (focus # "feed" => feedKind = "kite")
  /\ ProcessInit /\ (focus # "process" => deployment = "paper")
  /\ ModeInit /\ (focus # "mode" => execMode = "paper_legging" /\ paperProfile = "standard")

AttributionMoves ==
  /\ Focused("attribution") /\ Next
  /\ UNCHANGED <<feedVars, tokenVars, processVars, modeVars>>

FeedMoves ==
  /\ Focused("feed") /\ FeedNext
  /\ UNCHANGED <<vars, tokenVars, processVars, modeVars>>

TokenMoves ==
  /\ Focused("token") /\ TokenNext
  /\ UNCHANGED <<vars, feedVars, processVars, modeVars>>

ProcessMoves ==
  /\ Focused("process") /\ ProcessNext
  /\ UNCHANGED <<vars, feedVars, tokenVars, modeVars>>

ModeMoves ==
  /\ Focused("mode") /\ ModeNext
  /\ UNCHANGED <<vars, feedVars, tokenVars, processVars>>

ServicesNext ==
  \/ AttributionMoves \/ FeedMoves \/ TokenMoves \/ ProcessMoves
  \/ ModeMoves

servicesVars == <<vars, feedVars, tokenVars, processVars, modeVars, focus>>

\* The fairness of each component's own specification.
Fairness ==
  /\ \A c \in Orders : WF_vars(Focused("attribution") /\ Execute(c))
  /\ WF_vars(Focused("attribution") /\ Reconcile)
  /\ WF_feedVars(Focused("feed") /\ SocketOpens)
  /\ WF_feedVars(Focused("feed") /\ ReconnectTimerFires)
  /\ \A b \in TokenBrokers : WF_tokenVars(Focused("token") /\ AcquisitionStep(b))
  /\ WF_processVars(Focused("process") /\ Launch)
  /\ WF_processVars(Focused("process") /\ BootStep)
  /\ WF_processVars(Focused("process") /\ ShutdownStep)
  /\ WF_processVars(Focused("process") /\ ProcessExits)

ServicesSpec == ServicesInit /\ [][ServicesNext]_servicesVars /\ Fairness

\* A process that answers ready knows what it owns, and whatever failed, hung, was
\* signalled or crashed before, a launched process ends up running with its positions under
\* the monitor (boot, markReady, the shutdown handlers; a process is launched where it is
\* the component that moves).
ProcessIsSound == []ReadyIsWhole /\ (focus = "process" => PositionsAreMonitored)
=============================================================================
