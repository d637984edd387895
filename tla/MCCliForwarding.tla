--------------------------- MODULE MCCliForwarding ---------------------------
(***************************************************************************)
(* An instance of CliForwarding for TLC, with notes of whether the clients *)
(* have come one at a time and whether each has waited for its answers,    *)
(* for what holds as long as they have.                                    *)
(***************************************************************************)
EXTENDS CliForwarding, TLC

VARIABLES overlap,  \* a client came while another's handler was there, or a map fault struck
          hasty     \* a client left before its request was answered

notes == <<overlap, hasty>>

Answered(c) == IF wants[c] = {} THEN Controller \in answers[c] ELSE wants[c] \subseteq answers[c]

NotedConnect(c) ==
  Connect(c) /\ overlap' = (overlap \/ ~Alone(c)) /\ UNCHANGED hasty

NotedInterrupt(c) ==
  Interrupt(c) /\ hasty' = (hasty \/ ~Answered(c)) /\ UNCHANGED overlap

NotedNext ==
  \/ \E c \in Clients : NotedConnect(c) \/ NotedInterrupt(c)
  \/ \E c \in Clients : ClientStep(c) /\ UNCHANGED notes
  \/ \E n \in Nodes : NodeStep(n) /\ UNCHANGED notes
  \/ MapFault /\ overlap' = TRUE /\ UNCHANGED hasty

NotedInit == Init /\ overlap = FALSE /\ hasty = FALSE

NotedSpec == NotedInit /\ [][NotedNext]_<<vars, notes>> /\ Fairness

\* Clients that come one at a time find nobody's channel in the store: none is
\* closed and no send to one panics, and a channel that is found there has its
\* send thread, unless its handler is clearing up (storeCliChannel, sendToCli).
TurnsAreRead ==
  ~overlap => NoPanic /\ StoredIsRead

\* As long as clients come one at a time and stay until everyone they asked has
\* answered, none is given the answer to another's request, although they all
\* have the same uuid (configs.CliCfg.UUID, NodeCommandStream).
AnswersReachAskers == ~overlap /\ ~hasty => strange = {}


=============================================================================
