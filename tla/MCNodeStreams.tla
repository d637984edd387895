---------------------------- MODULE MCNodeStreams ----------------------------
(***************************************************************************)
(* Instances of NodeStreams for TLC, with a note of whether a kick was     *)
(* asked for, a node's streams overlapped or a map fault struck, for what  *)
(* holds as long as none of it did.                                        *)
(***************************************************************************)
EXTENDS NodeStreams, TLC

CONSTANTS n1, n2, s1, s2, s3, c1

VARIABLE disorder

\* Two nodes, one of which comes back on a second stream.
ComesBack == s1 :> n1 @@ s2 :> n2 @@ s3 :> n1

NotedNext ==
  \/ \E s \in Streams : (Remote(s) \/ Proceed(s)) /\ disorder' = (disorder \/ ~Orderly(s))
  \/ \E c \in Clients : (Request(c) \/ GetCancelChannel(c) \/ Kick(c)) /\ disorder' = TRUE
  \/ MapFault /\ disorder' = TRUE
  \/ Stopped /\ UNCHANGED disorder

NotedInit == Init /\ disorder = FALSE

NotedSpec == NotedInit /\ [][NotedNext]_<<vars, disorder>>

\* While streams of a node do not overlap and nobody kicks, a stored send channel
\* has its thread and nothing panics (sendToNodesFromController never sends to a
\* channel that nobody reads or that is closed).
OrderlyIsRead == ~disorder => StoredIsRead /\ NoPanic

=============================================================================
