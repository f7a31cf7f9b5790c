------------------------------- MODULE MCLapm -------------------------------
(***************************************************************************)
(* Instances of Lapm for TLC and the properties they check.                *)
(***************************************************************************)
EXTENDS Lapm, Functions

Each(originator, answerer) == [Originator |-> originator, Answerer |-> answerer]

Never        == Each(0, 0)
ThreeAndOne  == Each(3, 1)
FiveAndNone  == Each(5, 0)
AnswererOnce == Each(0, 1)
OriginatorOnce == Each(1, 0)
NoneAndThree == Each(0, 3)
NoneAndFour  == Each(0, 4)

OnceConnected == {"Connected"}

-----------------------------------------------------------------------------
(* Safety.                                                                 *)

\* What an end has stopped keeping, the other end's user has: no
\* acknowledgement ever retires a frame that did not arrive.
NothingForgotten == \A e \in Ends :
  Settled(e) =>
    LET l    == ent[e]
        kept == Range(l.pending) \cup {u.info : u \in Range(l.unacked)}
    IN  1 .. accepted[e] \subseteq kept \cup Range(Received(Peer(e)))

\* What the users see is a reliable link.
Link == INSTANCE ReliableLink WITH
          End <- Ends, PeerOf <- Peer, accepted <- accepted,
          received <- [e \in Ends |-> Received(e)],
          settled <- [e \in Ends |-> Settled(e)]
LinkSpec == Link!Spec

-----------------------------------------------------------------------------
(* Liveness.                                                               *)

\* Everything handed to a connected end arrives, whatever was lost on the
\* way, unless that end is told otherwise or the far end's decoder has the
\* link started again.
AllArrive == \A e \in Ends :
  Told(e, "Connected") ~>
    \/ ~ Settled(e) \/ undecodable[Peer(e)] > 0
    \/ Received(Peer(e)) = [i \in 1 .. accepted[e] |-> i]

\* Whoever waits for the far end to agree to a release is let go, by its UA
\* or by N400: also when the release is drain's, after one stream too many
\* that would not decode.  Only a far end that starts the link again takes the
\* release back: on_sabme connects an end that has sent its DISC.
ReleaseEnds == \A e \in Ends :
  ent[e].state = "AwaitingRelease"
    ~> ent[e].state = "Disconnected" \/ undecodable[Peer(e)] > 0

-----------------------------------------------------------------------------
(* What stack.rs says of a re-establishment.                               *)

\* e has asked for the link (again), and the far end has yet to hear it.
Unheard(e) == \E i \in 1 .. Len(ent[e].out \o wire[e]) :
                (ent[e].out \o wire[e])[i].type = "SABME"

\* "What the far end sent before it hears the SABME cannot reach the new
\* decoder" (drain): while the SABME is on its way, nothing is delivered.
OldFramesStayOut ==
  [][\A e \in Ends : Unheard(e) /\ Unheard(e)' => Received(e)' = Received(e)]_vars
=============================================================================
