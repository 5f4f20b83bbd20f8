----------------------------- MODULE HttpSession -----------------------------
(***************************************************************************)
(* What one connection promises its client: after the TLS handshake it     *)
(* takes one request at a time, begins a response in the mode that this    *)
(* very request asked for, and returns to waiting only when the response   *)
(* is over and the request asked to keep the connection.  It may give up   *)
(* at any time, and a session that was closed stays closed.                *)
(***************************************************************************)
CONSTANTS Modes,  \* the ways a client may ask to be answered, with a field keep
          NoMode  \* none of them

VARIABLES phase,    \* where the session is
          current,  \* what the request being served asks for
          mode      \* how the response is being sent

sessionVars == <<phase, current, mode>>

SessionInit == phase = "handshake" /\ current = NoMode /\ mode = NoMode

Greet ==
    /\ phase = "handshake" /\ phase' = "idle"
    /\ UNCHANGED <<current, mode>>

Receive(asked) ==
    /\ phase = "idle" /\ phase' = "received"
    /\ current' = asked
    /\ UNCHANGED mode

BeginResponse ==
    /\ phase = "received" /\ phase' = "answering"
    /\ mode' = current
    /\ UNCHANGED current

EndResponse ==
    /\ phase = "answering" /\ mode.keep
    /\ phase' = "idle" /\ current' = NoMode /\ mode' = NoMode

\* An error response, a lost client, a finished response without keep-alive.
HangUp ==
    /\ phase \in {"handshake", "idle", "received", "answering"}
    /\ phase' = "closing" /\ current' = NoMode /\ mode' = NoMode

\* The connection is released, or the whole process ends.
Close ==
    /\ phase # "closed" /\ phase' = "closed"
    /\ current' = NoMode /\ mode' = NoMode

SessionNext ==
    \/ Greet
    \/ \E asked \in Modes : Receive(asked)
    \/ BeginResponse
    \/ EndResponse
    \/ HangUp
    \/ Close

SessionSpec == SessionInit /\ [][SessionNext]_sessionVars

=============================================================================
