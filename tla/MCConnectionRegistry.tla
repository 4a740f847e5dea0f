------------------------ MODULE MCConnectionRegistry ------------------------
(***************************************************************************)
(* ConnectionRegistry in three environments; "env" is chosen at the start  *)
(* and never changes.  The constants of the .cfg are the first one:        *)
(* WebSocket dials of both daemons, overlapping and failing.               *)
(* RegistryProofs is about every value of the constants.                   *)
(***************************************************************************)
EXTENDS ConnectionRegistry

CONSTANT BothSlots      \* connection slots while both transports run

VARIABLE env

\* Both transports, upgrades, sends that fail.
Both == INSTANCE ConnectionRegistry WITH
    Conn <- BothSlots, Rns <- TRUE, RedialById <- {}, SendFaults <- TRUE, MaxFaults <- 1

\* A WebSocket dial starts when the earlier ones are settled.
Spaced == INSTANCE ConnectionRegistry WITH Overlap <- FALSE

MCInit == Init /\ env \in {"race", "spaced", "both"}

MCNext ==
    /\ \/ env = "race" /\ Next
       \/ env = "both" /\ Both!Next
       \/ env = "spaced" /\ Spaced!Next
    /\ UNCHANGED env

mcVars == <<vars, env>>
InSpaced(A) == env = "spaced" /\ A /\ UNCHANGED env

\* Coroutines run on, claims expire, and the ticks of the discover and the
\* reconnect loop find the connections settled again and again.
MCFairness ==
    \A n \in Node :
        /\ SF_mcVars(InSpaced(Spaced!DialByName(n)))
        /\ WF_mcVars(InSpaced(Spaced!DialById(n)))
        /\ SF_mcVars(InSpaced(\E k \in Kinds : Spaced!DialAgain(n, k)))
        /\ WF_mcVars(InSpaced(ClaimExpires(n)))
        /\ WF_mcVars(InSpaced(Spaced!DialFailover(n)))
        /\ \A c \in Conn : WF_mcVars(InSpaced(Handle(n, c)))

MCSpec == MCInit /\ [][MCNext]_mcVars /\ MCFairness

-----------------------------------------------------------------------------
\* On WebSocket the two ends never settle on different connections.
RaceAgreeingEnds == env = "race" => AgreeingEnds

\* Once failures stop, two daemons whose dials come apart end up on one open
\* connection and stay there.
SpacedReconnects == env = "spaced" => Reconnects
=============================================================================
