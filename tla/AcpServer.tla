------------------------------ MODULE AcpServer ------------------------------
(***************************************************************************)
(* The ACP stdio server (ironmesh_acp/server.py): one thread reads frames  *)
(* and blocks on each until its handler on the event loop is done.  A      *)
(* prompt is sent to the session's mesh peer and ends by the first message *)
(* of that peer, by the session's cancel event, or by its timeout.         *)
(***************************************************************************)
EXTENDS Naturals, Sequences, FiniteSets

CONSTANTS
    Session,     \* sessions, all for one peer
    MaxFrames    \* bound: frames the client writes

VARIABLES
    stdin,       \* frames written and not read: <<"prompt" | "cancel", session>>
    written,     \* number of frames written
    running,     \* the prompt in flight: its number, 0 for none
    session,     \* the session of each prompt that was started
    cancelEvent, \* session -> whether its cancel event is set
    reply,       \* the future of the running prompt: 0, or the prompt it answers
    owed,        \* prompts the peer has received and not answered
    ended,       \* prompts that are over -> how, as <<stopReason, answer>>
    asked        \* history: prompts that were in flight when a cancel was written

acpVars == <<stdin, written, running, session, cancelEvent, reply, owed, ended, asked>>

Init ==
    /\ stdin = <<>> /\ written = 0
    /\ running = 0 /\ session = <<>>
    /\ cancelEvent = [s \in Session |-> FALSE]
    /\ reply = 0
    /\ owed = {}
    /\ ended = <<>>
    /\ asked = {}

ClientWrites(kind, s) ==
    /\ written < MaxFrames /\ written' = written + 1
    /\ stdin' = Append(stdin, <<kind, s>>)
    /\ asked' = IF kind = "cancel" /\ running # 0 /\ session[running] = s
                  THEN asked \cup {running} ELSE asked
    /\ UNCHANGED <<running, session, cancelEvent, reply, owed, ended>>

\* serve reads the next frame only when the handler of the last one has returned.
Idle == running = 0

ReadCancel ==
    /\ Idle /\ stdin # <<>> /\ Head(stdin)[1] = "cancel"
    /\ stdin' = Tail(stdin)
    /\ cancelEvent' = [cancelEvent EXCEPT ![Head(stdin)[2]] = TRUE]
    /\ UNCHANGED <<written, running, session, reply, owed, ended, asked>>

\* handle_session_prompt up to the send.  The send may fail, which ends the
\* prompt with an error.
ReadPrompt(sent) ==
    LET n == Len(session) + 1
        s == Head(stdin)[2] IN
    /\ Idle /\ stdin # <<>> /\ Head(stdin)[1] = "prompt"
    /\ stdin' = Tail(stdin)
    /\ session' = Append(session, s)
    /\ cancelEvent' = [cancelEvent EXCEPT ![s] = FALSE]
    /\ reply' = 0
    /\ IF sent THEN running' = n /\ owed' = owed \cup {n} /\ UNCHANGED ended
               ELSE running' = 0 /\ ended' = Append(ended, <<"error", 0>>) /\ UNCHANGED owed
    /\ UNCHANGED <<written, asked>>

\* An answer of the peer, to this prompt or to an earlier one that timed out:
\* the callback takes whichever is first.
PeerAnswers(n) ==
    /\ n \in owed
    /\ owed' = owed \ {n}
    /\ reply' = IF running # 0 /\ reply = 0 THEN n ELSE reply
    /\ UNCHANGED <<stdin, written, running, session, cancelEvent, ended, asked>>

\* asyncio.wait over reply and cancel event; a set event goes before a reply.
EndPromptUntimed(timedOut) ==
    LET cancelled == cancelEvent[session[running]] IN
    /\ ~Idle /\ ~timedOut /\ (cancelled \/ reply # 0)
    /\ ended' = Append(ended, IF cancelled THEN <<"cancelled", 0>> ELSE <<"end_turn", reply>>)
    /\ running' = 0
    /\ UNCHANGED <<stdin, written, session, cancelEvent, reply, owed, asked>>

EndPrompt(timedOut) ==
    LET cancelled == cancelEvent[session[running]] IN
    /\ ~Idle
    /\ timedOut = (~cancelled /\ reply = 0)
    /\ ended' = Append(ended, CASE timedOut -> <<"completed", 0>>
                                [] cancelled -> <<"cancelled", 0>>
                                [] OTHER -> <<"end_turn", reply>>)
    /\ running' = 0
    /\ UNCHANGED <<stdin, written, session, cancelEvent, reply, owed, asked>>

Next ==
    \/ \E kind \in {"prompt", "cancel"}, s \in Session : ClientWrites(kind, s)
    \/ ReadCancel
    \/ ReadPrompt(TRUE) \/ ReadPrompt(FALSE)
    \/ \E n \in owed : PeerAnswers(n)
    \/ EndPrompt(TRUE) \/ EndPrompt(FALSE)

\* The reading thread and the timeout of a prompt.
Progress == ReadCancel \/ ReadPrompt(TRUE) \/ EndPrompt(TRUE) \/ EndPrompt(FALSE)

-----------------------------------------------------------------------------
\* Every frame is read and every prompt started reaches its terminal update,
\* whatever the peer does.
FramesHandled == []<>(stdin = <<>> /\ Len(ended) = Len(session))

\* "session/cancel -> cooperative cancel; emits a terminal session/update with
\* stopReason=cancelled": a prompt does not run into its timeout when its client
\* has cancelled it.
CancelStops == \A n \in 1..Len(ended) : n \in asked => ended[n][1] # "completed"
=============================================================================
