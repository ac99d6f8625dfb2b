-------------------------- MODULE MCChannelEffects --------------------------
(* Small instances of ChannelEffects for TLC. *)
EXTENDS ChannelEffects

CONSTANTS role, ev, yes, no, first

Send(text) == [tool |-> "channel_send", to |-> role, text |-> text]
Reply(text) == [tool |-> "channel_reply", to |-> ev, text |-> text]

\* Sends to one queue, and replies with different verdicts to one event.
RacingRequests == {Send(yes), Reply(yes), Reply(no)}

\* Replies that disagree about the one event.
DisagreeingRequests == {Reply(yes), Reply(no)}

\* A record is prepared once and stamps are only compared for equality: the
\* first effect's stamp may be called 1, the others' are equal to it or not.
Readings == [e \in Effect |-> IF e = first THEN {1} ELSE Stamp]

=============================================================================
