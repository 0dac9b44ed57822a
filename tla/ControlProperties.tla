------------------------- MODULE ControlProperties -------------------------
(* What a remote command on its way consists of, wherever a part of it is   *)
(* kept, and what must hold of it at every moment.  ControlCommand says how *)
(* the server, the worker and the main loop change it.                      *)
EXTENDS ControlParameters

VARIABLES
    \* the server: one row per command, and the acknowledgements it recorded
    row, acks,
    \* the worker's RAM
    record, step, halted, restartAfter, call, reply,
    \* flash
    journal,
    \* the network: acknowledgements under way
    wire,
    \* ControlMailbox, and the main loop's side of it
    slot, mainActive,
    \* bound and history
    reboots, effects

NoCommand == 0

-----------------------------------------------------------------------------

\* No command is ever carried out twice: not after a fresh lease, a repeated
\* delivery, a lost answer, a failed journal write or a power loss.
AtMostOnce == \A c \in Commands : effects[c] <= 1

\* What was carried out had been reported running, and the server had agreed:
\* a command the server expired or never released has no effect.
EffectOnlyOnceReleased ==
    \A c \in Commands :
        effects[c] > 0 => \E a \in acks : a.cmd = c /\ a.status = "running"

\* What was carried out is past acceptance in flash, so a power loss right
\* after the effect finds the command started and does not start it again.
DurableBeforeEffect ==
    \A c \in Commands :
        effects[c] > 0 => \/ journal.cmd > c
                          \/ journal.cmd = c /\ journal.status # "accepted"

\* A success shown on the console was a success: the effect happened, or is
\* the restart that follows the report.
SucceededMeansDone ==
    \A c \in Commands :
        row[c].status = "succeeded" => effects[c] = 1 \/ ActionOf[c] = "reboot"

\* The mailbox carries one request at a time, and the main loop works on
\* nothing but the one in it.
SingleFlight ==
    mainActive # NoCommand => slot.state = "in_flight" /\ slot.cmd = mainActive

=============================================================================
