---------------------------------- MODULE Link ----------------------------------
(***************************************************************************)
(* The authority's connection to the bridge (VarcoRelay._run in relay.py): *)
(* a loop that connects, and waits between attempts - a little longer each *)
(* time, or for long when the bridge turns the authority away for good.    *)
(*                                                                         *)
(* Time is a clock of seconds, scaled down in the instances.  A bridge     *)
(* (external) rejects before it is ready only; connections end at any      *)
(* time.  Abstracted: what is signed and shown, the messages of clients.   *)
(***************************************************************************)
EXTENDS Naturals, Sequences

CONSTANTS
  Initial, Cap,   \* the first wait and the longest (1 and 60)
  Stable,         \* a connection that lasts as long starts the waits anew (60)
  Long,           \* _terminal_retry_delay (3600)
  TerminalAfter,  \* TERMINAL_AFTER_ATTEMPTS (3)
  Times,          \* of attempts that all fail at once, up to the first that is
                  \* Stable seconds after the first (0, 1, 3, 7, 15, 31, 63)
  MaxClock        \* bound

Smaller(a, b) == IF a < b THEN a ELSE b

Burst == Len(Times) - 1  \* attempts that fit in Stable seconds

ASSUME LinkAssumption ==
  /\ {Initial, Cap, Stable, Long, TerminalAfter, Burst} \subseteq Nat \ {0}
  /\ Initial <= Cap /\ Stable <= Long /\ MaxClock \in Nat
  /\ Times \in Seq(Nat) /\ Times[1] = 0 /\ Times[2] = Initial
  /\ \A n \in 2..Burst : Times[n + 1] = Times[n] + Smaller(2 * (Times[n] - Times[n - 1]), Cap)
  /\ Times[Burst + 1] >= Stable

VARIABLES
  phase,      \* "due", "open", "ready", "waiting", "stopped"
  clock,
  started,    \* of this attempt
  until,      \* end of the wait
  delay,
  failures,   \* _terminal_failures
  mismatch,   \* _terminal_reason is set
  notified,   \* the owner is shown that the relay is paused
  attempts,   \* history: when the last Burst + 1 attempts were made
  rejections  \* history: when the bridge rejected, since it was last ready

lvars == <<phase, clock, started, until, delay, failures, mismatch, notified, attempts, rejections>>

Elapse ==
  /\ clock < MaxClock /\ clock' = clock + 1
  /\ UNCHANGED <<phase, started, until, delay, failures, mismatch, notified, attempts, rejections>>

Attempt ==
  /\ phase = "due"
  /\ phase' = "open"
  /\ started' = clock
  /\ attempts' = Append(IF Len(attempts) > Burst THEN Tail(attempts) ELSE attempts, clock)
  /\ UNCHANGED <<clock, until, delay, failures, mismatch, notified, rejections>>

\* The challenge names another protocol version: the relay closes.
Mismatch ==
  /\ phase = "open" /\ ~mismatch
  /\ mismatch' = TRUE
  /\ UNCHANGED <<phase, clock, started, until, delay, failures, notified, attempts, rejections>>

IsReady ==
  /\ phase = "open" /\ ~mismatch
  /\ phase' = "ready"
  /\ failures' = 0
  /\ notified' = FALSE
  /\ rejections' = <<>>
  /\ UNCHANGED <<clock, started, until, delay, mismatch, attempts>>

\* mutant of NextDelay: an orderly close starts the waits anew
NextDelayAfresh == Initial

\* The wait that is due after a connection of this length.
NextDelay == IF clock - started >= Stable THEN Initial ELSE delay

\* _notify_terminal and the long wait.
Pause ==
  /\ notified' = TRUE
  /\ until' = clock + Long
  /\ delay' = Initial

Retry ==
  /\ until' = clock + NextDelay
  /\ delay' = Smaller(2 * NextDelay, Cap)
  /\ UNCHANGED notified

Counted == failures + 1

\* The connection ends by an error or a close without a verdict.
LinkEnds ==
  /\ phase \in {"open", "ready"}
  /\ phase' = "waiting"
  /\ mismatch' = FALSE
  /\ IF mismatch THEN Pause ELSE Retry
  /\ UNCHANGED <<clock, started, failures, attempts, rejections>>

\* It ends by 4401, 4403 or 4406.
Rejected ==
  /\ phase = "open" /\ ~mismatch
  /\ phase' = "waiting"
  /\ failures' = Counted
  /\ IF Counted >= TerminalAfter THEN Pause ELSE Retry
  /\ rejections' = Append(rejections, clock)
  /\ UNCHANGED <<clock, started, mismatch, attempts>>

WaitOver ==
  /\ phase = "waiting" /\ clock >= until
  /\ phase' = "due"
  /\ UNCHANGED <<clock, started, until, delay, failures, mismatch, notified, attempts, rejections>>

StopLink ==
  /\ phase # "stopped"
  /\ phase' = "stopped"
  /\ UNCHANGED <<clock, started, until, delay, failures, mismatch, notified, attempts, rejections>>

LinkInit ==
  /\ phase = "due" /\ clock = 0 /\ started = 0 /\ until = 0 /\ delay = Initial
  /\ failures = 0 /\ mismatch = FALSE /\ notified = FALSE
  /\ attempts = <<>> /\ rejections = <<>>

LinkNext ==
  \/ Elapse \/ Attempt \/ Mismatch \/ IsReady \/ LinkEnds \/ Rejected \/ WaitOver \/ StopLink

LinkSpec == LinkInit /\ [][LinkNext]_lvars

-----------------------------------------------------------------------------
\* The bridge is not hammered.  However connections end, the attempts that fall
\* into Stable seconds are no more than waits of 1, 2, 4, ... seconds allow.  (A
\* tight loop once used up a day's requests of the Durable Object.)  And a bridge
\* that keeps rejecting, whatever other failures come in between, is asked
\* TerminalAfter times and then once in Long seconds.
Spaced ==
  Len(attempts) > Burst => attempts[Burst + 1] - attempts[1] >= Stable

RarelyRejected ==
  \A i \in DOMAIN rejections :
    (i >= TerminalAfter /\ i < Len(rejections)) => rejections[i + 1] - rejections[i] >= Long

NotHammered == Spaced /\ RarelyRejected
=============================================================================
