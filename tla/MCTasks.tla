-------------------------------- MODULE MCTasks --------------------------------
(***************************************************************************)
(* The components of the bot whose tasks or threads run side by side, for  *)
(* TLC: the limiter of its messages, the CLI sessions, voice notes, and    *)
(* the session store (whose Init, Next and Fairness are those below).      *)
(* They share no state in these modules: each behaviour runs one part,     *)
(* while the others stay at one initial state, and the states of the parts *)
(* add up instead of multiplying.                                          *)
(***************************************************************************)
EXTENDS MessagingRateLimiter, CLISessions, VoiceNotes, SessionStore

VARIABLE part

Parts == {"limiter", "sessions", "voice", "store"}

\* What differs between the initial states of a part is chosen for the part that
\* runs only.
TasksInit ==
    /\ part \in Parts
    /\ IF part = "limiter" THEN TRUE
       ELSE way = [c \in Calls |-> "await"] /\ keyOf = [c \in Calls |-> CHOOSE k \in Keys : TRUE]
    /\ IF part = "voice" THEN TRUE ELSE voicePlatform = "discord"
    /\ LimiterInit /\ SessionsInit /\ VoiceInit /\ Init

TasksNext ==
    \/ part = "limiter" /\ LimiterNext /\ UNCHANGED <<part, sessionVars, voiceVars, vars>>
    \/ part = "sessions" /\ SessionsNext /\ UNCHANGED <<part, limiterVars, voiceVars, vars>>
    \/ part = "voice" /\ VoiceNext /\ UNCHANGED <<part, limiterVars, sessionVars, vars>>
    \/ part = "store" /\ Next /\ UNCHANGED <<part, limiterVars, sessionVars, voiceVars>>

\* Fairness binds the part that runs: no fair action of another one is enabled in
\* its initial state.
TasksSpec ==
    /\ TasksInit /\ [][TasksNext]_<<part, limiterVars, sessionVars, voiceVars, vars>>
    /\ LimiterFairness /\ SessionsFairness /\ Fairness
=============================================================================
