------------------------------ MODULE VoiceNotes ------------------------------
(***************************************************************************)
(* Voice notes: the handlers of the two adapters (_on_telegram_voice,      *)
(* _handle_voice_note), the registry of pending notes                      *)
(* (src/messaging/voice.py), and a /clear that replies to one.             *)
(*                                                                         *)
(* The registry's lock is never held over an await, so its operations are  *)
(* atomic, and so are two of them in a row.  The Discord library runs the  *)
(* handler of every message in a task of its own; the Telegram library, as *)
(* TelegramPlatform.start configures it, runs one handler after the other. *)
(***************************************************************************)
EXTENDS FiniteSets

CONSTANT Notes

VARIABLES
    voicePlatform,     \* "discord" or "telegram"
    note,         \* where the handler of each note stands
    registry,     \* PendingVoiceRegistry._pending: keys <<note, "voice" or "status">>
    told          \* notes of which /clear said that they were cancelled

voiceVars == <<voicePlatform, note, registry, told>>

NoteKeys(n) == {<<n, "voice">>, <<n, "status">>}

VoiceInit ==
    /\ voicePlatform \in {"discord", "telegram"}
    /\ note = [n \in Notes |-> "none"] /\ registry = {} /\ told = {}

VoiceTypeOK ==
    /\ note \in [Notes -> {"none", "refused", "announcing", "transcribing", "failed",
                           "handling", "handled", "dropped"}]
    /\ registry \subseteq UNION {NoteKeys(n) : n \in Notes} /\ told \subseteq Notes

-----------------------------------------------------------------------------

InHand == {"announcing", "transcribing", "handling"}

\* The library may call a handler.
MayHandle == voicePlatform = "telegram" => \A n \in Notes : note[n] \notin InHand

Becomes(n, state) == note' = [note EXCEPT ![n] = state]

\* PendingVoiceRegistry.cancel and complete.
Forgotten(n) == registry' = registry \ NoteKeys(n)

\* A note arrives: it is refused (disabled, not allowed), or announced.
NoteArrives(n) ==
    /\ note[n] = "none" /\ MayHandle
    /\ Becomes(n, "announcing") \/ Becomes(n, "refused")
    /\ UNCHANGED <<voicePlatform, registry, told>>

\* The status message is sent: the note is pending.  Or sending it fails.
Announced(n) ==
    /\ note[n] = "announcing"
    /\ \/ Becomes(n, "transcribing") /\ registry' = registry \cup NoteKeys(n)
       \/ Becomes(n, "failed") /\ UNCHANGED registry
    /\ UNCHANGED <<voicePlatform, told>>

\* The download or the transcription fails; the note stays in the registry.
TranscriptionFails(n) ==
    /\ note[n] = "transcribing"
    /\ Becomes(n, "failed")
    /\ UNCHANGED <<voicePlatform, registry, told>>

\* Mutant: whether the note is still pending is not looked at.
TranscribedUnchecked(n) ==
    /\ note[n] = "transcribing"
    /\ Becomes(n, "handling") /\ Forgotten(n)
    /\ UNCHANGED <<voicePlatform, told>>

\* The text is there: it is handled like a message, unless the note was cancelled.
Transcribed(n) ==
    /\ note[n] = "transcribing"
    /\ IF <<n, "voice">> \in registry
       THEN Becomes(n, "handling") /\ Forgotten(n)
       ELSE Becomes(n, "dropped") /\ UNCHANGED registry
    /\ UNCHANGED <<voicePlatform, told>>

\* The message handler returns or raises.
Handled(n) ==
    /\ note[n] = "handling"
    /\ Becomes(n, "handled") \/ Becomes(n, "failed")
    /\ UNCHANGED <<voicePlatform, registry, told>>

\* /clear in reply to a note or to its status message, while it is no node of
\* a tree: it is cancelled if it is pending; else nothing is there to clear.
Clear(n, key) ==
    /\ MayHandle /\ note[n] \notin {"none", "handled"} /\ key \in NoteKeys(n) \cap registry
    /\ Forgotten(n) /\ told' = told \cup {n}
    /\ UNCHANGED <<voicePlatform, note>>

VoiceNext ==
    \E n \in Notes : \/ NoteArrives(n) \/ Announced(n) \/ TranscriptionFails(n) \/ Transcribed(n)
                     \/ Handled(n) \/ (\E key \in NoteKeys(n) : Clear(n, key))

VoiceSpec == VoiceInit /\ [][VoiceNext]_voiceVars

-----------------------------------------------------------------------------

\* A note is in the registry under both of its messages or under neither, and
\* only while it is transcribed - or for ever, if that failed.
PendingPaired ==
    \A n \in Notes : NoteKeys(n) \cap registry # {} =>
        NoteKeys(n) \subseteq registry /\ note[n] \in {"transcribing", "failed"}

\* A note of which the user was told that it is cancelled is not handled.
CancelledStays == \A n \in told : note[n] \notin {"handling", "handled"}
=============================================================================
