------------------------- MODULE MCVoiceConversation -------------------------
(***************************************************************************)
(* Two clients on one session: two turns or typed requests, a crash.  The   *)
(* profile is one an operator may write: an Ollama on another host, then a  *)
(* hosted model.                                                            *)
(***************************************************************************)
EXTENDS VoiceConversation, TLC

MCProfile ==
    [candidates |-> << [provider |-> "ollama", address |-> "elsewhere", secret |-> FALSE],
                       [provider |-> "openai", address |-> "none", secret |-> FALSE] >>,
     fallback |-> "ordered"]

MCFrames == {"vad.speech_started", "interruption", "error", "session.closed"}

MCSymmetry == Permutations(Clients)
=============================================================================
