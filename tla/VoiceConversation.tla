-------------------------- MODULE VoiceConversation --------------------------
(***************************************************************************)
(* One voice session (speech/session.py) on its active session              *)
(* (memory/sessions.py), as clients drive it: events, submitted turns       *)
(* (ops/voice.py) and typed text (ops/intent.py), routed by                 *)
(* cognition/router.py, run, and answered by assistant_reply                *)
(* (workflow/activities.py) through the Model Gateway.                      *)
(*                                                                         *)
(* A client is a process of its own (server/stdio.py serves one request at  *)
(* a time).  It reads the session's state, decides, and writes: every read  *)
(* and every commit is a step.  What a run does is DurableRun's.            *)
(***************************************************************************)
EXTENDS ModelGateway, Sequences, FiniteSets

CONSTANTS
    Clients,
    ClientFrames,   \* the frames clients send as events
    Profile,        \* the resident-mind profile: [candidates, fallback]
    MaxRequests,    \* bounds of the model: turns and typed requests,
    MaxCrashes      \* and deaths of clients

ASSUME VoiceAssumption ==
    /\ MaxRequests \in Nat /\ MaxCrashes \in Nat
    /\ IsFiniteSet(Clients)
    /\ Profile.fallback \in {"ordered", "none"}
    /\ Profile.candidates \in Seq(Candidate)

VARIABLES
    status,     \* active_sessions.status
    due,        \* has expires_at passed?
    state,      \* the session's state: that of its last voice_state entry
    untold,     \* voice_state entries without their event
    heard,      \* turns whose utterance is an entry
    answered,   \* runs whose response is an entry
    facts,      \* how many facts are entries
    runs,       \* the runs started: [turn, ref, at]
    client,     \* c -> the call it serves: [todo, phase, read, call, ref, run]
    called,     \* history: candidates that were sent a prompt
    requests,   \* bounds
    crashes

session == <<status, due, state, untold>>
transcript == <<heard, answered, facts>>
counters == <<requests, crashes>>
vars == <<session, transcript, runs, client, counters, called>>

-----------------------------------------------------------------------------
(* The session's state machine *)

Working == {"idle", "armed", "listening", "transcribing", "submitting",
            "speaking", "recovering"}

Move(from, frame, to) == [from |-> from, frame |-> frame, to |-> to]

Transitions ==
    UNION {
      { Move(s, f, s) : s \in {"idle", "armed"}, f \in {"session.started", "session.idle"} },
      { Move(s, "session.idle", "idle") : s \in {"listening", "recovering"} },
      { Move(s, "wake.detected", "listening") : s \in {"idle", "armed"} },
      { Move(s, "vad.speech_started", "listening") : s \in {"idle", "armed", "speaking"} },
      { Move("listening", "vad.speech_stopped", "transcribing") },
      { Move(s, "stt.partial", s) : s \in {"listening", "transcribing"} },
      { Move("transcribing", "stt.final", "submitting") },
      { Move("submitting", "core.submitted", "submitting") },
      { Move("submitting", "core.output_text", "speaking") },
      { Move("speaking", "tts.audio_chunk", "speaking") },
      { Move("speaking", "tts.done", "idle") },
      { Move(s, "interruption", "listening") : s \in {"speaking", "listening"} },
      { Move(s, "error", "recovering") : s \in Working },
      { Move(s, "session.closed", "closed") : s \in Working } }

Frames == { m.frame : m \in Transitions }
Accepts(s, frame) == \E m \in Transitions : m.from = s /\ m.frame = frame
NextState(s, frame) == (CHOOSE m \in Transitions : m.from = s /\ m.frame = frame).to

-----------------------------------------------------------------------------
(* Routing *)

Utterances == {"run phrase", "draft phrase", "memory phrase", "no phrase"}

\* The router passes the schema by position to a function that takes it by
\* name: the model is never asked.
ModelIntent == "raises"

Classify(u) ==
    CASE u = "run phrase" -> "run_workflow"
      [] u = "draft phrase" -> "draft_workflow"
      [] u = "memory phrase" -> "propose_memory"
      [] OTHER -> IF ModelIntent = "raises" THEN "answer" ELSE ModelIntent

\* The workflow of a voice turn: the default is only what is not asked for.
Refs == {"none", "assistant", "other"}
VoiceRef(ref, u) ==
    IF ref = "other" \/ Classify(u) = "run_workflow" THEN "other" ELSE "assistant"

-----------------------------------------------------------------------------
(* Calls.  What is left of a call is a sequence of frames and of other steps. *)

NoCall == [todo |-> <<>>, phase |-> "read", read |-> "none", call |-> 0,
           ref |-> "none", run |-> 0]

Idle(c) == client[c].todo = <<>>
Doing(c, step) == ~Idle(c) /\ Head(client[c].todo) = step
Frame(c) == Head(client[c].todo)
InFrame(c, phase) == ~Idle(c) /\ Frame(c) \in Frames /\ client[c].phase = phase

Serve(c, call) == client' = [client EXCEPT ![c] = call]
Returns(c) == client' = [client EXCEPT ![c] = NoCall]
Done(c) ==
    IF Len(client[c].todo) = 1 THEN Returns(c)
    ELSE client' = [client EXCEPT ![c].todo = Tail(@), ![c].phase = "read", ![c].read = "none"]

\* append_entry: one that comes too late raises, and leaves the session expired.
\* Mutant: only the status counts.
OverByStatus == status = "expired"

Over == status = "expired" \/ due

TooLate(c) ==
    /\ Over
    /\ status' = "expired"
    /\ Returns(c)

Init ==
    /\ status = "active"
    /\ due = FALSE
    /\ state \in {"idle", "armed"}
    /\ untold = 0
    /\ heard = {} /\ answered = {} /\ facts = 0
    /\ runs = <<>>
    /\ client = [c \in Clients |-> NoCall]
    /\ requests = 0 /\ crashes = 0
    /\ called = {}

-----------------------------------------------------------------------------
(* Requests *)

\* op_voice_session_event, op_voice_session_close: a frame that the state does
\* not accept raises.  An interruption leaves a mark in the transcript.
Event(c, frame) ==
    /\ Idle(c) /\ Accepts(state, frame)
    /\ Serve(c, [NoCall EXCEPT
                   !.todo = IF frame = "interruption" THEN <<frame, "mark">> ELSE <<frame>>,
                   !.phase = "record", !.read = state])
    /\ UNCHANGED <<session, transcript, runs, counters, called>>

\* op_voice_submit_text: the state it finds decides which frames it sends.
Opening(s) ==
    CASE s \in {"idle", "armed"} -> <<"vad.speech_started", "vad.speech_stopped", "stt.final">>
      [] s = "listening" -> <<"vad.speech_stopped", "stt.final">>
      [] s = "transcribing" -> <<"stt.final">>
      [] OTHER -> <<>>

\* Mutant: the run is started before the utterance is written down.
RunFirst == <<"core.submitted", "start", "hear", "finish", "core.output_text", "respond">>

Turn == <<"core.submitted", "hear", "start", "finish", "core.output_text", "respond">>

Submit(c, u, ref) ==
    /\ Idle(c) /\ requests < MaxRequests
    /\ requests' = requests + 1
    /\ Serve(c, [NoCall EXCEPT !.todo = Opening(state) \o Turn, !.call = requests',
                               !.ref = VoiceRef(ref, u)])
    /\ UNCHANGED <<session, transcript, runs, crashes, called>>

\* op_intent_dispatch for typed text, with the session (a draft is the
\* catalog's).  A run may go on in a thread of its own ("leave").
Steps(u) ==
    CASE Classify(u) = "propose_memory" -> { <<"note">> }
      [] Classify(u) \in {"run_workflow", "answer"} -> { <<"start", "finish">>, <<"start", "leave">> }
      [] OTHER -> {}

Dispatch(c, u) ==
    /\ Idle(c) /\ requests < MaxRequests
    /\ requests' = requests + 1
    /\ \E todo \in Steps(u) : Serve(c, [NoCall EXCEPT !.todo = todo, !.ref = VoiceRef("none", u)])
    /\ UNCHANGED <<session, transcript, runs, crashes, called>>

-----------------------------------------------------------------------------
(* Steps of a call *)

\* accept_frame reads the state ...
Read(c) ==
    /\ InFrame(c, "read")
    /\ IF Accepts(state, Frame(c))
       THEN client' = [client EXCEPT ![c].phase = "record", ![c].read = state]
       ELSE Returns(c)
    /\ UNCHANGED <<session, transcript, runs, counters, called>>

\* ... appends the entry of the next one, whatever has been written since ...
Record(c) ==
    /\ InFrame(c, "record")
    /\ \/ TooLate(c) /\ UNCHANGED <<state, untold>>
       \/ /\ ~Over
          /\ state' = NextState(client[c].read, Frame(c))
          /\ untold' = untold + 1
          /\ client' = [client EXCEPT ![c].phase = "tell"]
          /\ UNCHANGED status
    /\ UNCHANGED <<due, transcript, runs, counters, called>>

\* Mutant: a frame that leaves the state as it was has no event.
ToldChanges(c) == IF client[c].read = NextState(client[c].read, Frame(c)) THEN 0 ELSE 1

Told(c) == 1

\* ... and writes its event.
Tell(c) ==
    /\ InFrame(c, "tell")
    /\ untold' = untold - Told(c)
    /\ Done(c)
    /\ UNCHANGED <<status, due, state, transcript, runs, counters, called>>

\* The other entries: an utterance, a response, a fact, the mark of an interruption.
Appends(c, step) ==
    /\ Doing(c, step)
    /\ \/ TooLate(c) /\ UNCHANGED transcript
       \/ /\ ~Over
          /\ heard' = IF step = "hear" THEN heard \cup {client[c].call} ELSE heard
          /\ answered' = IF step = "respond" THEN answered \cup {client[c].run} ELSE answered
          /\ facts' = IF step = "note" THEN facts + 1 ELSE facts
          /\ Done(c)
          /\ UNCHANGED status
    /\ UNCHANGED <<due, state, untold, runs, counters, called>>

\* op_run_start: no such workflow, or no input of its kind; or a run.
StartFails(c) ==
    /\ Doing(c, "start")
    /\ Returns(c)
    /\ UNCHANGED <<session, transcript, runs, counters, called>>

Start(c) ==
    /\ Doing(c, "start")
    /\ runs' = Append(runs, [turn |-> client[c].call, ref |-> client[c].ref, at |-> "running"])
    /\ client' = [client EXCEPT ![c].todo = Tail(@), ![c].run = Len(runs) + 1]
    /\ UNCHANGED <<session, transcript, counters, called>>

\* A run ends; the default workflow has asked the resident mind (assistant_reply).
AssistantAllowlist == {LlmComplete.ref}

Ends(r) ==
    /\ runs' = [runs EXCEPT ![r].at = "ended"]
    /\ IF runs[r].ref = "assistant"
       THEN \E done \in Completions(Profile, TRUE, AssistantAllowlist, FALSE) :
                called' = called \cup done.called
       ELSE UNCHANGED called

Finish(c) ==
    /\ Doing(c, "finish")
    /\ Ends(client[c].run)
    /\ Done(c)
    /\ UNCHANGED <<session, transcript, counters>>

Leave(c) ==
    /\ Doing(c, "leave")
    /\ Returns(c)
    /\ UNCHANGED <<session, transcript, runs, counters, called>>

\* A run in a thread, or one that a restart has resumed.
EndsAlone(r) ==
    /\ runs[r].at = "running"
    /\ \A c \in Clients : client[c].run # r
    /\ Ends(r)
    /\ UNCHANGED <<session, transcript, client, counters>>

-----------------------------------------------------------------------------
(* The session's other operations, time and crashes *)

Expire ==
    /\ ~due
    /\ due' = TRUE
    /\ UNCHANGED <<status, state, untold, transcript, runs, client, counters, called>>

\* show_session
Show ==
    /\ status = "active" /\ due
    /\ status' = "expired"
    /\ UNCHANGED <<due, state, untold, transcript, runs, client, counters, called>>

\* summarize_session, of a session in any status
Summarize ==
    /\ status # "summarized"
    /\ status' = "summarized"
    /\ UNCHANGED <<due, state, untold, transcript, runs, client, counters, called>>

Crash(c) ==
    /\ ~Idle(c) /\ crashes < MaxCrashes
    /\ crashes' = crashes + 1
    /\ Returns(c)
    /\ UNCHANGED <<session, transcript, runs, requests, called>>

Request(c) ==
    \/ \E frame \in ClientFrames : Event(c, frame)
    \/ \E u \in Utterances, ref \in Refs : Submit(c, u, ref)
    \/ \E u \in Utterances : Dispatch(c, u)

Continue(c) ==
    \/ Read(c) \/ Record(c) \/ Tell(c)
    \/ \E step \in {"hear", "respond", "note", "mark"} : Appends(c, step)
    \/ StartFails(c) \/ Start(c) \/ Finish(c) \/ Leave(c)

Next ==
    \/ \E c \in Clients : Request(c) \/ Continue(c) \/ Crash(c)
    \/ \E r \in DOMAIN runs : EndsAlone(r)
    \/ Expire \/ Show \/ Summarize

Spec == Init /\ [][Next]_vars

-----------------------------------------------------------------------------
(* Properties *)

\* Every run of a voice turn was started after the operator's words were in the
\* transcript, however clients overlap and die (op_voice_submit_text; "Final
\* submitted voice text is visible and persisted before it is submitted").
HeardBeforeRun ==
    \A r \in DOMAIN runs : runs[r].turn > 0 => runs[r].turn \in heard

\* The event trail lacks a transition only while its client is about to write it,
\* or because that client died between the two commits (_record_transition).
TrailFollows ==
    untold <= crashes + Cardinality({ c \in Clients : InFrame(c, "tell") })

\* Once its time is over nothing is added to a session, also not after it was
\* summarized, which takes the status "expired" away (append_entry,
\* summarize_session).
ExpiredIsSilent ==
    [][due => UNCHANGED <<state, transcript>>]_vars

\* What the operator says is sent to no hosted model, whichever candidates the
\* profile lists in whichever order: whoever is asked has a loopback address or
\* is an Ollama, and that one wherever it runs (_authorize_completion_call;
\* ADR-0017, "Model calls are Guard-governed by locality").
NoHostedModelAsked ==
    \A candidate \in called : candidate.provider = "ollama" \/ candidate.address = "loopback"
=============================================================================
