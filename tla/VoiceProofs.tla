----------------------------- MODULE VoiceProofs -----------------------------
(***************************************************************************)
(* Theorems about VoiceConversation, for any number of clients, requests    *)
(* and crashes, any frames clients send and any profile.                    *)
(***************************************************************************)
EXTENDS VoiceConversation, Integers, FiniteSetTheorems, SequenceTheorems, TLAPS

-----------------------------------------------------------------------------
(* The types *)

States == Working \cup {"closed"}
Entries == {"hear", "respond", "note", "mark"}
Others == Entries \cup {"start", "finish", "leave"}

Runs == [turn : Nat, ref : Refs, at : {"running", "ended"}]
CallShapes == [todo : Seq(Frames \cup Others), phase : {"read", "record", "tell"},
               read : States \cup {"none"}, call : Nat, ref : Refs, run : Nat]

VoiceTypeOK ==
    /\ status \in {"active", "expired", "summarized"}
    /\ due \in BOOLEAN
    /\ state \in States
    /\ untold \in Int
    /\ heard \subseteq Nat /\ answered \subseteq Nat /\ facts \in Nat
    /\ runs \in Seq(Runs)
    /\ client \in [Clients -> CallShapes]
    /\ requests \in Nat /\ crashes \in Nat

-----------------------------------------------------------------------------
(* The inductive invariants *)

\* A client is past the reading of a frame in a frame only, and what it is about
\* to record was a move of the state it has read.
FrameIsMove(c) ==
    /\ client[c].phase # "read" => ~Idle(c) /\ Frame(c) \in Frames
    /\ client[c].phase = "record" => Accepts(client[c].read, Frame(c))

\* A turn that will start a run has been heard, or will be before that.
WillHear(c) ==
    \A i \in 1..Len(client[c].todo) :
        (client[c].call > 0 /\ client[c].todo[i] = "start") =>
            \/ client[c].call \in heard
            \/ \E j \in 1..(i - 1) : client[c].todo[j] = "hear"

Telling == { c \in Clients : InFrame(c, "tell") }

VoiceInv ==
    /\ VoiceTypeOK
    /\ \A c \in Clients : FrameIsMove(c) /\ WillHear(c)
    /\ HeardBeforeRun
    /\ TrailFollows

-----------------------------------------------------------------------------
(* Operators *)

\* No other step of a call is a frame.
LEMMA OthersAreNoFrames ==
    ASSUME NEW step \in Others
    PROVE  step \notin Frames
  <1>1. \A m \in Transitions : m.frame \in
          {"session.started", "session.idle", "wake.detected", "vad.speech_started",
           "vad.speech_stopped", "stt.partial", "stt.final", "core.submitted",
           "core.output_text", "tts.audio_chunk", "tts.done", "interruption", "error",
           "session.closed"}
    BY DEF Transitions, Move
  <1> QED
    BY <1>1 DEF Frames, Others, Entries

\* Every move ends in a state, and has a frame.
LEMMA MovesAreOfStates ==
    \A m \in Transitions : m.to \in States /\ m.frame \in Frames
  <1>1. \A m \in Transitions : m.to \in States
    BY DEF Transitions, Move, States, Working
  <1> QED
    BY <1>1 DEF Frames

\* What an accepted frame leads to.
LEMMA NextStateIsAState ==
    ASSUME NEW s, NEW frame, Accepts(s, frame)
    PROVE  NextState(s, frame) \in States /\ frame \in Frames
  <1> DEFINE move == CHOOSE m \in Transitions : m.from = s /\ m.frame = frame
  <1>1. move \in Transitions /\ move.from = s /\ move.frame = frame
    BY DEF Accepts
  <1> HIDE DEF move
  <1>2. NextState(s, frame) = move.to
    BY DEF NextState, move
  <1> QED
    BY <1>1, <1>2, MovesAreOfStates

\* The frames a turn sends.
LEMMA TurnsAreOfFrames ==
    /\ {"vad.speech_started", "vad.speech_stopped", "stt.final", "core.submitted",
        "core.output_text", "interruption"} \subseteq Frames
  <1>1. /\ Move("idle", "vad.speech_started", "listening") \in Transitions
        /\ Move("listening", "vad.speech_stopped", "transcribing") \in Transitions
        /\ Move("transcribing", "stt.final", "submitting") \in Transitions
        /\ Move("submitting", "core.submitted", "submitting") \in Transitions
        /\ Move("submitting", "core.output_text", "speaking") \in Transitions
        /\ Move("speaking", "interruption", "listening") \in Transitions
    BY DEF Transitions
  <1> QED
    BY <1>1 DEF Frames, Move

\* What a turn does: its steps are frames and other steps, and it hears before
\* it starts a run.
LEMMA TurnHearsFirst ==
    ASSUME NEW s \in States
    PROVE  /\ Opening(s) \o Turn \in Seq(Frames \cup Others)
           /\ Opening(s) \o Turn # <<>>
           /\ \A i \in 1..Len(Opening(s) \o Turn) :
                 (Opening(s) \o Turn)[i] = "start" =>
                     \E j \in 1..(i - 1) : (Opening(s) \o Turn)[j] = "hear"
  <1>1. /\ Turn \in Seq(Frames \cup Others) /\ Len(Turn) = 6
        /\ Turn[1] = "core.submitted" /\ Turn[2] = "hear" /\ Turn[3] = "start"
        /\ Turn[4] = "finish" /\ Turn[5] = "core.output_text" /\ Turn[6] = "respond"
    BY TurnsAreOfFrames DEF Turn, Others, Entries
  <1> DEFINE o == Opening(s)
             todo == o \o Turn
  <1>2. o \in Seq(Frames \cup Others) /\ \A i \in 1..Len(o) : o[i] # "start"
    <2>1. o \in {<<"vad.speech_started", "vad.speech_stopped", "stt.final">>,
                 <<"vad.speech_stopped", "stt.final">>, <<"stt.final">>, <<>>}
      BY DEF Opening
    <2> HIDE DEF o
    <2>2. CASE o = <<"vad.speech_started", "vad.speech_stopped", "stt.final">>
      BY <2>2, TurnsAreOfFrames
    <2>3. CASE o = <<"vad.speech_stopped", "stt.final">>
      BY <2>3, TurnsAreOfFrames
    <2>4. CASE o = <<"stt.final">>
      BY <2>4, TurnsAreOfFrames
    <2>5. CASE o = <<>>
      BY <2>5
    <2> QED
      BY <2>1, <2>2, <2>3, <2>4, <2>5
  <1> HIDE DEF o
  <1>3. Len(o) \in Nat
    BY <1>2
  <1>4. todo \in Seq(Frames \cup Others) /\ Len(todo) = Len(o) + 6
    <2>1. todo \in Seq(Frames \cup Others) /\ Len(todo) = Len(o) + Len(Turn)
      BY <1>1, <1>2, ConcatProperties
    <2> QED
      BY <1>1, <2>1
  <1>5. /\ \A i \in 1..Len(o) : todo[i] = o[i]
        /\ \A i \in (Len(o) + 1)..(Len(o) + 6) : todo[i] = Turn[i - Len(o)]
    <2>1. Turn \in Seq(Frames \cup Others) /\ Len(Turn) = 6
      BY <1>1
    <2>2. ASSUME NEW i \in 1..Len(o)
          PROVE  todo[i] = o[i]
      BY <1>2, <2>1, ConcatProperties
    <2>3. ASSUME NEW i \in (Len(o) + 1)..(Len(o) + 6)
          PROVE  todo[i] = Turn[i - Len(o)]
      <3>1. \A j \in 1..(Len(o) + Len(Turn)) :
               todo[j] = IF j <= Len(o) THEN o[j] ELSE Turn[j - Len(o)]
        BY <1>2, <2>1, ConcatProperties
      <3>2. i \in 1..(Len(o) + Len(Turn)) /\ ~(i <= Len(o))
        BY <1>3, <2>1, <2>3
      <3> HIDE DEF todo
      <3> QED
        BY <3>1, <3>2
    <2> QED
      BY <2>2, <2>3
  <1>6. ASSUME NEW i \in 1..Len(todo), todo[i] = "start"
        PROVE  \E j \in 1..(i - 1) : todo[j] = "hear"
    <2>1. i \in (Len(o) + 1)..(Len(o) + 6)
      BY <1>2, <1>3, <1>4, <1>5, <1>6
    <2>2. i = Len(o) + 3
      <3>1. i - Len(o) \in 1..6 /\ todo[i] = Turn[i - Len(o)]
        BY <1>3, <1>5, <2>1
      <3>2. i - Len(o) = 3
        BY <1>1, <1>6, <3>1
      <3> QED
        BY <1>3, <2>1, <3>2
    <2>3. todo[Len(o) + 2] = "hear"
      BY <1>1, <1>3, <1>5
    <2> QED
      BY <1>3, <2>2, <2>3
  <1> QED
    BY <1>3, <1>4, <1>6 DEF o

\* What typed text does.
LEMMA StepsAreSteps ==
    ASSUME NEW u, NEW todo \in Steps(u)
    PROVE  todo \in Seq(Frames \cup Others) /\ todo # <<>>
  <1>1. todo \in {<<"note">>, <<"start", "finish">>, <<"start", "leave">>}
    BY DEF Steps
  <1>2. {"note", "start", "finish", "leave"} \subseteq Others
    BY DEF Others, Entries
  <1>3. CASE todo = <<"note">>
    BY <1>2, <1>3
  <1>4. CASE todo = <<"start", "finish">>
    BY <1>2, <1>4
  <1>5. CASE todo = <<"start", "leave">>
    BY <1>2, <1>5
  <1> QED
    BY <1>1, <1>3, <1>4, <1>5

\* What is sent to a candidate from a run that may call the local model only.
LEMMA OnlyLocalPasses ==
    ASSUME NEW candidate, Authorized(candidate, TRUE, AssistantAllowlist)
    PROVE  Local(candidate)
  <1>1. LlmComplete.ref # HostedLlmComplete.ref
    BY DEF LlmComplete, HostedLlmComplete
  <1>2. CASE ~Local(candidate)
    <2>1. HostedLlmComplete.ref \notin AssistantAllowlist
      BY <1>1 DEF AssistantAllowlist
    <2>2. Evaluate(HostedLlmComplete, AssistantAllowlist, "none") = "deny"
      BY <2>1 DEF Evaluate, UnknownRole, Denied
    <2> QED
      BY <1>2, <2>2 DEF Authorized, CompletionCapability
  <1> QED
    BY <1>2

\* Whoever is sent a prompt by assistant_reply is local.
LEMMA AssistantCallsLocal ==
    ASSUME NEW done \in Completions(Profile, TRUE, AssistantAllowlist, FALSE),
           NEW candidate \in done.called
    PROVE  Local(candidate)
  <1> DEFINE turn == Reachable(Profile, TRUE, AssistantAllowlist, FALSE)
  <1>1. turn \subseteq Nat \ {0}
    <2>1. DOMAIN Profile.candidates = 1..Len(Profile.candidates)
          /\ Len(Profile.candidates) \in Nat
      BY VoiceAssumption
    <2>2. turn \subseteq DOMAIN Profile.candidates
      BY DEF Reachable
    <2> HIDE DEF turn
    <2> QED
      BY <2>1, <2>2
  <1> DEFINE Called(set) == { Profile.candidates[j] : j \in set }
  <1>2. PICK set : candidate \in Called(set) /\ (set = turn \/ \E i \in turn : set = 1..i)
    <2>1. CASE done \in { [called |-> Called(1..i), answered |-> TRUE] : i \in turn }
      <3>1. PICK i \in turn : done = [called |-> Called(1..i), answered |-> TRUE]
        BY <2>1
      <3> QED
        BY <3>1
    <2>2. CASE done = [called |-> Called(turn), answered |-> FALSE]
      BY <2>2
    <2> QED
      BY <2>1, <2>2 DEF Completions
  <1>3. PICK j : candidate = Profile.candidates[j] /\ \E i \in turn : j \in 1..i
    <2>1. PICK j \in set : candidate = Profile.candidates[j]
      BY <1>2
    <2> HIDE DEF turn
    <2>2. CASE set = turn
      <3>1. j \in turn /\ j \in 1..j
        BY <1>1, <2>1, <2>2
      <3> QED
        BY <2>1, <3>1
    <2>3. CASE \E i \in turn : set = 1..i
      BY <2>1, <2>3
    <2> QED
      BY <1>2, <2>2, <2>3
  <1>4. Passes(Profile.candidates[j], TRUE, AssistantAllowlist, FALSE)
    BY <1>3 DEF Reachable
  <1> QED
    BY <1>3, <1>4, OnlyLocalPasses DEF Passes

-----------------------------------------------------------------------------
(* What a step does to the call of its client *)

OnlyThisClient(c) ==
    /\ client' \in [Clients -> CallShapes]
    /\ \A d \in Clients : d # c => client'[d] = client[d]

\* The fields of a call.
LEMMA CallFields ==
    ASSUME VoiceTypeOK, NEW c \in Clients
    PROVE  /\ client[c] \in CallShapes
           /\ client[c].todo \in Seq(Frames \cup Others)
           /\ client[c].phase \in {"read", "record", "tell"}
           /\ client[c].read \in States \cup {"none"}
           /\ client[c].call \in Nat /\ client[c].ref \in Refs /\ client[c].run \in Nat
  BY DEF VoiceTypeOK, CallShapes

\* A client between two calls.
LEMMA NothingToDo ==
    /\ NoCall \in CallShapes
    /\ NoCall.todo = <<>> /\ NoCall.phase = "read" /\ NoCall.call = 0 /\ NoCall.run = 0
  BY DEF NoCall, CallShapes, Refs

\* One call changes.
LEMMA CallBecomes ==
    ASSUME VoiceTypeOK, NEW c \in Clients, NEW r \in CallShapes,
           client' = [client EXCEPT ![c] = r]
    PROVE  OnlyThisClient(c) /\ client'[c] = r
  BY DEF VoiceTypeOK, OnlyThisClient

\* A client that returns has nothing to do.
LEMMA ReturnsToNothing ==
    ASSUME VoiceTypeOK, NEW c \in Clients, Returns(c)
    PROVE  /\ OnlyThisClient(c) /\ client'[c] = NoCall
           /\ FrameIsMove(c)' /\ WillHear(c)' /\ ~InFrame(c, "tell")'
  <1>1. OnlyThisClient(c) /\ client'[c] = NoCall
    BY NothingToDo, CallBecomes DEF Returns
  <1> QED
    BY <1>1, NothingToDo DEF FrameIsMove, WillHear, InFrame, Idle

\* A call that has begun: its first frame was accepted or will be read, and its
\* run comes after its words.
LEMMA Serves ==
    ASSUME VoiceTypeOK, NEW c \in Clients, Request(c)
    PROVE  /\ OnlyThisClient(c) /\ Idle(c)
           /\ FrameIsMove(c)' /\ WillHear(c)' /\ ~InFrame(c, "tell")'
           /\ requests' \in Nat
           /\ UNCHANGED <<session, transcript, runs, crashes, called>>
  <1>0. NoCall \in CallShapes /\ state \in States /\ requests \in Nat
    BY NothingToDo DEF VoiceTypeOK
  <1>1. ASSUME NEW frame \in ClientFrames, Event(c, frame)
        PROVE  /\ OnlyThisClient(c) /\ FrameIsMove(c)' /\ WillHear(c)' /\ ~InFrame(c, "tell")'
    <2> DEFINE todo == IF frame = "interruption" THEN <<frame, "mark">> ELSE <<frame>>
               r == [NoCall EXCEPT !.todo = todo, !.phase = "record", !.read = state]
    <2>1. frame \in Frames /\ Accepts(state, frame)
      BY <1>1, NextStateIsAState DEF Event
    <2>2. todo \in Seq(Frames \cup Others) /\ todo # <<>> /\ Head(todo) = frame
      <3>1. {frame, "mark"} \subseteq Frames \cup Others
        BY <2>1 DEF Others, Entries
      <3>2. CASE frame = "interruption"
        BY <3>1, <3>2
      <3>3. CASE frame # "interruption"
        BY <3>1, <3>3
      <3> QED
        BY <3>2, <3>3
    <2> HIDE DEF todo
    <2>3. /\ r \in CallShapes /\ r.todo = todo /\ r.phase = "record" /\ r.read = state
          /\ r.call = 0
      BY <1>0, <2>2, NothingToDo DEF CallShapes
    <2>4. client' = [client EXCEPT ![c] = r]
      BY <1>1 DEF Event, Serve, todo
    <2> HIDE DEF r
    <2>5. OnlyThisClient(c) /\ client'[c] = r
      BY <2>3, <2>4, CallBecomes
    <2> QED
      BY <2>1, <2>2, <2>3, <2>5 DEF FrameIsMove, WillHear, InFrame, Idle, Frame
  <1>2. ASSUME NEW u \in Utterances, NEW ref \in Refs, Submit(c, u, ref)
        PROVE  /\ OnlyThisClient(c) /\ FrameIsMove(c)' /\ WillHear(c)' /\ ~InFrame(c, "tell")'
               /\ requests' \in Nat
    <2> DEFINE todo == Opening(state) \o Turn
               r == [NoCall EXCEPT !.todo = todo, !.call = requests', !.ref = VoiceRef(ref, u)]
    <2>1. /\ todo \in Seq(Frames \cup Others)
          /\ \A i \in 1..Len(todo) :
                todo[i] = "start" => \E j \in 1..(i - 1) : todo[j] = "hear"
      BY <1>0, TurnHearsFirst
    <2> HIDE DEF todo
    <2>2. requests' \in Nat
      BY <1>0, <1>2 DEF Submit
    <2>3. VoiceRef(ref, u) \in Refs
      BY DEF VoiceRef, Refs
    <2>4. /\ r \in CallShapes /\ r.todo = todo /\ r.phase = "read" /\ r.call = requests'
      BY <1>0, <2>1, <2>2, <2>3, NothingToDo DEF CallShapes
    <2>5. client' = [client EXCEPT ![c] = r]
      BY <1>2 DEF Submit, Serve, todo
    <2> HIDE DEF r
    <2>6. OnlyThisClient(c) /\ client'[c] = r
      BY <2>4, <2>5, CallBecomes
    <2> QED
      BY <2>1, <2>2, <2>4, <2>6 DEF FrameIsMove, WillHear, InFrame
  <1>3. ASSUME NEW u \in Utterances, Dispatch(c, u)
        PROVE  /\ OnlyThisClient(c) /\ FrameIsMove(c)' /\ WillHear(c)' /\ ~InFrame(c, "tell")'
               /\ requests' \in Nat
    <2>1. PICK todo \in Steps(u) :
            client' = [client EXCEPT ![c] = [NoCall EXCEPT !.todo = todo,
                                                           !.ref = VoiceRef("none", u)]]
      BY <1>3 DEF Dispatch, Serve
    <2> DEFINE r == [NoCall EXCEPT !.todo = todo, !.ref = VoiceRef("none", u)]
    <2>2. VoiceRef("none", u) \in Refs /\ todo \in Seq(Frames \cup Others)
      BY StepsAreSteps DEF VoiceRef, Refs
    <2>3. r \in CallShapes /\ r.phase = "read" /\ r.call = 0
      BY <1>0, <2>2, NothingToDo DEF CallShapes
    <2> HIDE DEF r
    <2>4. OnlyThisClient(c) /\ client'[c] = r
      BY <2>1, <2>3, CallBecomes DEF r
    <2>5. requests' \in Nat
      BY <1>0, <1>3 DEF Dispatch
    <2> QED
      BY <2>3, <2>4, <2>5 DEF FrameIsMove, WillHear, InFrame
  <1> QED
    BY <1>0, <1>1, <1>2, <1>3 DEF Request, Event, Submit, Dispatch, counters

\* What is left of a call after its first step.
LEMMA RestWillHear ==
    ASSUME VoiceTypeOK, NEW c \in Clients, ~Idle(c), WillHear(c), heard \subseteq heard',
           Head(client[c].todo) = "hear" => client[c].call \in heard'
    PROVE  /\ Tail(client[c].todo) \in Seq(Frames \cup Others)
           /\ client'[c].todo = Tail(client[c].todo) /\ client'[c].call = client[c].call =>
                 WillHear(c)'
  <1> DEFINE todo == client[c].todo
  <1>0. todo \in Seq(Frames \cup Others) /\ todo # <<>> /\ client[c].call \in Nat
    BY CallFields DEF Idle
  <1>1. /\ Tail(todo) \in Seq(Frames \cup Others) /\ Len(Tail(todo)) = Len(todo) - 1
        /\ \A i \in 1..Len(Tail(todo)) : Tail(todo)[i] = todo[i + 1]
        /\ Head(todo) = todo[1] /\ Len(todo) \in Nat
    BY <1>0
  <1>2. ASSUME client'[c].todo = Tail(todo), client'[c].call = client[c].call
        PROVE  WillHear(c)'
    <2> SUFFICES ASSUME NEW i \in 1..Len(Tail(todo)), client[c].call > 0,
                        Tail(todo)[i] = "start", client[c].call \notin heard'
                 PROVE  \E j \in 1..(i - 1) : Tail(todo)[j] = "hear"
      BY <1>2 DEF WillHear
    <2>1. i + 1 \in 1..Len(todo) /\ todo[i + 1] = "start"
      BY <1>1
    <2>2. PICK j \in 1..i : todo[j] = "hear"
      BY <2>1 DEF WillHear
    <2>3. j # 1
      BY <1>1, <2>2
    <2>4. j - 1 \in 1..(i - 1) /\ j - 1 \in 1..Len(Tail(todo)) /\ (j - 1) + 1 = j
      BY <1>1, <2>2, <2>3
    <2> QED
      BY <1>1, <2>2, <2>4
  <1> QED
    BY <1>1, <1>2

\* A call goes on with what is left of it.
LEMMA DoneGoesOn ==
    ASSUME VoiceTypeOK, NEW c \in Clients, ~Idle(c), Done(c), WillHear(c),
           heard \subseteq heard',
           Head(client[c].todo) = "hear" => client[c].call \in heard'
    PROVE  /\ OnlyThisClient(c)
           /\ FrameIsMove(c)' /\ WillHear(c)' /\ ~InFrame(c, "tell")'
  <1> DEFINE r == [client[c] EXCEPT !.todo = Tail(client[c].todo), !.phase = "read",
                                    !.read = "none"]
  <1>1. CASE Returns(c)
    BY <1>1, ReturnsToNothing
  <1>2. CASE client' = [client EXCEPT ![c] = r]
    <2>1. client[c] \in CallShapes /\ Tail(client[c].todo) \in Seq(Frames \cup Others)
      BY CallFields, RestWillHear
    <2>2. /\ r \in CallShapes /\ r.todo = Tail(client[c].todo) /\ r.phase = "read"
          /\ r.call = client[c].call
      BY <2>1 DEF CallShapes
    <2> HIDE DEF r
    <2>3. OnlyThisClient(c) /\ client'[c] = r
      BY <1>2, <2>2, CallBecomes
    <2> QED
      BY <2>2, <2>3, RestWillHear DEF FrameIsMove, InFrame
  <1>3. Returns(c) \/ client' = [client EXCEPT ![c] = r]
    BY DEF Done, VoiceTypeOK
  <1> QED
    BY <1>1, <1>2, <1>3

\* What a step of a call changes of the trail: it records a transition and is
\* about to tell, or tells it, or is in no such place before and after.
OfTheTrail(c) ==
    /\ crashes' = crashes
    /\ \/ untold' = untold + 1 /\ ~InFrame(c, "tell") /\ InFrame(c, "tell")'
       \/ untold' = untold - 1 /\ InFrame(c, "tell") /\ ~InFrame(c, "tell")'
       \/ untold' = untold /\ ~InFrame(c, "tell") /\ ~InFrame(c, "tell")'

Keeps(c) ==
    /\ VoiceTypeOK'
    /\ OnlyThisClient(c)
    /\ FrameIsMove(c)' /\ WillHear(c)' /\ heard \subseteq heard'
    /\ OfTheTrail(c)

\* A call that is too late leaves the session expired.
LEMMA TooLateKeeps ==
    ASSUME VoiceTypeOK, NEW c \in Clients, TooLate(c), ~InFrame(c, "tell"),
           UNCHANGED <<due, state, untold, heard, answered, facts, runs, counters>>
    PROVE  Keeps(c)
  <1>1. /\ OnlyThisClient(c) /\ FrameIsMove(c)' /\ WillHear(c)' /\ ~InFrame(c, "tell")'
    BY ReturnsToNothing DEF TooLate
  <1> QED
    BY <1>1 DEF TooLate, Keeps, OfTheTrail, VoiceTypeOK, OnlyThisClient, counters

\* The steps of a frame.
LEMMA FrameStepKeeps ==
    ASSUME VoiceTypeOK, NEW c \in Clients, FrameIsMove(c), WillHear(c),
           Read(c) \/ Record(c) \/ Tell(c)
    PROVE  Keeps(c) /\ UNCHANGED runs
  <1> USE DEF session, transcript, counters
  <1>0. client[c] \in CallShapes /\ state \in States /\ untold \in Int
    BY CallFields DEF VoiceTypeOK
  <1>1. CASE Read(c)
    <2>1. CASE Returns(c)
      <3>1. /\ OnlyThisClient(c) /\ FrameIsMove(c)' /\ WillHear(c)' /\ ~InFrame(c, "tell")'
        BY <2>1, ReturnsToNothing
      <3> QED
        BY <1>1, <3>1 DEF Read, Keeps, OfTheTrail, InFrame, VoiceTypeOK, OnlyThisClient
    <2>2. CASE /\ Accepts(state, Frame(c))
               /\ client' = [client EXCEPT ![c].phase = "record", ![c].read = state]
      <3> DEFINE r == [client[c] EXCEPT !.phase = "record", !.read = state]
      <3>1. /\ r \in CallShapes /\ r.phase = "record" /\ r.read = state
            /\ r.todo = client[c].todo /\ r.call = client[c].call
        BY <1>0 DEF CallShapes
      <3>2. client' = [client EXCEPT ![c] = r]
        BY <2>2 DEF VoiceTypeOK
      <3> HIDE DEF r
      <3>3. OnlyThisClient(c) /\ client'[c] = r
        BY <3>1, <3>2, CallBecomes
      <3>4. FrameIsMove(c)'
        BY <1>1, <2>2, <3>1, <3>3 DEF Read, FrameIsMove, InFrame, Idle, Frame, Accepts
      <3>5. WillHear(c)'
        BY <1>1, <3>1, <3>3 DEF Read, WillHear
      <3>6. ~InFrame(c, "tell")'
        BY <3>1, <3>3 DEF InFrame
      <3> QED
        BY <1>1, <3>3, <3>4, <3>5, <3>6 DEF Read, Keeps, OfTheTrail, InFrame, VoiceTypeOK, OnlyThisClient
    <2> QED
      BY <1>1, <2>1, <2>2 DEF Read
  <1>2. CASE Record(c)
    <2>0. ~Idle(c) /\ Frame(c) \in Frames /\ client[c].phase = "record" /\ UNCHANGED runs
      BY <1>2 DEF Record, InFrame
    <2>1. CASE TooLate(c) /\ UNCHANGED <<state, untold>>
      BY <1>2, <2>0, <2>1, TooLateKeeps DEF Record, InFrame
    <2>2. CASE ~(TooLate(c) /\ UNCHANGED <<state, untold>>)
      <3> DEFINE r == [client[c] EXCEPT !.phase = "tell"]
      <3>1. /\ r \in CallShapes /\ r.phase = "tell"
            /\ r.todo = client[c].todo /\ r.call = client[c].call
        BY <1>0 DEF CallShapes
      <3>2. client' = [client EXCEPT ![c] = r]
        BY <1>2, <2>2 DEF Record, VoiceTypeOK
      <3> HIDE DEF r
      <3>3. OnlyThisClient(c) /\ client'[c] = r
        BY <3>1, <3>2, CallBecomes
      <3>4. FrameIsMove(c)' /\ WillHear(c)' /\ InFrame(c, "tell")' /\ ~InFrame(c, "tell")
        BY <1>2, <2>0, <3>1, <3>3 DEF Record, FrameIsMove, WillHear, InFrame, Idle, Frame
      <3>5. state' \in States
        BY <1>2, <2>0, <2>2, NextStateIsAState DEF Record, FrameIsMove
      <3>6. untold' = untold + 1 /\ status' = status
        BY <1>2, <2>2 DEF Record
      <3> QED
        BY <1>0, <1>2, <3>3, <3>4, <3>5, <3>6
        DEF Record, Keeps, OfTheTrail, VoiceTypeOK, OnlyThisClient
    <2> QED
      BY <2>1, <2>2
  <1>3. CASE Tell(c)
    <2>0. /\ ~Idle(c) /\ Frame(c) \in Frames /\ InFrame(c, "tell") /\ Done(c)
          /\ untold' = untold - 1 /\ heard' = heard
      BY <1>3 DEF Tell, InFrame, Told
    <2>1. Head(client[c].todo) # "hear"
      BY <2>0, OthersAreNoFrames DEF Others, Entries, Frame
    <2>2. /\ OnlyThisClient(c) /\ FrameIsMove(c)' /\ WillHear(c)' /\ ~InFrame(c, "tell")'
      BY <2>0, <2>1, DoneGoesOn
    <2> QED
      BY <1>0, <1>3, <2>0, <2>2 DEF Tell, Keeps, OfTheTrail, VoiceTypeOK, OnlyThisClient
  <1> QED
    BY <1>1, <1>2, <1>3

\* A run that ends stays the run it was.
LEMMA EndingKeepsRuns ==
    ASSUME VoiceTypeOK, NEW r, Ends(r)
    PROVE  /\ runs' \in Seq(Runs) /\ DOMAIN runs' = DOMAIN runs
           /\ \A q \in DOMAIN runs : runs'[q].turn = runs[q].turn
  <1>0. runs \in Seq(Runs) /\ runs' = [runs EXCEPT ![r].at = "ended"]
    BY DEF VoiceTypeOK, Ends
  <1>1. Len(runs) \in Nat /\ DOMAIN runs = 1..Len(runs) /\ runs \in [1..Len(runs) -> Runs]
    BY <1>0
  <1>2. \A x \in Runs : /\ [x EXCEPT !.at = "ended"] \in Runs
                         /\ [x EXCEPT !.at = "ended"].turn = x.turn
    BY DEF Runs
  <1>3. /\ runs' \in [1..Len(runs) -> Runs] /\ DOMAIN runs' = DOMAIN runs
        /\ \A q \in DOMAIN runs :
              runs'[q] = IF q = r THEN [runs[q] EXCEPT !.at = "ended"] ELSE runs[q]
    BY <1>0, <1>1, <1>2
  <1>4. \A q \in DOMAIN runs : runs'[q].turn = runs[q].turn
    BY <1>1, <1>2, <1>3
  <1> QED
    BY <1>1, <1>3, <1>4

\* The other steps of a call.
LEMMA OtherStepKeeps ==
    ASSUME VoiceTypeOK, NEW c \in Clients, FrameIsMove(c), WillHear(c),
           \/ \E step \in Entries : Appends(c, step)
           \/ StartFails(c) \/ Finish(c) \/ Leave(c)
    PROVE  /\ Keeps(c)
           /\ runs' = runs \/ Ends(client[c].run)
  <1> USE DEF session, transcript, counters
  <1>1. ASSUME NEW step \in Others, Doing(c, step)
        PROVE  ~Idle(c) /\ Head(client[c].todo) = step /\ ~InFrame(c, "tell")
    BY <1>1, OthersAreNoFrames DEF Doing, InFrame, Frame
  <1>2. ASSUME NEW step \in Entries, Appends(c, step)
        PROVE  Keeps(c) /\ runs' = runs
    <2>1. step \in Others /\ Doing(c, step) /\ runs' = runs
      BY <1>2 DEF Others, Appends
    <2>2. CASE TooLate(c) /\ UNCHANGED transcript
      BY <1>1, <1>2, <2>1, <2>2, TooLateKeeps DEF Appends
    <2>3. CASE ~(TooLate(c) /\ UNCHANGED transcript)
      <3>1. /\ Done(c) /\ UNCHANGED <<status, due, state, untold, runs, requests, crashes>>
            /\ heard' = IF step = "hear" THEN heard \cup {client[c].call} ELSE heard
            /\ answered' = IF step = "respond" THEN answered \cup {client[c].run} ELSE answered
            /\ facts' = IF step = "note" THEN facts + 1 ELSE facts
        BY <1>2, <2>3 DEF Appends
      <3>2. /\ OnlyThisClient(c) /\ FrameIsMove(c)' /\ WillHear(c)' /\ ~InFrame(c, "tell")'
        BY <1>1, <2>1, <3>1, DoneGoesOn
      <3>3. /\ heard' \subseteq Nat /\ answered' \subseteq Nat /\ facts' \in Nat
        <4>1. client[c].call \in Nat /\ client[c].run \in Nat
          BY CallFields
        <4>2. heard' \subseteq Nat
          BY <3>1, <4>1 DEF VoiceTypeOK
        <4>3. answered' \subseteq Nat
          BY <3>1, <4>1 DEF VoiceTypeOK
        <4>4. facts' \in Nat
          BY <3>1 DEF VoiceTypeOK
        <4> QED
          BY <4>2, <4>3, <4>4
      <3> QED
        BY <1>1, <2>1, <3>1, <3>2, <3>3 DEF Keeps, OfTheTrail, VoiceTypeOK, OnlyThisClient
    <2> QED
      BY <2>1, <2>2, <2>3
  <1>3. ASSUME StartFails(c) \/ Leave(c)
        PROVE  Keeps(c) /\ runs' = runs
    <2>1. /\ OnlyThisClient(c) /\ FrameIsMove(c)' /\ WillHear(c)' /\ ~InFrame(c, "tell")'
      BY <1>3, ReturnsToNothing DEF StartFails, Leave
    <2>2. ~InFrame(c, "tell")
      BY <1>1, <1>3 DEF StartFails, Leave, Others
    <2> QED
      BY <1>3, <2>1, <2>2
      DEF StartFails, Leave, Keeps, OfTheTrail, VoiceTypeOK, OnlyThisClient
  <1>4. ASSUME Finish(c)
        PROVE  Keeps(c) /\ Ends(client[c].run)
    <2>1. Doing(c, "finish") /\ Ends(client[c].run) /\ Done(c) /\ heard' = heard
      BY <1>4 DEF Finish
    <2>2. ~Idle(c) /\ Head(client[c].todo) = "finish" /\ ~InFrame(c, "tell")
      BY <1>1, <2>1 DEF Others
    <2>3. /\ OnlyThisClient(c) /\ FrameIsMove(c)' /\ WillHear(c)' /\ ~InFrame(c, "tell")'
      BY <2>1, <2>2, DoneGoesOn
    <2>4. runs' \in Seq(Runs)
      BY <2>1, EndingKeepsRuns
    <2> QED
      BY <1>4, <2>1, <2>2, <2>3, <2>4
      DEF Finish, Keeps, OfTheTrail, VoiceTypeOK, OnlyThisClient
  <1> QED
    BY <1>2, <1>3, <1>4

\* A run that starts is of the turn of its client.
LEMMA StartKeeps ==
    ASSUME VoiceTypeOK, NEW c \in Clients, FrameIsMove(c), WillHear(c), Start(c)
    PROVE  /\ Keeps(c) /\ heard' = heard
           /\ runs' = Append(runs, [turn |-> client[c].call, ref |-> client[c].ref,
                                    at |-> "running"])
           /\ client[c].call > 0 => client[c].call \in heard
  <1> DEFINE r == [client[c] EXCEPT !.todo = Tail(client[c].todo), !.run = Len(runs) + 1]
  <1>0. client[c] \in CallShapes /\ runs \in Seq(Runs)
    BY CallFields DEF VoiceTypeOK
  <1>1. /\ ~Idle(c) /\ Head(client[c].todo) = "start" /\ heard' = heard
        /\ ~InFrame(c, "tell") /\ client[c].phase = "read"
    BY OthersAreNoFrames
    DEF Start, Doing, InFrame, Frame, Others, FrameIsMove, transcript
  <1>2. Tail(client[c].todo) \in Seq(Frames \cup Others) /\ Len(runs) + 1 \in Nat
    BY <1>0, <1>1, RestWillHear
  <1>3. /\ r \in CallShapes /\ r.todo = Tail(client[c].todo) /\ r.phase = "read"
        /\ r.call = client[c].call
    BY <1>0, <1>1, <1>2 DEF CallShapes
  <1>4. client' = [client EXCEPT ![c] = r]
    BY DEF Start, VoiceTypeOK
  <1> HIDE DEF r
  <1>5. OnlyThisClient(c) /\ client'[c] = r
    BY <1>3, <1>4, CallBecomes
  <1>6. FrameIsMove(c)' /\ ~InFrame(c, "tell")'
    BY <1>3, <1>5 DEF FrameIsMove, InFrame
  <1>7. WillHear(c)'
    BY <1>1, <1>3, <1>5, RestWillHear
  <1>8. [turn |-> client[c].call, ref |-> client[c].ref, at |-> "running"] \in Runs
    BY CallFields DEF Runs
  <1>9. runs' \in Seq(Runs)
    BY <1>0, <1>8 DEF Start
  <1>10. ASSUME client[c].call > 0
         PROVE  client[c].call \in heard
    <2>1. 1 \in 1..Len(client[c].todo) /\ client[c].todo[1] = "start"
      BY <1>1, CallFields DEF Idle
    <2> QED
      BY <1>10, <2>1 DEF WillHear
  <1> QED
    BY <1>1, <1>5, <1>6, <1>7, <1>9, <1>10
    DEF Start, Keeps, OfTheTrail, VoiceTypeOK, OnlyThisClient, session, transcript, counters

-----------------------------------------------------------------------------
(* Every step *)

\* The trail goes on following: who records is about to tell, and who tells is
\* so no longer.
LEMMA TrailGoesOn ==
    ASSUME VoiceTypeOK, TrailFollows, NEW c \in Clients, OnlyThisClient(c),
           \/ OfTheTrail(c)
           \/ untold' = untold /\ crashes' = crashes + 1 /\ ~InFrame(c, "tell")'
    PROVE  TrailFollows'
  <1>0. /\ IsFiniteSet(Telling) /\ Cardinality(Telling) \in Nat
        /\ untold <= crashes + Cardinality(Telling)
        /\ untold \in Int /\ crashes \in Nat
    <2>1. IsFiniteSet(Telling)
      BY VoiceAssumption, FS_Subset DEF Telling
    <2> QED
      BY <2>1, FS_CardinalityType DEF TrailFollows, Telling, VoiceTypeOK
  <1>1. \A d \in Clients : d # c => (InFrame(d, "tell")' <=> InFrame(d, "tell"))
    BY DEF OnlyThisClient, InFrame, Idle, Frame
  <1>2. ASSUME InFrame(c, "tell")', ~InFrame(c, "tell")
        PROVE  Cardinality(Telling') = Cardinality(Telling) + 1
    <2>1. Telling' = Telling \cup {c} /\ c \notin Telling
      BY <1>1, <1>2 DEF Telling
    <2> QED
      BY <1>0, <2>1, FS_AddElement
  <1>3. ASSUME ~InFrame(c, "tell")', InFrame(c, "tell")
        PROVE  Cardinality(Telling') = Cardinality(Telling) - 1
    <2>1. Telling' = Telling \ {c} /\ c \in Telling
      BY <1>1, <1>3 DEF Telling
    <2> QED
      BY <1>0, <2>1, FS_RemoveElement
  <1>4. ASSUME InFrame(c, "tell")' <=> InFrame(c, "tell")
        PROVE  Telling' = Telling
    BY <1>1, <1>4 DEF Telling
  <1>5. untold' <= crashes' + Cardinality(Telling')
    BY <1>0, <1>2, <1>3, <1>4 DEF OfTheTrail
  <1> QED
    BY <1>5 DEF TrailFollows, Telling

\* A step of one call keeps the invariant.
LEMMA CallStepKeeps ==
    ASSUME VoiceInv, NEW c \in Clients, Keeps(c), HeardBeforeRun'
    PROVE  VoiceInv'
  <1>1. TrailFollows'
    BY TrailGoesOn DEF VoiceInv, Keeps
  <1>2. ASSUME NEW d \in Clients
        PROVE  FrameIsMove(d)' /\ WillHear(d)'
    <2>1. CASE d = c
      BY <2>1 DEF Keeps
    <2>2. CASE d # c
      <3>1. client'[d] = client[d] /\ FrameIsMove(d) /\ WillHear(d) /\ heard \subseteq heard'
        BY <2>2 DEF Keeps, OnlyThisClient, VoiceInv
      <3> QED
        BY <3>1 DEF FrameIsMove, WillHear, Idle, Frame, Accepts
    <2> QED
      BY <2>1, <2>2
  <1> QED
    BY <1>1, <1>2 DEF VoiceInv, Keeps

\* Every step keeps it.
LEMMA VoiceInvKept ==
    ASSUME VoiceInv, [Next]_vars
    PROVE  VoiceInv'
  <1> USE DEF session, transcript, counters
  <1>0. VoiceTypeOK /\ HeardBeforeRun /\ TrailFollows
    BY DEF VoiceInv
  <1>1. ASSUME heard \subseteq heard', runs' = runs
        PROVE  HeardBeforeRun'
    BY <1>0, <1>1 DEF HeardBeforeRun
  <1>2. ASSUME NEW r, heard \subseteq heard', Ends(r)
        PROVE  HeardBeforeRun'
    BY <1>0, <1>2, EndingKeepsRuns DEF HeardBeforeRun
  <1>3. ASSUME NEW c \in Clients, Request(c)
        PROVE  VoiceInv'
    <2>1. Keeps(c) /\ runs' = runs /\ heard' = heard
      BY <1>0, <1>3, Serves DEF Keeps, OfTheTrail, InFrame, VoiceTypeOK, OnlyThisClient
    <2> QED
      BY <1>1, <2>1, CallStepKeeps
  <1>4. ASSUME NEW c \in Clients, Continue(c)
        PROVE  VoiceInv'
    <2>0. FrameIsMove(c) /\ WillHear(c)
      BY DEF VoiceInv
    <2>1. CASE Read(c) \/ Record(c) \/ Tell(c)
      <3>1. Keeps(c) /\ runs' = runs
        BY <1>0, <2>0, <2>1, FrameStepKeeps
      <3> QED
        BY <1>1, <3>1, CallStepKeeps DEF Keeps
    <2>2. CASE \/ \E step \in Entries : Appends(c, step)
               \/ StartFails(c) \/ Finish(c) \/ Leave(c)
      <3>1. Keeps(c) /\ (runs' = runs \/ Ends(client[c].run))
        BY <1>0, <2>0, <2>2, OtherStepKeeps
      <3> QED
        BY <1>1, <1>2, <3>1, CallStepKeeps DEF Keeps
    <2>3. CASE Start(c)
      <3>1. /\ Keeps(c) /\ heard' = heard
            /\ runs' = Append(runs, [turn |-> client[c].call, ref |-> client[c].ref,
                                     at |-> "running"])
            /\ client[c].call > 0 => client[c].call \in heard
        BY <1>0, <2>0, <2>3, StartKeeps
      <3>2. runs \in Seq(Runs)
        BY <1>0 DEF VoiceTypeOK
      <3>3. HeardBeforeRun'
        <4> SUFFICES ASSUME NEW r \in DOMAIN runs', runs'[r].turn > 0
                     PROVE  runs'[r].turn \in heard'
          BY DEF HeardBeforeRun
        <4>1. CASE r \in DOMAIN runs
          <5>1. runs'[r] = runs[r]
            BY <3>1, <3>2, <4>1
          <5> QED
            BY <1>0, <3>1, <4>1, <5>1 DEF HeardBeforeRun
        <4>2. CASE r \notin DOMAIN runs
          <5>1. runs'[r].turn = client[c].call
            BY <3>1, <3>2, <4>2
          <5> QED
            BY <3>1, <5>1
        <4> QED
          BY <4>1, <4>2
      <3> QED
        BY <3>1, <3>3, CallStepKeeps
    <2> QED
      BY <1>4, <2>1, <2>2, <2>3 DEF Continue, Entries
  <1>5. ASSUME NEW c \in Clients, Crash(c)
        PROVE  VoiceInv'
    <2>1. /\ OnlyThisClient(c) /\ FrameIsMove(c)' /\ WillHear(c)' /\ ~InFrame(c, "tell")'
      BY <1>0, <1>5, ReturnsToNothing DEF Crash
    <2>2. VoiceTypeOK'
      BY <1>0, <1>5, <2>1 DEF Crash, VoiceTypeOK, OnlyThisClient
    <2>3. TrailFollows'
      BY <1>0, <1>5, <2>1, TrailGoesOn DEF Crash
    <2>4. HeardBeforeRun' /\ heard' = heard
      BY <1>1, <1>5 DEF Crash
    <2>5. ASSUME NEW d \in Clients
          PROVE  FrameIsMove(d)' /\ WillHear(d)'
      <3>1. CASE d = c
        BY <2>1, <3>1
      <3>2. CASE d # c
        <4>1. client'[d] = client[d] /\ FrameIsMove(d) /\ WillHear(d)
          BY <2>1, <3>2 DEF OnlyThisClient, VoiceInv
        <4> QED
          BY <2>4, <4>1 DEF FrameIsMove, WillHear, Idle, Frame, Accepts
      <3> QED
        BY <3>1, <3>2
    <2> QED
      BY <2>2, <2>3, <2>4, <2>5 DEF VoiceInv
  <1>6. ASSUME UNCHANGED <<client, heard, answered, facts, untold, crashes, requests, state>>,
               VoiceTypeOK', HeardBeforeRun'
        PROVE  VoiceInv'
    <2>1. TrailFollows'
      BY <1>0, <1>6 DEF TrailFollows, InFrame, Idle, Frame
    <2>2. \A d \in Clients : FrameIsMove(d)' /\ WillHear(d)'
      BY <1>6 DEF VoiceInv, FrameIsMove, WillHear, Idle, Frame, Accepts
    <2> QED
      BY <1>6, <2>1, <2>2 DEF VoiceInv
  <1>7. ASSUME NEW r \in DOMAIN runs, EndsAlone(r)
        PROVE  VoiceInv'
    <2>1. Ends(r) /\ UNCHANGED <<session, transcript, client, counters>>
      BY <1>7 DEF EndsAlone
    <2>2. VoiceTypeOK'
      BY <1>0, <2>1, EndingKeepsRuns DEF VoiceTypeOK
    <2> QED
      BY <1>2, <1>6, <2>1, <2>2
  <1>8. CASE Expire \/ Show \/ Summarize
    <2>1. /\ UNCHANGED <<client, heard, answered, facts, untold, crashes, requests, state>>
          /\ runs' = runs
      BY <1>8 DEF Expire, Show, Summarize
    <2>2. VoiceTypeOK'
      BY <1>0, <1>8, <2>1 DEF Expire, Show, Summarize, VoiceTypeOK
    <2> QED
      BY <1>1, <1>6, <2>1, <2>2
  <1>9. CASE UNCHANGED vars
    <2>1. UNCHANGED <<session, transcript, runs, client, counters>>
      BY <1>9 DEF vars
    <2>2. VoiceTypeOK'
      BY <1>0, <2>1 DEF VoiceTypeOK
    <2> QED
      BY <1>1, <1>6, <2>1, <2>2
  <1> QED
    BY <1>3, <1>4, <1>5, <1>7, <1>8, <1>9 DEF Next

\* It holds of a session that has just been opened.
LEMMA InitVoiceInv ==
    ASSUME Init
    PROVE  VoiceInv
  <1> USE DEF Init
  <1>1. VoiceTypeOK
    <2>1. client \in [Clients -> CallShapes]
      BY NothingToDo
    <2>2. state \in States /\ status \in {"active", "expired", "summarized"} /\ due \in BOOLEAN
      BY DEF States, Working
    <2>3. runs \in Seq(Runs)
      OBVIOUS
    <2> QED
      BY <2>1, <2>2, <2>3 DEF VoiceTypeOK
  <1>2. \A c \in Clients : FrameIsMove(c) /\ WillHear(c) /\ ~InFrame(c, "tell")
    BY NothingToDo DEF Init, FrameIsMove, WillHear, InFrame, Idle
  <1>3. HeardBeforeRun
    BY DEF Init, HeardBeforeRun
  <1>4. TrailFollows
    <2>1. Telling = {}
      BY <1>2 DEF Telling
    <2>2. Cardinality(Telling) = 0
      BY <2>1, FS_EmptySet
    <2>3. untold = 0 /\ crashes = 0
      OBVIOUS
    <2>4. TrailFollows <=> untold <= crashes + Cardinality(Telling)
      BY DEF TrailFollows, Telling
    <2> QED
      BY <2>2, <2>3, <2>4
  <1> QED
    BY <1>1, <1>2, <1>3, <1>4 DEF VoiceInv

-----------------------------------------------------------------------------
(* Theorems *)

\* The types, and what the properties rest on, hold of every reachable state.
THEOREM VoiceInvariant == Spec => []VoiceInv
  BY InitVoiceInv, VoiceInvKept, PTL DEF Spec

\* No run of a voice turn starts before its words are in the transcript
\* (op_voice_submit_text).
THEOREM WordsComeFirst == Spec => []HeardBeforeRun
  <1>1. VoiceInv => HeardBeforeRun
    BY DEF VoiceInv
  <1> QED
    BY <1>1, VoiceInvariant, PTL

\* The event trail lacks only what clients are about to write, or died before
\* writing (_record_transition).
THEOREM TrailIsComplete == Spec => []TrailFollows
  <1>1. VoiceInv => TrailFollows
    BY DEF VoiceInv
  <1> QED
    BY <1>1, VoiceInvariant, PTL

\* Nothing is added to a session whose time is over (append_entry).
THEOREM OverIsSilent == Spec => ExpiredIsSilent
  <1> USE DEF session, transcript, counters
  <1>1. ASSUME [Next]_vars, due
        PROVE  UNCHANGED <<state, transcript>>
    <2>1. ASSUME NEW c \in Clients, Request(c)
          PROVE  UNCHANGED <<state, transcript>>
      BY <2>1 DEF Request, Event, Submit, Dispatch
    <2>2. ASSUME NEW c \in Clients, Continue(c)
          PROVE  UNCHANGED <<state, transcript>>
      BY <1>1, <2>2 DEF Continue, Read, Record, Tell, Appends, Over, StartFails, Start,
         Finish, Leave
    <2>3. ASSUME NEW c \in Clients, Crash(c)
          PROVE  UNCHANGED <<state, transcript>>
      BY <2>3 DEF Crash
    <2>4. ASSUME NEW r \in DOMAIN runs, EndsAlone(r)
          PROVE  UNCHANGED <<state, transcript>>
      BY <2>4 DEF EndsAlone
    <2>5. CASE Expire \/ Show \/ Summarize
      BY <2>5 DEF Expire, Show, Summarize
    <2>6. CASE UNCHANGED vars
      BY <2>6 DEF vars
    <2> QED
      BY <1>1, <2>1, <2>2, <2>3, <2>4, <2>5, <2>6 DEF Next
  <1>2. [Next]_vars => [due => UNCHANGED <<state, transcript>>]_vars
    BY <1>1
  <1> QED
    BY <1>2, PTL DEF Spec, ExpiredIsSilent

\* The assistant sends what the operator said to local models only, every Ollama
\* being one
\* (_authorize_completion_call).
THEOREM HostedModelsHearNothing == Spec => []NoHostedModelAsked
  <1>1. Init => NoHostedModelAsked
    BY DEF Init, NoHostedModelAsked
  <1>2. ASSUME NoHostedModelAsked, [Next]_vars
        PROVE  NoHostedModelAsked'
    <2>1. ASSUME NEW r, Ends(r)
          PROVE  NoHostedModelAsked'
      BY <1>2, <2>1, AssistantCallsLocal DEF Ends, Local, NoHostedModelAsked
    <2>2. CASE called' = called
      BY <1>2, <2>2 DEF NoHostedModelAsked
    <2>3. ASSUME NEW c \in Clients, Request(c) \/ Continue(c) \/ Crash(c)
          PROVE  called' = called \/ Ends(client[c].run)
      BY <2>3 DEF Request, Event, Submit, Dispatch, Continue, Read, Record, Tell, Appends,
         StartFails, Start, Finish, Leave, Crash
    <2>4. ASSUME NEW r \in DOMAIN runs, EndsAlone(r)
          PROVE  Ends(r)
      BY <2>4 DEF EndsAlone
    <2>5. CASE Expire \/ Show \/ Summarize
      BY <2>2, <2>5 DEF Expire, Show, Summarize
    <2>6. CASE UNCHANGED vars
      BY <2>2, <2>6 DEF vars
    <2> QED
      BY <1>2, <2>1, <2>2, <2>3, <2>4, <2>5, <2>6 DEF Next
  <1> QED
    BY <1>1, <1>2, PTL DEF Spec

=============================================================================
